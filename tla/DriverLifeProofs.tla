-------------------------- MODULE DriverLifeProofs --------------------------
(***************************************************************************)
(* Safety of DriverLife for exports and adapters of any number and a ring  *)
(* of any size, whatever fails.  The inductive invariant has three parts:  *)
(* where ndis.sys is hooked at each step of the load of ndis_hk; what      *)
(* ndis_flt has at each step of its main thread; and how the log stands to *)
(* close_log.  The last two say nothing of a system that has stopped.      *)
(* What the ring holds is shown apart from them, and at the end that every *)
(* step of the log is one of the bounded buffer DropOldest, or none.       *)
(***************************************************************************)
EXTENDS DriverLife, FiniteSetTheorems, SequenceTheorems, TLAPS

(* ndis.sys, as long as no write and no search has failed: an export that  *)
(* leads to the hook is one whose old value is stored, or about to be.     *)
Trusted == {"write", "find"} \cap failed = {}
HookTypes ==
  /\ hk \in {"pools", "av", "device", "find", "hook", "store", "undo", "undoing",
             "unload", "unloading", "free", "loaded", "failed"}
  /\ fn \in Nat \ {0}
  /\ exports \in [HookFns -> {"ndis", "hook"}]
  /\ old_fn \in [HookFns -> {NULL, "ndis", "hook"}]
  /\ hk = "store" => old \in {"ndis", "hook"} /\ fn \in HookFns
HookOK(i) ==
  /\ old_fn[i] # "hook"
  /\ exports[i] = "hook" => old_fn[i] = "ndis" \/ (hk = "store" /\ i = fn)
  /\ hk \in {"pools", "av", "device", "find"} \/ (hk = "hook" /\ i >= fn) => exports[i] = "ndis"
  /\ hk = "store" /\ i > fn => exports[i] = "ndis"
  /\ hk \in {"undoing", "unloading"} /\ i < fn => exports[i] = "ndis"
  /\ hk \in {"free", "failed"} => exports[i] = "ndis"
HashOK ==
  ~hash /\ hk \notin {"pools", "av", "failed"} =>
    failed \cap {"packetpool", "bufferpool", "av"} # {}
HkInv == /\ HookTypes /\ HashOK
         /\ Trusted => /\ \A i \in HookFns : HookOK(i)
                       /\ hk = "store" => old = "ndis"

(* The main thread. *)
Opening   == {"filter", "connect", "iface", "adapters", "buffer", "attach"}
Listing   == {"net", "basic", "value", "enum", "path", "service", "description", "done", "next"}
Unloading == {"rules", "join", "close", "unloaded"}
LogFailed == failed \cap {"logfile", "ring", "logthread"} # {}
MainInv ==
  /\ main \in {"load", "report", "running", "detach"} \cup Opening \cup Listing \cup Unloading
  /\ main = "load" => status
  /\ attached => iface /\ fileobj /\ logger # "none" /\ main \in {"report", "running", "detach"}
  /\ signal # {} => iface
  /\ main \in Unloading => ~attached /\ ~fileobj /\ signal = {}
  /\ main \in {"close", "unloaded"} => reloader # "runs"
  /\ main \in {"iface", "adapters"} => fileobj
  /\ main = "adapters" /\ ~iface => "iface" \in failed
  /\ main \in {"buffer", "attach"} \cup Listing => iface /\ fileobj
  /\ main \notin {"load", "filter"} /\ ~rulesInit => LogFailed
  /\ main \in Opening \cup Listing \cup {"running"} => logger # "none" /\ status
  /\ status /\ main # "load" => logger # "none"

(* What the functions of ndis_flt have allocated or opened. *)
HeldInv ==
  /\ locals = held /\ held \subseteq {"buf"} \cup InDescription
  /\ main \notin Listing => held = {}
  /\ main \in {"net", "next"} => held \subseteq {"buf"}

(* The log. *)
LogInv ==
  /\ main = "load" => logger = "none" /\ logFile = "none"
  /\ main \notin {"close", "unloaded"} => closer = "open"
  /\ main = "unloaded" => closer = "closed"
  /\ logger = "none" /\ main # "load" => LogFailed
  /\ closer = "open" /\ logFile = "none" => memory = "none" /\ logger = "none" /\ file = <<>>
  /\ logger # "none" /\ closer \notin {"end", "closed"} => memory = "allocated"
  /\ closer \in {"free", "end", "closed"} => LoggerGone
  /\ closer \in {"end", "closed"} => memory # "allocated"
  /\ closer = "closed" => logFile = "none"
  /\ closer \in {"wake", "join"} => logFile = "open"
  /\ closer = "closed" /\ file # <<>> => file[Len(file)] = [note |-> "end"]

Lines == [msg : 0..MaxMsg] \cup [skip : Nat] \cup [note : {"begin", "end"}]

IInv == /\ CrashesOnlyAfter /\ HkInv /\ LogTypeOK /\ file \in Seq(Lines)
        /\ ~crashed => MainInv /\ HeldInv /\ LogInv
-----------------------------------------------------------------------------
(* What fails is remembered: a step of another part leaves ndis.sys alone. *)
LEMMA HkSame ==
  ASSUME HkInv, UNCHANGED hkVars, failed \subseteq failed'
  PROVE  HkInv'
PROOF
<1>1. Trusted' => Trusted
  BY DEF Trusted
<1>2. HookTypes' /\ HashOK'
  BY DEF HkInv, HookTypes, HashOK, hkVars, hooks
<1>3. ASSUME NEW j \in HookFns, Trusted PROVE HookOK(j)'
  BY <1>3 DEF HkInv, HookOK, hkVars, hooks
<1>. QED
  BY <1>1, <1>2, <1>3 DEF HkInv, hkVars, hooks

(* A step of the load of ndis_hk.                                          *)
LEMMA HkStep ==
  ASSUME HkInv, LoadHk
  PROVE  HkInv' /\ failed \subseteq failed'
PROOF
<1>. USE DEF hooks
<1>1. failed \subseteq failed'
  BY DEF LoadHk, Pools, InitAv, CreateDevice, Find, Hook, Store, NoName, Hooked, FindAgain,
         Undo, Undone, FreeAv, Leaves, Goes, Replaced, Fails, Succeeds
<1>2. HashOK'
  BY <1>1 DEF HkInv, HashOK, LoadHk, Pools, InitAv, CreateDevice, Find, Hook, Store, NoName,
         Hooked, FindAgain, Undo, Undone, FreeAv, Leaves, Goes, Replaced, Fails, Succeeds,
         AfterUndo, Undoing
<1>3. HookFns = 1..Len(HookFn) /\ Len(HookFn) \in Nat
  BY HookFnAssumption DEF HookFns
<1>. DEFINE Clean == \A j \in HookFns : HookOK(j)
<1>. DEFINE Rest == HookTypes' /\ (Trusted' => Clean' /\ (hk' = "store" => old' = "ndis"))
<1>4. HookTypes /\ (Trusted' => Clean /\ (hk = "store" => old = "ndis"))
  BY <1>1 DEF HkInv, Trusted
<1>. SUFFICES Rest
  BY <1>1, <1>2 DEF HkInv
<1>5. CASE \/ Pools \/ InitAv \/ CreateDevice \/ NoName \/ Hooked
  <2>1. UNCHANGED hooks /\ (hk' \in {"av", "device", "find", "unload", "undo", "loaded"})
        /\ (hk \in {"pools", "av", "device", "hook"})
        /\ (hk' \in {"device", "find", "av"} => hk \in {"pools", "av", "device"})
    BY <1>5 DEF Pools, InitAv, CreateDevice, NoName, Hooked, Leaves, Goes
  <2>2. HookTypes'
    BY <1>4, <2>1 DEF HookTypes
  <2>3. ASSUME NEW j \in HookFns, HookOK(j) PROVE HookOK(j)'
    BY <2>1, <2>3 DEF HookOK
  <2>. QED
    BY <1>4, <2>1, <2>2, <2>3
<1>6. CASE Find
  <2>1. /\ UNCHANGED <<exports, old, old_fn>> /\ hk = "find"
        /\ hk' \in {"unload", "hook"} /\ fn' \in {fn, 1}
    BY <1>6 DEF Find, Leaves, Goes
  <2>2. HookTypes'
    BY <1>4, <2>1 DEF HookTypes
  <2>3. ASSUME NEW j \in HookFns, HookOK(j) PROVE HookOK(j)'
    BY <2>1, <2>3 DEF HookOK
  <2>. QED
    BY <1>4, <2>1, <2>2, <2>3
<1>7. CASE Hook
  <2>1. /\ hk = "hook" /\ fn \in HookFns /\ hk' = "store" /\ old' = exports[fn]
        /\ exports' = [exports EXCEPT ![fn] = "hook"] \/ ("write" \in failed' /\ exports' = exports)
        /\ UNCHANGED <<fn, old_fn>>
    BY <1>7 DEF Hook, Replaced, Fails
  <2>2. HookTypes'
    BY <1>4, <2>1 DEF HookTypes
  <2>3. Trusted' => exports' = [exports EXCEPT ![fn] = "hook"] /\ old' = "ndis"
    BY <1>3, <1>4, <2>1 DEF Trusted, HookOK
  <2>4. ASSUME NEW j \in HookFns, Trusted' PROVE HookOK(j)'
    BY <1>3, <1>4, <2>1, <2>3, <2>4 DEF HookOK, HookTypes
  <2>. QED
    BY <2>2, <2>3, <2>4
<1>8. CASE Store
  <2>1. /\ hk = "store" /\ hk' = "hook" /\ old_fn' = [old_fn EXCEPT ![fn] = old]
        /\ fn' = fn + 1 /\ UNCHANGED exports
    BY <1>8 DEF Store, Goes
  <2>2. HookTypes'
    BY <1>4, <2>1 DEF HookTypes
  <2>3. ASSUME NEW j \in HookFns, Trusted' PROVE HookOK(j)'
    BY <1>3, <1>4, <2>1, <2>3 DEF HookOK, HookTypes
  <2>. QED
    BY <2>1, <2>2, <2>3
<1>9. CASE FindAgain
  <2>1. /\ UNCHANGED <<exports, old, old_fn>> /\ hk \in {"undo", "unload"}
        /\ hk' \in {"undoing", "unloading", "unload", "free"}
        /\ hk' \in {"undoing", "unloading"} => fn' = 1
        /\ fn' \in {fn, 1}
        /\ hk' = "free" => "find" \in failed'
    <3>1. /\ DOMAIN Undoing = {"undo", "unload"}
          /\ Undoing["undo"] = "undoing" /\ Undoing["unload"] = "unloading"
      BY DEF Undoing
    <3>2. hk \in {"undo", "unload"} /\ UNCHANGED <<exports, old, old_fn>>
      BY <1>9, <3>1 DEF FindAgain
    <3>3. /\ Undoing[hk] \in {"undoing", "unloading"}
          /\ AfterUndo(Undoing[hk]) \in {"unload", "free"}
      BY <3>1, <3>2 DEF AfterUndo
    <3>. QED
      BY <1>9, <3>2, <3>3 DEF FindAgain, Fails
  <2>2. HookTypes'
    BY <1>4, <2>1 DEF HookTypes
  <2>3. ASSUME NEW j \in HookFns, Trusted' PROVE HookOK(j)'
    BY <1>3, <1>4, <2>1, <2>3 DEF HookOK, Trusted
  <2>. QED
    BY <2>1, <2>2, <2>3
<1>10. CASE Undo
  <2>1. /\ hk \in {"undoing", "unloading"} /\ fn \in HookFns /\ hk' = hk /\ fn' = fn + 1
        /\ UNCHANGED <<old, old_fn>>
        /\ \/ old_fn[fn] # NULL /\ exports' = [exports EXCEPT ![fn] = old_fn[fn]]
           \/ "write" \in failed' /\ UNCHANGED exports
           \/ old_fn[fn] = NULL /\ UNCHANGED exports
    BY <1>10 DEF Undo, WasHooked, Replaced, Fails
  <2>2. HookTypes'
    BY <1>4, <2>1 DEF HookTypes
  <2>3. Trusted' => exports'[fn] = "ndis"
    BY <1>4, <2>1, NullAssumption DEF HookOK, HookTypes, Trusted
  <2>4. ASSUME NEW j \in HookFns, Trusted' PROVE HookOK(j)'
    BY <1>3, <1>4, <2>1, <2>3, <2>4 DEF HookOK, HookTypes
  <2>. QED
    BY <2>1, <2>2, <2>4
<1>11. CASE Undone
  <2>1. /\ hk \in {"undoing", "unloading"} /\ fn \notin HookFns /\ UNCHANGED hooks
        /\ hk' \in {"unload", "free"}
    BY <1>11 DEF Undone, Goes, AfterUndo
  <2>2. HookTypes'
    BY <1>4, <2>1 DEF HookTypes
  <2>3. ASSUME NEW j \in HookFns, Trusted' PROVE HookOK(j)'
    BY <1>3, <1>4, <2>1, <2>3 DEF HookOK, HookTypes
  <2>. QED
    BY <2>1, <2>2, <2>3
<1>12. CASE FreeAv
  <2>1. hk = "free" /\ hk' = "failed" /\ UNCHANGED hooks
    BY <1>12 DEF FreeAv
  <2>2. HookTypes'
    BY <1>4, <2>1 DEF HookTypes
  <2>3. ASSUME NEW j \in HookFns, HookOK(j) PROVE HookOK(j)'
    BY <2>1, <2>3 DEF HookOK
  <2>. QED
    BY <1>4, <2>1, <2>2, <2>3
<1>. QED
  BY <1>5, <1>6, <1>7, <1>8, <1>9, <1>10, <1>11, <1>12 DEF LoadHk

(* The log and ndis.sys are left alone by most steps of ndis_flt.          *)
LEMMA LogSame ==
  ASSUME LogTypeOK, file \in Seq(Lines), UNCHANGED logVars
  PROVE  LogTypeOK' /\ file' \in Seq(Lines)
PROOF
<1>. QED
  BY DEF LogTypeOK, logVars, ring, opened

LEMMA LogInvSame ==
  ASSUME LogInv, UNCHANGED logVars, failed \subseteq failed',
         \/ main' = main
         \/ main \notin {"load", "close", "unloaded"} /\ main' \notin {"load", "unloaded"}
  PROVE  LogInv'
PROOF
<1>1. LogFailed => LogFailed'
  BY DEF LogFailed
<1>. QED
  BY <1>1 DEF LogInv, LoggerGone, logVars, ring, opened

LEMMA DriverStep ==
  ASSUME IInv, ~crashed, UNCHANGED <<hkVars, logVars>>, failed \subseteq failed',
         crashed' => failed' \cap CrashNeeds # {},
         \/ main' = main
         \/ main \notin {"load", "close", "unloaded"} /\ main' \notin {"load", "unloaded"},
         ~crashed' => MainInv' /\ HeldInv'
  PROVE  IInv'
PROOF
<1>1. HkInv' /\ LogTypeOK' /\ file' \in Seq(Lines)
  BY HkSame, LogSame DEF IInv
<1>2. LogInv'
  BY LogInvSame DEF IInv
<1>. QED
  BY <1>1, <1>2 DEF IInv, CrashesOnlyAfter

(* DriverEntry after the log, but for log_description.                     *)
LEMMA EntryStep ==
  ASSUME IInv, ~crashed,
         FilterInit \/ Connect \/ GetIface \/ ListSize \/ ListBuffer \/ Attach \/ Report \/ Unload
  PROVE  IInv'
PROOF
<1>. USE DEF rules, link, listing, Opening, Listing, Unloading, At, Goto, GiveUp, CrashIf,
             Fails, Succeeds
<1>1. /\ failed \subseteq failed' /\ LogFailed => LogFailed'
      /\ MainInv /\ HeldInv /\ logger' = logger /\ signal' = signal
      /\ UNCHANGED <<hkVars, logVars>>
  BY DEF IInv, LogFailed, FilterInit, Connect, GetIface, ListSize, ListBuffer, Attach, Report,
         Unload, logVars
<1>2. CASE FilterInit
  <2>1. MainInv'
    BY <1>1, <1>2 DEF FilterInit, MainInv
  <2>2. HeldInv'
    BY <1>1, <1>2 DEF FilterInit, HeldInv
  <2>. QED
    BY <1>1, <1>2, <2>1, <2>2, DriverStep DEF FilterInit
<1>3. CASE Connect
  <2>1. MainInv'
    BY <1>1, <1>3 DEF Connect, MainInv
  <2>2. HeldInv'
    BY <1>1, <1>3 DEF Connect, HeldInv
  <2>. QED
    BY <1>1, <1>3, <2>1, <2>2, DriverStep DEF Connect
<1>4. CASE GetIface
  <2>1. MainInv'
    BY <1>1, <1>4 DEF GetIface, MainInv
  <2>2. HeldInv'
    BY <1>1, <1>4 DEF GetIface, HeldInv
  <2>. QED
    BY <1>1, <1>4, <2>1, <2>2, DriverStep DEF GetIface
<1>5. CASE ListSize
  <2>1. ~crashed' => MainInv'
    BY <1>1, <1>5 DEF ListSize, MainInv
  <2>2. HeldInv'
    BY <1>1, <1>5 DEF ListSize, HeldInv
  <2>3. crashed' => failed' \cap CrashNeeds # {}
    BY <1>1, <1>5 DEF ListSize, MainInv, CrashNeeds
  <2>. QED
    BY <1>1, <1>5, <2>1, <2>2, <2>3, DriverStep DEF ListSize
<1>6. CASE ListBuffer
  <2>1. MainInv'
    BY <1>1, <1>6 DEF ListBuffer, MainInv
  <2>2. HeldInv'
    BY <1>1, <1>6 DEF ListBuffer, HeldInv, Acquire
  <2>. QED
    BY <1>1, <1>6, <2>1, <2>2, DriverStep DEF ListBuffer
<1>7. CASE Attach
  <2>1. MainInv'
    <3>1. iface /\ fileobj
      BY <1>1, <1>7 DEF Attach, MainInv
    <3>. QED
      BY <1>1, <1>7, <3>1 DEF Attach, MainInv
  <2>2. HeldInv'
    BY <1>1, <1>7 DEF Attach, HeldInv
  <2>. QED
    BY <1>1, <1>7, <2>1, <2>2, DriverStep DEF Attach
<1>8. CASE Report \/ Unload
  <2>1. MainInv'
    BY <1>1, <1>8 DEF Report, Unload, MainInv
  <2>2. HeldInv'
    BY <1>1, <1>8 DEF Report, Unload, HeldInv
  <2>. QED
    BY <1>1, <1>8, <2>1, <2>2, DriverStep DEF Report, Unload
<1>. QED
  BY <1>2, <1>3, <1>4, <1>5, <1>6, <1>7, <1>8

(* log_description: every step keeps the locals in agreement with what is  *)
(* held, so that the cleanup frees what there is.                          *)
LEMMA DescribeStep ==
  ASSUME IInv, ~crashed, Describe
  PROVE  IInv'
PROOF
<1>. USE DEF rules, link, listing, Opening, Listing, Unloading, At, Goto, CrashIf, Fails, Succeeds
<1>1. /\ MainInv /\ HeldInv /\ main \in Listing
  BY DEF IInv, Describe, OpenNet, BasicInfo, ValueInfo, Obtain, EnumerateKey, OpenCard,
         ServiceName, Description, CleanUp, NextAdapter
<1>2. /\ UNCHANGED <<hkVars, logVars, status, rules, link>> /\ failed \subseteq failed'
      /\ main' \in Listing \/ (main' = "attach" /\ main = "next")
  <2>. USE DEF Describes, Done
  <2>1. CASE OpenNet \/ BasicInfo \/ ValueInfo
    BY <2>1 DEF OpenNet, BasicInfo, ValueInfo, Obtain
  <2>2. CASE EnumerateKey \/ OpenCard
    BY <2>2 DEF EnumerateKey, OpenCard
  <2>3. CASE ServiceName \/ Description
    BY <2>3 DEF ServiceName, Description
  <2>4. CASE CleanUp
    BY <2>4 DEF CleanUp
  <2>5. CASE NextAdapter
    BY <2>5 DEF NextAdapter
  <2>. QED
    BY <2>1, <2>2, <2>3, <2>4, <2>5 DEF Describe
<1>3. MainInv'
  <2>1. LogFailed => LogFailed'
    BY <1>2 DEF LogFailed
  <2>. QED
    BY <1>1, <1>2, <2>1 DEF MainInv, logVars
<1>4. HeldInv'
  <2>. USE DEF HeldInv, InDescription, Acquire, FreeNow, Closed, Describes, Done
  <2>1. CASE OpenNet \/ BasicInfo \/ ValueInfo
    BY <1>1, <2>1 DEF OpenNet, BasicInfo, ValueInfo, Obtain
  <2>2. CASE EnumerateKey \/ OpenCard
    BY <1>1, <2>2 DEF EnumerateKey, OpenCard
  <2>3. CASE ServiceName \/ Description
    BY <1>1, <2>3 DEF ServiceName, Description
  <2>4. CASE CleanUp
    BY <1>1, <2>4 DEF CleanUp
  <2>5. CASE NextAdapter
    BY <1>1, <2>5 DEF NextAdapter
  <2>. QED
    BY <2>1, <2>2, <2>3, <2>4, <2>5 DEF Describe
<1>5. ~crashed'
  BY <1>1 DEF HeldInv, Describe, OpenNet, BasicInfo, ValueInfo, Obtain, EnumerateKey, OpenCard,
              ServiceName, Description, CleanUp, NextAdapter, Done
<1>. QED
  BY <1>1, <1>2, <1>3, <1>4, <1>5, DriverStep

(* OnUnload up to close_log, and the end of the reload thread.             *)
LEMMA UnloadStep ==
  ASSUME IInv, ~crashed, Detach \/ StopReload \/ JoinReload \/ ReloadExit
  PROVE  IInv'
PROOF
<1>. USE DEF rules, link, listing, Opening, Listing, Unloading, At, Goto, CrashIf, Succeeds
<1>1. /\ MainInv /\ HeldInv /\ UNCHANGED <<hkVars, logVars, failed, listing, status>>
      /\ logger' = logger /\ signal' = signal /\ (LogFailed => LogFailed')
  BY DEF IInv, Detach, StopReload, JoinReload, ReloadExit, logVars, LogFailed
<1>2. CASE Detach
  <2>1. MainInv'
    <3>1. signal = {}
      BY <1>1, <1>2 DEF Detach, MainInv, NobodyInside
    <3>2. ~attached' /\ ~fileobj'
      <4>1. attached => iface /\ fileobj
        BY <1>1 DEF MainInv
      <4>2. attached' = (attached /\ ~(fileobj /\ iface)) /\ fileobj' = FALSE
        BY <1>2 DEF Detach, Connected
      <4>. QED
        BY <4>1, <4>2
    <3>. QED
      BY <1>1, <1>2, <3>1, <3>2 DEF Detach, MainInv
  <2>2. HeldInv' /\ ~crashed'
    BY <1>1, <1>2 DEF Detach, HeldInv, Connected
  <2>. QED
    BY <1>1, <1>2, <2>1, <2>2, DriverStep DEF Detach
<1>3. CASE StopReload
  <2>1. MainInv'
    BY <1>1, <1>3 DEF StopReload, MainInv
  <2>2. HeldInv'
    BY <1>1, <1>3 DEF StopReload, HeldInv
  <2>3. crashed' => failed' \cap CrashNeeds # {}
    <3>1. crashed' => LogFailed
      BY <1>1, <1>3 DEF StopReload, MainInv
    <3>. QED
      BY <1>1, <3>1 DEF LogFailed, CrashNeeds
  <2>. QED
    BY <1>1, <1>3, <2>1, <2>2, <2>3, DriverStep DEF StopReload
<1>4. CASE JoinReload
  <2>1. MainInv'
    BY <1>1, <1>4 DEF JoinReload, MainInv, Joined
  <2>2. HeldInv'
    BY <1>1, <1>4 DEF JoinReload, HeldInv
  <2>. QED
    BY <1>1, <1>4, <2>1, <2>2, DriverStep DEF JoinReload
<1>5. CASE ReloadExit
  <2>1. MainInv'
    BY <1>1, <1>5 DEF ReloadExit, MainInv
  <2>2. HeldInv'
    BY <1>1, <1>5 DEF ReloadExit, HeldInv
  <2>. QED
    BY <1>1, <1>5, <2>1, <2>2, DriverStep DEF ReloadExit
<1>. QED
  BY <1>2, <1>3, <1>4, <1>5

(* A step of the load of ndis_hk, which nobody but DriverEntry waits for.  *)
LEMMA LoadStep ==
  ASSUME IInv, ~crashed, LoadHk, UNCHANGED <<logVars, driver>>
  PROVE  IInv'
PROOF
<1>. USE DEF driver, rules, link, listing
<1>1. HkInv' /\ failed \subseteq failed' /\ LogTypeOK' /\ file' \in Seq(Lines)
  BY HkStep, LogSame DEF IInv
<1>2. crashed' => failed' \cap CrashNeeds # {}
  <2>1. CASE FindAgain
    BY <2>1 DEF FindAgain, CrashIf, Fails, CrashNeeds
  <2>2. CASE FreeAv
    BY <2>2 DEF FreeAv, CrashIf, Succeeds, IInv, HkInv, HashOK, CrashNeeds
  <2>3. CASE ~FindAgain /\ ~FreeAv
    BY <2>3 DEF LoadHk, Pools, InitAv, CreateDevice, Find, Hook, Store, NoName, Hooked, Undo,
                Undone, Leaves, Goes, CrashIf
  <2>. QED
    BY <2>1, <2>2, <2>3
<1>3. MainInv'
  BY <1>1 DEF IInv, MainInv, LogFailed, logVars, Opening, Listing, Unloading
<1>4. HeldInv'
  BY DEF IInv, HeldInv
<1>5. LogInv'
  BY <1>1, LogInvSame DEF IInv
<1>. QED
  BY <1>1, <1>2, <1>3, <1>4, <1>5 DEF IInv, CrashesOnlyAfter

(* The ring is a circle of slots.                                          *)
LEMMA SlotAfter == ASSUME NEW j \in Slots PROVE NextSlot(j) \in Slots
PROOF
<1>. QED
  BY SizeAssumption DEF Slots, NextSlot

LEMMA NoteIsLine ==
  ASSUME NEW s \in {"begin", "end"}
  PROVE  Note(s) \in Seq(Lines) /\ Len(Note(s)) = 1 /\ Note(s)[1] = [note |-> s]
PROOF
<1>. QED
  BY DEF Note, Lines

(* open_log, at the begin of DriverEntry.                                  *)
LEMMA StartStep ==
  ASSUME IInv, ~crashed, Start
  PROVE  IInv'
PROOF
<1>. USE DEF rules, link, listing, ring, opened, Opening, Listing, Unloading, At, Goto, CrashIf,
             Fails, Succeeds
<1>1. /\ main = "load" /\ ~crashed' /\ failed \subseteq failed'
      /\ UNCHANGED <<hkVars, rules, link, listing, ring, event, exit, signal, entry, closer>>
      /\ MainInv /\ HeldInv /\ LogInv /\ LogTypeOK /\ file \in Seq(Lines)
  BY DEF IInv, Start, OpenLog, OpenLogFails
<1>2. \/ /\ logFile' = "open" /\ memory' = "allocated" /\ logger' = "wait" /\ main' = "filter"
         /\ file' = Note("begin") /\ status' = status
      \/ /\ logger' = logger /\ main' = "report" /\ status' = FALSE /\ LogFailed'
         /\ \/ UNCHANGED <<opened, file>>
            \/ /\ logFile' = "open" /\ file' = Note("begin")
               /\ memory' \in {memory, "freed"}
  BY DEF Start, OpenLog, OpenLogFails, LogFailed
<1>3. HkInv'
  BY <1>1, HkSame DEF IInv
<1>4. LogTypeOK' /\ file' \in Seq(Lines)
  BY <1>1, <1>2, NoteIsLine DEF LogTypeOK
<1>5. HeldInv'
  BY <1>1, <1>2 DEF HeldInv
<1>7. MainInv'
  BY <1>1, <1>2 DEF MainInv, LogInv
<1>8. LogInv'
  BY <1>1, <1>2 DEF LogInv, LoggerGone
<1>. QED
  BY <1>1, <1>3, <1>4, <1>5, <1>7, <1>8 DEF IInv, CrashesOnlyAfter

(* A packet is logged while the filter is attached: the ring is there.     *)
LEMMA PacketStep ==
  ASSUME IInv, ~crashed, NEW p \in Producers, LogPacket(p) \/ LeaveLog(p)
  PROVE  IInv'
PROOF
<1>. USE DEF driver, rules, link, listing, ring, opened, Opening, Listing, Unloading, CrashIf, Succeeds
<1>1. /\ MainInv /\ HeldInv /\ LogInv /\ LogTypeOK /\ file \in Seq(Lines)
      /\ UNCHANGED <<hkVars, driver, failed, exit, logger, entry, closer, opened, file>>
  BY DEF IInv, LogPacket, LeaveLog, Put, SetEvent
<1>2. HkInv'
  BY <1>1, HkSame DEF IInv
<1>3. LogTypeOK'
  <2>1. CASE LogPacket(p)
    <3>1. /\ data' = [data EXCEPT ![head] = [msg |-> next, skipped |-> IF Full THEN Carry ELSE 0]]
          /\ head' = NextSlot(head) /\ tail' \in {tail, NextSlot(tail)}
          /\ next <= MaxMsg /\ next' = next + 1 /\ signal' = signal \cup {p} /\ event' = event
      BY <2>1 DEF LogPacket, Put, HeadSlot
    <3>2. [msg |-> next, skipped |-> IF Full THEN Carry ELSE 0] \in Entries
      <4>1. next \in 0..MaxMsg /\ data[tail].skipped \in Nat
        BY <1>1, <3>1, MaxMsgAssumption DEF LogTypeOK, Entries
      <4>. QED
        BY <4>1 DEF Entries, Carry
    <3>3. head' \in Slots /\ tail' \in Slots /\ next' \in 1..MaxMsg + 1
      BY <1>1, <3>1, SlotAfter, MaxMsgAssumption DEF LogTypeOK
    <3>4. data' \in [Slots -> Entries]
      BY <1>1, <3>1, <3>2 DEF LogTypeOK
    <3>. QED
      BY <1>1, <3>1, <3>3, <3>4 DEF LogTypeOK
  <2>2. CASE LeaveLog(p)
    BY <1>1, <2>2 DEF LogTypeOK, LeaveLog, SetEvent
  <2>. QED
    BY <2>1, <2>2
<1>4. ~crashed'
  BY <1>1 DEF LogPacket, LeaveLog, Put, SetEvent, TouchRing, MainInv, LogInv
<1>5. MainInv'
  <2>1. signal' # {} => iface
    BY <1>1 DEF MainInv, LogPacket, LeaveLog, Put, SetEvent
  <2>2. main \in Unloading => signal' = {}
    BY <1>1 DEF MainInv, LogPacket, LeaveLog, Put, SetEvent
  <2>. QED
    BY <1>1, <2>1, <2>2 DEF MainInv, LogFailed
<1>6. HeldInv'
  BY <1>1 DEF HeldInv
<1>7. LogInv'
  BY <1>1 DEF LogInv, LoggerGone, LogFailed
<1>. QED
  BY <1>1, <1>2, <1>3, <1>4, <1>5, <1>6, <1>7 DEF IInv, CrashesOnlyAfter

(* logger_thread: it runs only while close_log has not freed the ring.     *)
LEMMA LoggerStep ==
  ASSUME IInv, ~crashed, LogThread
  PROVE  IInv'
PROOF
<1>. USE DEF driver, rules, link, listing, ring, opened, Opening, Listing, Unloading, CrashIf, Succeeds
<1>1. /\ MainInv /\ HeldInv /\ LogInv /\ LogTypeOK /\ file \in Seq(Lines)
      /\ UNCHANGED <<hkVars, driver, failed, data, head, next, exit, signal, closer, opened>>
      /\ logger \in {"wait", "drain", "write"} /\ logger' \in {"wait", "drain", "write", "exited"}
  BY DEF IInv, LogThread, Logger, Wake, Take, Empty, Write, Drained
<1>2. HkInv'
  BY <1>1, HkSame DEF IInv
<1>3. ~crashed'
  BY <1>1 DEF LogThread, Logger, Wake, Take, Empty, Write, TouchRing, LogInv, LoggerGone
<1>4. LogTypeOK' /\ file' \in Seq(Lines)
  <2>1. CASE Wake \/ Take \/ Empty
    <3>1. tail' \in Slots /\ entry' \in Entries /\ event' \in BOOLEAN /\ file' = file
      BY <1>1, <2>1, SlotAfter DEF LogTypeOK, Wake, Take, Empty
    <3>. QED
      BY <1>1, <3>1 DEF LogTypeOK
  <2>2. CASE Write
    <3>1. entry.skipped \in Nat /\ entry.msg \in 0..MaxMsg
      BY <1>1 DEF LogTypeOK, Entries
    <3>2. [skip |-> entry.skipped] \in Lines /\ [msg |-> entry.msg] \in Lines
      BY <3>1 DEF Lines
    <3>3. file' \in Seq(Lines)
      BY <1>1, <2>2, <3>2 DEF Write, LogStr
    <3>. QED
      BY <1>1, <2>2, <3>3 DEF LogTypeOK, Write
  <2>. QED
    BY <2>1, <2>2 DEF LogThread, Logger
<1>5. MainInv'
  BY <1>1 DEF MainInv, LogFailed
<1>6. HeldInv'
  BY <1>1 DEF HeldInv
<1>7. LogInv'
  BY <1>1 DEF LogInv, LoggerGone, LogFailed
<1>. QED
  BY <1>1, <1>2, <1>3, <1>4, <1>5, <1>6, <1>7 DEF IInv, CrashesOnlyAfter

(* close_log.                                                              *)
LEMMA CloseStep ==
  ASSUME IInv, ~crashed, Close
  PROVE  IInv'
PROOF
<1>. USE DEF rules, link, listing, ring, opened, Opening, Listing, Unloading, At, CrashIf, Succeeds
<1>1. /\ MainInv /\ HeldInv /\ LogInv /\ LogTypeOK /\ file \in Seq(Lines) /\ main = "close"
      /\ UNCHANGED <<hkVars, status, rules, link, listing, failed, ring, signal, logger, entry>>
      /\ main' = IF closer' = "closed" THEN "unloaded" ELSE "close"
  BY DEF IInv, Close, CloseLog, NotOpen, SetExit, WakeUp, Join, FreeRing, WriteEnd
<1>2. HkInv'
  BY <1>1, HkSame DEF IInv
<1>3. MainInv'
  BY <1>1 DEF MainInv, LogFailed
<1>4. HeldInv'
  BY <1>1 DEF HeldInv
<1>5. LogTypeOK'
  BY <1>1 DEF LogTypeOK, Close, CloseLog, NotOpen, SetExit, WakeUp, WakeLogger, Join, FreeRing,
              WriteEnd
<1>6. /\ file' = file \/ (closer = "end" /\ file' = file \o Note("end"))
      /\ file' \in Seq(Lines)
  <2>1. file' = file \/ (closer = "end" /\ file' = file \o Note("end"))
    BY DEF Close, CloseLog, NotOpen, SetExit, WakeUp, Join, FreeRing, WriteEnd
  <2>2. [note |-> "end"] \in Lines
    BY DEF Lines
  <2>. QED
    BY <1>1, <2>1, <2>2 DEF Note
<1>7. LogInv'
  <2>1. /\ closer \in {"open", "wake", "join", "free", "end", "closed"}
        /\ LogFailed' <=> LogFailed
    BY <1>1 DEF LogTypeOK, LogFailed
  <2>2. CASE NotOpen \/ SetExit \/ WakeUp \/ Join \/ FreeRing
    BY <1>1, <2>1, <2>2 DEF LogInv, LoggerGone, NotOpen, SetExit, WakeUp, Join, FreeRing
  <2>3. CASE WriteEnd
    <3>1. /\ closer = "end" /\ closer' = "closed" /\ logFile' = "none" /\ memory' = memory
          /\ file' = file \o Note("end")
      BY <2>3 DEF WriteEnd
    <3>2. file'[Len(file')] = [note |-> "end"]
      BY <1>1, <3>1, NoteIsLine
    <3>. QED
      BY <1>1, <2>1, <3>1, <3>2 DEF LogInv, LoggerGone
  <2>. QED
    BY <2>2, <2>3 DEF Close, CloseLog
<1>8. crashed' => failed' \cap CrashNeeds # {}
  <2>1. crashed' => closer = "free" /\ memory # "allocated"
    BY DEF Close, CloseLog, NotOpen, SetExit, WakeUp, Join, FreeRing, WriteEnd
  <2>2. crashed' => LogFailed
    BY <1>1, <2>1 DEF LogInv
  <2>. QED
    BY <1>1, <2>2 DEF LogFailed, CrashNeeds
<1>. QED
  BY <1>1, <1>2, <1>3, <1>4, <1>5, <1>6, <1>7, <1>8 DEF IInv, CrashesOnlyAfter
-----------------------------------------------------------------------------
(* The invariant holds before ndis_hk is loaded. *)
LEMMA InitInv == Init => IInv
PROOF
<1>. SUFFICES ASSUME Init PROVE IInv
  OBVIOUS
<1>. USE DEF Init, MachineInit, HkInit, LogInit
<1>1. HkInv
  BY NullAssumption DEF HkInv, HookTypes, HashOK, HookOK
<1>2. LogTypeOK /\ file \in Seq(Lines)
  <2>1. 0 \in Slots /\ [msg |-> 0, skipped |-> 0] \in Entries
    BY SizeAssumption, MaxMsgAssumption DEF Slots, Entries
  <2>2. data \in [Slots -> Entries] /\ entry \in Entries
    BY <2>1
  <2>3. next \in 1..MaxMsg + 1
    BY MaxMsgAssumption
  <2>4. file \in Seq(Lines)
    OBVIOUS
  <2>. QED
    BY <2>1, <2>2, <2>3, <2>4 DEF LogTypeOK
<1>3. MainInv /\ HeldInv
  BY DEF MainInv, HeldInv, Opening, Listing, Unloading
<1>4. LogInv
  BY DEF LogInv
<1>. QED
  BY <1>1, <1>2, <1>3, <1>4 DEF IInv, CrashesOnlyAfter

(* Every step keeps the invariant. *)
LEMMA StepInv == IInv /\ [Next]_vars => IInv'
PROOF
<1>. SUFFICES ASSUME IInv, [Next]_vars PROVE IInv'
  OBVIOUS
<1>1. CASE UNCHANGED vars
  <2>1. /\ UNCHANGED <<hkVars, logVars, driver, machine>>
        /\ HkInv' /\ LogTypeOK' /\ file' \in Seq(Lines)
    BY <1>1, HkSame, LogSame DEF IInv, vars, machine
  <2>2. ~crashed => MainInv' /\ HeldInv' /\ LogInv'
    <3>1. ~crashed => MainInv' /\ HeldInv'
      BY <2>1 DEF IInv, MainInv, HeldInv, LogFailed, driver, rules, link, listing, machine, logVars
    <3>. QED
      BY <2>1, <3>1, LogInvSame DEF IInv, machine, driver
  <2>. QED
    BY <2>1, <2>2 DEF IInv, CrashesOnlyAfter, machine
<1>2. CASE Next
  BY <1>2, LoadStep, StartStep, EntryStep, DescribeStep, UnloadStep, CloseStep, PacketStep,
     LoggerStep DEF Next, Main
<1>. QED
  BY <1>1, <1>2

(* The inductive invariant of the life of both drivers. *)
THEOREM Invariance == Spec => []IInv
PROOF
<1>. QED
  BY InitInv, StepInv, PTL DEF Spec
-----------------------------------------------------------------------------
(* The log of ndis_flt keeps its types; the indices stay in the ring.      *)
THEOREM LogTypesHold == Spec => []LogTypeOK
PROOF
<1>1. IInv => LogTypeOK
  BY DEF IInv
<1>. QED
  BY <1>1, Invariance, PTL

(* A load of ndis_hk that fails leads no export of ndis.sys into the       *)
(* driver, for a table of any size and a failure at any of its entries.    *)
THEOREM HooksAreUndone == Spec => []HooksUndone
PROOF
<1>1. IInv => HooksUndone
  BY DEF IInv, HkInv, HookTypes, HookOK, Trusted, HooksUndone
<1>. QED
  BY <1>1, Invariance, PTL

(* The drivers stop the system only after one of the calls has failed      *)
(* whose failure they do not take into account.                            *)
THEOREM CrashesOnlyThen == Spec => []CrashesOnlyAfter
PROOF
<1>1. IInv => CrashesOnlyAfter
  BY DEF IInv
<1>. QED
  BY <1>1, Invariance, PTL

(* ndis_flt leaves nothing when it is unloaded or has failed to start,     *)
(* wherever it failed, and whatever its log and its packets did meanwhile. *)
THEOREM NothingIsLeft == Spec => []LeavesNothing
PROOF
<1>1. IInv => LeavesNothing
  BY DEF IInv, MainInv, HeldInv, LogInv, LeavesNothing, At, LoggerGone, Unloading, Listing
<1>. QED
  BY <1>1, Invariance, PTL
-----------------------------------------------------------------------------
(* The circle without remainders: how many entries are between two slots,  *)
(* and which slot is the j-th from a slot on.                              *)
Dist(h, t) == (h + Size - t) % Size
Nth(t, j)  == (t + j - 1) % Size

LEMMA OnCircle ==
  ASSUME NEW h \in Slots, NEW t \in Slots
  PROVE  /\ NextSlot(t) = (IF t + 1 = Size THEN 0 ELSE t + 1)
         /\ Dist(h, t) = (IF h >= t THEN h - t ELSE h + Size - t)
         /\ Dist(h, t) \in Slots
         /\ \A j \in 1..Size : Nth(t, j) = (IF t + j - 1 < Size THEN t + j - 1 ELSE t + j - 1 - Size)
PROOF
<1>1. Size \in Nat /\ Size > 1 /\ h \in 0..Size - 1 /\ t \in 0..Size - 1
  BY SizeAssumption DEF Slots
<1>2. NextSlot(t) = (IF t + 1 = Size THEN 0 ELSE t + 1)
  BY <1>1 DEF NextSlot
<1>3. Dist(h, t) = (IF h >= t THEN h - t ELSE h + Size - t)
  BY <1>1 DEF Dist
<1>4. Dist(h, t) \in Slots
  BY <1>1, <1>3 DEF Slots
<1>5. ASSUME NEW j \in 1..Size
      PROVE  Nth(t, j) = (IF t + j - 1 < Size THEN t + j - 1 ELSE t + j - 1 - Size)
  BY <1>1 DEF Nth
<1>. QED
  BY <1>2, <1>3, <1>4, <1>5

(* An entry is put at the head while there is room. *)
LEMMA RoomOnCircle ==
  ASSUME NEW h \in Slots, NEW t \in Slots, NextSlot(h) # t
  PROVE  /\ Dist(NextSlot(h), t) = Dist(h, t) + 1
         /\ Nth(t, Dist(h, t) + 1) = h
         /\ \A j \in 1..Dist(h, t) : Nth(t, j) \in Slots /\ Nth(t, j) # h
PROOF
<1>1. Size \in Nat /\ Size > 1 /\ h \in 0..Size - 1 /\ t \in 0..Size - 1
  BY SizeAssumption DEF Slots
<1>2. NextSlot(h) = (IF h + 1 = Size THEN 0 ELSE h + 1) /\ NextSlot(h) \in Slots
  <2>1. NextSlot(h) = (IF h + 1 = Size THEN 0 ELSE h + 1)
    BY OnCircle
  <2>. QED
    BY <1>1, <2>1 DEF Slots
<1>3. Dist(h, t) = (IF h >= t THEN h - t ELSE h + Size - t)
  BY OnCircle
<1>4. Dist(NextSlot(h), t) = (IF NextSlot(h) >= t THEN NextSlot(h) - t ELSE NextSlot(h) + Size - t)
  BY <1>2, OnCircle
<1>5. \A j \in 1..Size : Nth(t, j) = (IF t + j - 1 < Size THEN t + j - 1 ELSE t + j - 1 - Size)
  BY OnCircle
<1>6. Dist(NextSlot(h), t) = Dist(h, t) + 1
  <2>1. CASE h + 1 = Size
    <3>1. NextSlot(h) = 0 /\ t > 0 /\ h >= t
      BY <1>1, <1>2, <2>1
    <3>2. Dist(NextSlot(h), t) = Size - t /\ Dist(h, t) = h - t
      BY <1>1, <1>3, <1>4, <3>1
    <3>. QED
      BY <1>1, <2>1, <3>2
  <2>2. CASE h + 1 # Size
    BY <1>1, <1>2, <1>3, <1>4, <2>2
  <2>. QED
    BY <2>1, <2>2
<1>7. Nth(t, Dist(h, t) + 1) = h
  BY <1>1, <1>3, <1>5
<1>8. ASSUME NEW j \in 1..Dist(h, t) PROVE Nth(t, j) \in Slots /\ Nth(t, j) # h
  BY <1>1, <1>3, <1>5 DEF Slots
<1>. QED
  BY <1>6, <1>7, <1>8

(* The tail moves on. *)
LEMMA TakeOnCircle ==
  ASSUME NEW h \in Slots, NEW t \in Slots, h # t
  PROVE  /\ Dist(h, t) \in 1..Size - 1 /\ Dist(h, NextSlot(t)) = Dist(h, t) - 1
         /\ \A j \in 1..Dist(h, t) - 1 : Nth(NextSlot(t), j) = Nth(t, j + 1)
PROOF
<1>1. Size \in Nat /\ Size > 1 /\ h \in 0..Size - 1 /\ t \in 0..Size - 1
  BY SizeAssumption DEF Slots
<1>2. NextSlot(t) = (IF t + 1 = Size THEN 0 ELSE t + 1) /\ NextSlot(t) \in Slots
  <2>1. NextSlot(t) = (IF t + 1 = Size THEN 0 ELSE t + 1)
    BY OnCircle
  <2>. QED
    BY <1>1, <2>1 DEF Slots
<1>3. Dist(h, t) = (IF h >= t THEN h - t ELSE h + Size - t)
  BY OnCircle
<1>4. Dist(h, NextSlot(t)) = (IF h >= NextSlot(t) THEN h - NextSlot(t) ELSE h + Size - NextSlot(t))
  BY <1>2, OnCircle
<1>5. Dist(h, t) \in 1..Size - 1 /\ Dist(h, NextSlot(t)) = Dist(h, t) - 1
  <2>1. CASE t + 1 = Size
    <3>1. NextSlot(t) = 0 /\ ~(h >= t)
      BY <1>1, <1>2, <2>1
    <3>2. Dist(h, t) = h + Size - t /\ Dist(h, NextSlot(t)) = h
      BY <1>1, <1>3, <1>4, <3>1
    <3>. QED
      BY <1>1, <2>1, <3>2
  <2>2. CASE t + 1 # Size
    BY <1>1, <1>2, <1>3, <1>4, <2>2
  <2>. QED
    BY <2>1, <2>2
<1>6. ASSUME NEW j \in 1..Dist(h, t) - 1 PROVE Nth(NextSlot(t), j) = Nth(t, j + 1)
  <2>1. j \in 1..Size /\ j + 1 \in 1..Size
    BY <1>1, <1>5
  <2>2. Nth(t, j + 1) = (IF t + j < Size THEN t + j ELSE t + j - Size)
    BY <1>1, <2>1, OnCircle
  <2>3. Nth(NextSlot(t), j) =
          (IF NextSlot(t) + j - 1 < Size THEN NextSlot(t) + j - 1 ELSE NextSlot(t) + j - 1 - Size)
    BY <1>2, <2>1, OnCircle
  <2>. QED
    BY <1>1, <1>2, <2>1, <2>2, <2>3
<1>. QED
  BY <1>5, <1>6

(* The entries of d from slot t up to slot h are the last before message n. *)
Newest(h, t, n, d) ==
  \A j \in 1..Dist(h, t) : d[Nth(t, j)].msg = n - 1 - Dist(h, t) + j

LEMMA RingIsNewest ==
  /\ KeepsNewest <=> Newest(head, tail, next, data)
  /\ KeepsNewest' <=> Newest(head', tail', next', data')
PROOF
<1>. QED
  BY DEF KeepsNewest, Queued, Count, SlotOf, Newest, Dist, Nth

(* A message put where there is room. *)
LEMMA AddKeepsNewest ==
  ASSUME NEW h \in Slots, NEW t \in Slots, NextSlot(h) # t, NEW n \in Nat, NEW d, NEW e,
         Newest(h, t, n, d), e[h].msg = n, \A x \in Slots : x # h => e[x] = d[x]
  PROVE  Newest(NextSlot(h), t, n + 1, e)
PROOF
<1>1. /\ Dist(NextSlot(h), t) = Dist(h, t) + 1
      /\ Nth(t, Dist(h, t) + 1) = h
      /\ \A j \in 1..Dist(h, t) : Nth(t, j) \in Slots /\ Nth(t, j) # h
  BY RoomOnCircle
<1>2. Dist(h, t) \in Nat
  BY OnCircle, SizeAssumption DEF Slots
<1>. SUFFICES ASSUME NEW j \in 1..Dist(h, t) + 1
              PROVE  e[Nth(t, j)].msg = (n + 1) - 1 - (Dist(h, t) + 1) + j
  BY <1>1 DEF Newest
<1>3. CASE j = Dist(h, t) + 1
  BY <1>1, <1>2, <1>3
<1>4. CASE j \in 1..Dist(h, t)
  <2>1. e[Nth(t, j)] = d[Nth(t, j)]
    BY <1>1, <1>4
  <2>2. d[Nth(t, j)].msg = n - 1 - Dist(h, t) + j
    BY <1>4 DEF Newest
  <2>. QED
    BY <1>2, <2>1, <2>2
<1>. QED
  BY <1>2, <1>3, <1>4

(* The oldest message goes. *)
LEMMA DropKeepsNewest ==
  ASSUME NEW h \in Slots, NEW t \in Slots, h # t, NEW n \in Nat, NEW d, Newest(h, t, n, d)
  PROVE  Newest(h, NextSlot(t), n, d)
PROOF
<1>1. /\ Dist(h, t) \in 1..Size - 1 /\ Dist(h, NextSlot(t)) = Dist(h, t) - 1
      /\ \A j \in 1..Dist(h, t) - 1 : Nth(NextSlot(t), j) = Nth(t, j + 1)
  BY TakeOnCircle
<1>. SUFFICES ASSUME NEW j \in 1..Dist(h, t) - 1
              PROVE  d[Nth(NextSlot(t), j)].msg = n - 1 - (Dist(h, t) - 1) + j
  BY <1>1 DEF Newest
<1>2. j + 1 \in 1..Dist(h, t) /\ Dist(h, t) \in Int /\ j \in Int
  BY <1>1, SizeAssumption
<1>3. d[Nth(t, j + 1)].msg = n - 1 - Dist(h, t) + (j + 1)
  BY <1>2 DEF Newest
<1>. QED
  BY <1>1, <1>2, <1>3

(* A full ring loses its oldest message first: the slot that is written    *)
(* is none of those that stay.                                             *)
LEMMA PutKeepsNewest ==
  ASSUME LogTypeOK, KeepsNewest, NEW p \in Producers, Put(p)
  PROVE  KeepsNewest'
PROOF
<1>1. /\ head \in Slots /\ tail \in Slots /\ next \in Nat /\ Slots = 0..Size - 1
      /\ Size \in Nat /\ Size > 1 /\ data \in [Slots -> Entries]
  BY SizeAssumption, MaxMsgAssumption DEF LogTypeOK, Slots
<1>2. /\ data'[head].msg = next /\ \A x \in Slots : x # head => data'[x] = data[x]
      /\ head' = NextSlot(head) /\ next' = next + 1
      /\ tail' = IF NextSlot(head) = tail THEN NextSlot(tail) ELSE tail
  BY <1>1 DEF Put, HeadSlot, Full
<1>3. Newest(head, tail, next, data)
  BY RingIsNewest
<1>4. CASE NextSlot(head) # tail
  <2>1. Newest(NextSlot(head), tail, next + 1, data')
    BY <1>1, <1>2, <1>3, <1>4, AddKeepsNewest
  <2>. QED
    BY <1>2, <1>4, <2>1, RingIsNewest
<1>5. CASE NextSlot(head) = tail
  <2>1. NextSlot(tail) \in Slots
    BY <1>1, SlotAfter
  <2>2. /\ NextSlot(head) = (IF head + 1 = Size THEN 0 ELSE head + 1)
        /\ NextSlot(tail) = (IF tail + 1 = Size THEN 0 ELSE tail + 1)
    BY <1>1, OnCircle
  <2>3. head # tail
    BY <1>1, <1>5, <2>2
  <2>4. NextSlot(head) # NextSlot(tail)
    BY <1>1, <2>2, <2>3
  <2>5. Newest(head, NextSlot(tail), next, data)
    BY <1>1, <1>3, <2>3, DropKeepsNewest
  <2>6. Newest(NextSlot(head), NextSlot(tail), next + 1, data')
    BY <1>1, <1>2, <2>1, <2>4, <2>5, AddKeepsNewest
  <2>. QED
    BY <1>2, <1>5, <2>6, RingIsNewest
<1>. QED
  BY <1>4, <1>5

LEMMA TakeKeepsNewest ==
  ASSUME LogTypeOK, KeepsNewest, Take
  PROVE  KeepsNewest'
PROOF
<1>1. head \in Slots /\ tail \in Slots /\ next \in Nat
  BY MaxMsgAssumption DEF LogTypeOK
<1>2. data' = data /\ head' = head /\ next' = next /\ tail' = NextSlot(tail) /\ head # tail
  BY DEF Take
<1>3. Newest(head, tail, next, data)
  BY RingIsNewest
<1>4. Newest(head, NextSlot(tail), next, data)
  BY <1>1, <1>2, <1>3, DropKeepsNewest
<1>. QED
  BY <1>2, <1>4, RingIsNewest

LEMMA RingSame ==
  ASSUME KeepsNewest, UNCHANGED ring
  PROVE  KeepsNewest'
PROOF
<1>. QED
  BY DEF KeepsNewest, Queued, Count, SlotOf, ring

LEMMA StepKeepsNewest == LogTypeOK /\ KeepsNewest /\ [Next]_vars => KeepsNewest'
PROOF
<1>. SUFFICES ASSUME LogTypeOK, KeepsNewest, [Next]_vars PROVE KeepsNewest'
  OBVIOUS
<1>1. \/ UNCHANGED ring \/ Take \/ \E p \in Producers : Put(p)
  <2>1. CASE UNCHANGED vars \/ (LoadHk /\ UNCHANGED <<logVars, driver>>) \/ Unload \/ ReloadExit
    BY <2>1 DEF vars, logVars, Unload, ReloadExit
  <2>2. CASE Main
    <3>1. CASE Describe
      BY <3>1 DEF Describe, OpenNet, BasicInfo, ValueInfo, Obtain, EnumerateKey, OpenCard,
                  ServiceName, Description, CleanUp, NextAdapter, Describes, logVars
    <3>2. CASE Main /\ ~Describe
      BY <3>2 DEF Main, Start, OpenLog, OpenLogFails, FilterInit, Connect, GetIface, ListSize,
                  ListBuffer, Attach, Report, Detach, StopReload, JoinReload, Close, CloseLog,
                  NotOpen, SetExit, WakeUp, Join, FreeRing, WriteEnd, logVars
    <3>. QED
      BY <2>2, <3>1, <3>2
  <2>3. CASE LogThread
    BY <2>3 DEF LogThread, Logger, Wake, Empty, Write, ring
  <2>4. ASSUME NEW p \in Producers, LogPacket(p) \/ LeaveLog(p)
        PROVE  UNCHANGED ring \/ Put(p)
    BY <2>4 DEF LogPacket, LeaveLog, SetEvent
  <2>. QED
    BY <2>1, <2>2, <2>3, <2>4 DEF Next
<1>. QED
  BY <1>1, RingSame, TakeKeepsNewest, PutKeepsNewest

(* An overflow rejects the oldest entry and nothing else, for a ring of    *)
(* any size: what is queued are always the last messages logged, in order. *)
THEOREM RingKeepsNewest == Spec => []KeepsNewest
PROOF
<1>1. Init => KeepsNewest
  <2>. SUFFICES ASSUME Init PROVE KeepsNewest
    OBVIOUS
  <2>1. Count = 0
    BY SizeAssumption DEF Init, LogInit, Count
  <2>. QED
    BY <2>1 DEF KeepsNewest
<1>. QED
  BY <1>1, LogTypesHold, StepKeepsNewest, PTL DEF Spec
-----------------------------------------------------------------------------
(* Induction on the naturals, for a set: the elements up to one that is    *)
(* missing would map into themselves by x |-> x - 1, injectively and so,   *)
(* as they are finitely many, onto; but nothing is mapped to the last.     *)
LEMMA NatIsInductive ==
  ASSUME NEW S, 0 \in S, \A n \in Nat : n \in S => n + 1 \in S
  PROVE  \A n \in Nat : n \in S
PROOF
<1>. SUFFICES ASSUME NEW u \in Nat, u \notin S PROVE FALSE
  OBVIOUS
<1>. DEFINE U == {x \in 0..u : x \notin S}
<1>. DEFINE f == [x \in U |-> x - 1]
<1>1. IsFiniteSet(U)
  <2>1. IsFiniteSet(0..u)
    BY FS_Interval
  <2>2. U \in SUBSET (0..u)
    OBVIOUS
  <2>. HIDE DEF U
  <2>. QED
    BY <2>1, <2>2, FS_Subset
<1>2. f \in Injection(U, U)
  <2>1. \A x \in U : x - 1 \in U
    OBVIOUS
  <2>. QED
    BY <2>1 DEF Injection, IsInjective
<1>3. f \in Surjection(U, U)
  <2>. HIDE DEF f, U
  <2>. QED
    BY <1>1, <1>2, FS_Injection
<1>4. \A y \in U : \E x \in U : f[x] = y
  <2>. HIDE DEF f, U
  <2>. QED
    BY <1>3 DEF Surjection
<1>. QED
  BY <1>4

(* A function that is defined by recursion on 0..m exists, whatever set A  *)
(* its steps stay in; and two that take the same steps are the same.       *)
Steps(A, base, step, m) ==
  m \in Nat /\ base \in A /\ \A n \in 1..m, a \in A : step[n][a] \in A
Iterates(t, A, base, step, m) ==
  t \in [0..m -> A] /\ t[0] = base /\ \A n \in 1..m : t[n] = step[n][t[n - 1]]

LEMMA Recursion ==
  ASSUME NEW A, NEW base, NEW step, NEW m, Steps(A, base, step, m)
  PROVE  \E t : Iterates(t, A, base, step, m)
PROOF
<1>. USE DEF Steps, Iterates
<1>. DEFINE Good(k, t) == t[0] = base /\ \A n \in 1..m : n <= k => t[n] = step[n][t[n - 1]]
<1>. DEFINE S == {k \in Nat : k <= m => \E t \in [0..m -> A] : Good(k, t)}
<1>1. 0 \in S
  <2>1. Good(0, [n \in 0..m |-> base])
    OBVIOUS
  <2>. QED
    BY <2>1
<1>2. ASSUME NEW k \in Nat, k \in S, k + 1 <= m PROVE \E t \in [0..m -> A] : Good(k + 1, t)
  <2>1. PICK t \in [0..m -> A] : Good(k, t)
    BY <1>2
  <2>. DEFINE u == [t EXCEPT ![k + 1] = step[k + 1][t[k]]]
  <2>2. k \in 0..m /\ k + 1 \in 1..m /\ t[k] \in A /\ step[k + 1][t[k]] \in A
    BY <1>2
  <2>3. u \in [0..m -> A] /\ u[k + 1] = step[k + 1][t[k]]
        /\ \A n \in 0..m : n # k + 1 => u[n] = t[n]
    BY <2>2
  <2>4. u[0] = base
    BY <2>1, <2>3
  <2>5. ASSUME NEW n \in 1..m, n <= k + 1 PROVE u[n] = step[n][u[n - 1]]
    <3>. HIDE DEF u
    <3>1. CASE n = k + 1
      BY <2>2, <2>3, <3>1
    <3>2. CASE n # k + 1
      BY <2>1, <2>3, <2>5, <3>2
    <3>. QED
      BY <3>1, <3>2
  <2>. HIDE DEF u
  <2>. QED
    BY <2>3, <2>4, <2>5
<1>. HIDE DEF Good
<1>3. \A k \in Nat : k \in S => k + 1 \in S
  BY <1>2
<1>4. m \in S
  <2>. HIDE DEF S
  <2>. QED
    BY <1>1, <1>3, NatIsInductive
<1>. QED
  BY <1>4 DEF Good

SameSteps(t, u, m) ==
  m \in Nat /\ t[0] = u[0] /\ \A n \in 1..m : t[n - 1] = u[n - 1] => t[n] = u[n]

LEMMA SameRecursion ==
  ASSUME NEW m, NEW t, NEW u, SameSteps(t, u, m)
  PROVE  \A n \in 0..m : t[n] = u[n]
PROOF
<1>. USE DEF SameSteps
<1>. DEFINE S == {n \in Nat : n <= m => t[n] = u[n]}
<1>1. 0 \in S
  OBVIOUS
<1>2. ASSUME NEW n \in Nat, n \in S PROVE n + 1 \in S
  <2>. SUFFICES ASSUME n + 1 <= m PROVE t[n + 1] = u[n + 1]
    OBVIOUS
  <2>1. n + 1 \in 1..m /\ (n + 1) - 1 = n /\ t[n] = u[n]
    BY <1>2
  <2>. QED
    BY <2>1
<1>3. \A n \in Nat : n \in S
  <2>. HIDE DEF S
  <2>. QED
    BY <1>1, <1>2, NatIsInductive
<1>. QED
  BY <1>3

(* The total of a sequence is what its recursion says. *)
LEMMA TotalIs ==
  ASSUME NEW s \in Seq(Nat)
  PROVE  \E t \in [0..Len(s) -> Nat] :
            t[0] = 0 /\ (\A n \in 1..Len(s) : t[n] = t[n - 1] + s[n]) /\ Total(s) = t[Len(s)]
PROOF
<1>. DEFINE Def(t) == t = [n \in 0..Len(s) |-> IF n = 0 THEN 0 ELSE t[n - 1] + s[n]]
<1>. DEFINE Sums(t, m) == t[0] = 0 /\ \A n \in 1..m : t[n] = t[n - 1] + s[n]
<1>1. \E t \in [0..Len(s) -> Nat] : Sums(t, Len(s))
  <2>. DEFINE step == [n \in 1..Len(s) |-> [a \in Nat |-> a + s[n]]]
  <2>1. Steps(Nat, 0, step, Len(s))
    BY DEF Steps
  <2>2. \A n \in 1..Len(s), a \in Nat : step[n][a] = a + s[n]
    OBVIOUS
  <2>. HIDE DEF step
  <2>3. PICK t : Iterates(t, Nat, 0, step, Len(s))
    BY <2>1, Recursion
  <2>4. \A n \in 1..Len(s) : n - 1 \in 0..Len(s)
    OBVIOUS
  <2>5. \A n \in 1..Len(s) : t[n - 1] \in Nat
    BY <2>3, <2>4 DEF Iterates
  <2>6. /\ t \in [0..Len(s) -> Nat] /\ t[0] = 0
        /\ \A n \in 1..Len(s) : t[n] = step[n][t[n - 1]]
    BY <2>3 DEF Iterates
  <2>7. \A n \in 1..Len(s) : t[n] = t[n - 1] + s[n]
    BY <2>2, <2>5, <2>6
  <2>. QED
    BY <2>6, <2>7
<1>2. PICK t \in [0..Len(s) -> Nat] : Sums(t, Len(s))
  BY <1>1
<1>3. Def(t)
  <2>1. \A n \in 0..Len(s) : t[n] = IF n = 0 THEN 0 ELSE t[n - 1] + s[n]
    BY <1>2
  <2>. QED
    BY <2>1
<1>4. Def(CHOOSE x : Def(x))
  BY <1>3, Zenon
<1>5. Total(s) = (CHOOSE x : Def(x))[Len(s)]
  BY Zenon DEF Total
<1>6. PICK x : Def(x) /\ Total(s) = x[Len(s)]
  BY <1>4, <1>5
<1>7. Sums(x, Len(s))
  <2>1. \A n \in 0..Len(s) : x[n] = IF n = 0 THEN 0 ELSE x[n - 1] + s[n]
    BY <1>6, Zenon
  <2>2. Len(s) \in Nat
    OBVIOUS
  <2>. QED
    BY <2>1, <2>2
<1>8. \A n \in 0..Len(s) : t[n] = x[n]
  <2>1. SameSteps(t, x, Len(s))
    BY <1>2, <1>7 DEF SameSteps
  <2>. QED
    BY <2>1, SameRecursion
<1>9. Len(s) \in 0..Len(s)
  OBVIOUS
<1>. QED
  BY <1>2, <1>6, <1>8, <1>9

(* The total of a longer sequence, of its tail, and of an empty one.       *)
LEMMA TotalUnique ==
  ASSUME NEW s \in Seq(Nat), NEW x,
         x[0] = 0, \A n \in 1..Len(s) : x[n] = x[n - 1] + s[n]
  PROVE  Total(s) = x[Len(s)]
PROOF
<1>1. PICK t \in [0..Len(s) -> Nat] :
         t[0] = 0 /\ (\A n \in 1..Len(s) : t[n] = t[n - 1] + s[n]) /\ Total(s) = t[Len(s)]
  BY TotalIs
<1>2. SameSteps(t, x, Len(s))
  BY <1>1 DEF SameSteps
<1>3. Len(s) \in 0..Len(s)
  OBVIOUS
<1>. QED
  BY <1>1, <1>2, <1>3, SameRecursion

LEMMA TotalAppend ==
  ASSUME NEW s \in Seq(Nat), NEW e \in Nat
  PROVE  Total(s) \in Nat /\ Total(Append(s, e)) = Total(s) + e
PROOF
<1>1. PICK q : q = Append(s, e)
  OBVIOUS
<1>2. /\ q \in Seq(Nat) /\ Len(q) = Len(s) + 1 /\ Len(s) \in Nat
      /\ q[Len(s) + 1] = e /\ \A n \in 1..Len(s) : q[n] = s[n]
  BY <1>1
<1>3. PICK t \in [0..Len(q) -> Nat] :
         t[0] = 0 /\ (\A n \in 1..Len(q) : t[n] = t[n - 1] + q[n]) /\ Total(q) = t[Len(q)]
  BY <1>2, TotalIs
<1>4. \A n \in 1..Len(s) : t[n] = t[n - 1] + s[n]
  BY <1>2, <1>3
<1>5. Total(s) = t[Len(s)]
  BY <1>3, <1>4, TotalUnique
<1>6. t[Len(s) + 1] = t[Len(s)] + e
  <2>1. Len(s) + 1 \in 1..Len(q) /\ (Len(s) + 1) - 1 = Len(s)
    BY <1>2
  <2>. QED
    BY <1>2, <1>3, <2>1
<1>7. t[Len(s)] \in Nat
  BY <1>2, <1>3
<1>. QED
  BY <1>1, <1>2, <1>3, <1>5, <1>6, <1>7

LEMMA TotalTail ==
  ASSUME NEW s \in Seq(Nat), s # <<>>
  PROVE  Total(s) = Head(s) + Total(Tail(s))
PROOF
<1>1. PICK q : q = Tail(s)
  OBVIOUS
<1>2. /\ q \in Seq(Nat) /\ Len(s) = Len(q) + 1 /\ Len(q) \in Nat
      /\ Head(s) = s[1] /\ s[1] \in Nat /\ \A n \in 1..Len(q) : q[n] = s[n + 1]
  BY <1>1
<1>3. PICK t \in [0..Len(s) -> Nat] :
         t[0] = 0 /\ (\A n \in 1..Len(s) : t[n] = t[n - 1] + s[n]) /\ Total(s) = t[Len(s)]
  BY TotalIs
<1>. DEFINE u == [n \in 0..Len(q) |-> t[n + 1] - s[1]]
<1>4. u[0] = 0
  <2>1. t[1] = t[0] + s[1]
    BY <1>2, <1>3
  <2>. QED
    BY <1>2, <1>3, <2>1
<1>5. ASSUME NEW n \in 1..Len(q) PROVE u[n] = u[n - 1] + q[n]
  <2>1. n \in Nat /\ n + 1 \in 1..Len(s) /\ n \in 0..Len(s) /\ n \in 0..Len(q)
        /\ n - 1 \in 0..Len(q) /\ (n + 1) - 1 = n /\ (n - 1) + 1 = n
    BY <1>2
  <2>2. t[n + 1] = t[n] + s[n + 1]
    BY <1>3, <2>1
  <2>3. t[n] \in Nat /\ s[n + 1] \in Nat
    <3>1. \A k \in 1..Len(s) : s[k] \in Nat
      OBVIOUS
    <3>2. \A k \in 0..Len(s) : t[k] \in Nat
      BY <1>3
    <3>. QED
      BY <2>1, <3>1, <3>2
  <2>5. q[n] = s[n + 1]
    BY <1>2
  <2>4. u[n] = t[n + 1] - s[1] /\ u[n - 1] = t[n] - s[1]
    BY <2>1
  <2>. QED
    BY <1>2, <2>2, <2>3, <2>4, <2>5
<1>6. u[Len(q)] = t[Len(s)] - s[1]
  BY <1>2
<1>7. Total(q) = u[Len(q)]
  <2>. HIDE DEF u
  <2>. QED
    BY <1>2, <1>4, <1>5, TotalUnique
<1>8. t[Len(s)] \in Nat
  BY <1>2, <1>3
<1>. QED
  BY <1>1, <1>2, <1>3, <1>6, <1>7, <1>8

LEMMA TotalEmpty == Total(<<>>) = 0
PROOF
<1>1. <<>> \in Seq(Nat) /\ Len(<<>>) = 0
  OBVIOUS
<1>. DEFINE x == [n \in {0} |-> 0]
<1>2. x[0] = 0 /\ \A n \in 1..Len(<<>>) : x[n] = x[n - 1] + <<>>[n]
  BY <1>1
<1>3. Total(<<>>) = x[Len(<<>>)]
  <2>. HIDE DEF x
  <2>. QED
    BY <1>1, <1>2, TotalUnique
<1>. QED
  BY <1>1, <1>2, <1>3
-----------------------------------------------------------------------------
(* What a line is. *)
LEMMA LineKinds ==
  /\ \A x : IsMsg([msg |-> x]) /\ SkipOf([msg |-> x]) = 0
  /\ \A x : ~IsMsg([skip |-> x]) /\ SkipOf([skip |-> x]) = x
  /\ \A x : ~IsMsg([note |-> x]) /\ SkipOf([note |-> x]) = 0
  /\ \A l \in Lines : IsMsg(l) => l.msg \in 0..MaxMsg
  /\ \A l \in Lines : SkipOf(l) \in Nat
PROOF
<1>1. \A x : IsMsg([msg |-> x]) /\ SkipOf([msg |-> x]) = 0
  BY DEF IsMsg, SkipOf
<1>2. \A x : ~IsMsg([skip |-> x]) /\ SkipOf([skip |-> x]) = x
  BY DEF IsMsg, SkipOf
<1>3. \A x : ~IsMsg([note |-> x]) /\ SkipOf([note |-> x]) = 0
  BY DEF IsMsg, SkipOf
<1>4. \A l \in Lines : IsMsg(l) => l.msg \in 0..MaxMsg
  BY DEF IsMsg, Lines
<1>5. \A l \in Lines : SkipOf(l) \in Nat
  BY DEF SkipOf, Lines
<1>. QED
  BY <1>1, <1>2, <1>3, <1>4, <1>5

(* The messages of the lines f, read one line at a time. *)
Reading(w, f) ==
  /\ w[0] = <<>>
  /\ \A n \in 1..Len(f) : w[n] = IF IsMsg(f[n]) THEN Append(w[n - 1], f[n].msg) ELSE w[n - 1]

LEMMA WrittenIs ==
  ASSUME NEW f \in Seq(Lines)
  PROVE  \E w \in [0..Len(f) -> Seq(0..MaxMsg)] : Reading(w, f) /\ Written(f) = w[Len(f)]
PROOF
<1>. DEFINE Def(w) ==
       w = [n \in 0..Len(f) |->
              IF n = 0 THEN <<>>
              ELSE IF IsMsg(f[n]) THEN Append(w[n - 1], f[n].msg) ELSE w[n - 1]]
<1>1. \E w \in [0..Len(f) -> Seq(0..MaxMsg)] : Reading(w, f)
  <2>. DEFINE A == Seq(0..MaxMsg)
  <2>. DEFINE step ==
         [n \in 1..Len(f) |-> [a \in A |-> IF IsMsg(f[n]) THEN Append(a, f[n].msg) ELSE a]]
  <2>1. \A n \in 1..Len(f) : IsMsg(f[n]) => f[n].msg \in 0..MaxMsg
    BY LineKinds
  <2>2. \A n \in 1..Len(f), a \in A : step[n][a] = IF IsMsg(f[n]) THEN Append(a, f[n].msg) ELSE a
    OBVIOUS
  <2>3. ASSUME NEW n \in 1..Len(f), NEW a \in A PROVE step[n][a] \in A
    <3>1. IsMsg(f[n]) => Append(a, f[n].msg) \in A
      BY <2>1
    <3>. QED
      BY <2>2, <3>1
  <2>4. <<>> \in A /\ Len(f) \in Nat
    OBVIOUS
  <2>. HIDE DEF step, A
  <2>5. Steps(A, <<>>, step, Len(f))
    BY <2>3, <2>4 DEF Steps
  <2>6. PICK w : Iterates(w, A, <<>>, step, Len(f))
    BY <2>5, Recursion
  <2>7. \A n \in 1..Len(f) : n - 1 \in 0..Len(f)
    BY <2>4
  <2>8. \A n \in 1..Len(f) : w[n - 1] \in A
    BY <2>6, <2>7 DEF Iterates
  <2>9. Reading(w, f)
    BY <2>2, <2>6, <2>8 DEF Iterates, Reading
  <2>. QED
    BY <2>6, <2>9 DEF Iterates, A
<1>2. PICK w \in [0..Len(f) -> Seq(0..MaxMsg)] : Reading(w, f)
  BY <1>1
<1>3. Len(f) \in Nat /\ Len(f) \in 0..Len(f)
  OBVIOUS
<1>4. Def(w)
  <2>1. \A n \in 0..Len(f) : w[n] = IF n = 0 THEN <<>> ELSE
          IF IsMsg(f[n]) THEN Append(w[n - 1], f[n].msg) ELSE w[n - 1]
    <3>1. w[0] = <<>> /\ \A n \in 0..Len(f) : n # 0 => n \in 1..Len(f)
      BY <1>2 DEF Reading
    <3>. QED
      BY <1>2, <3>1, Zenon DEF Reading
  <2>. QED
    BY <2>1
<1>5. Def(CHOOSE x : Def(x))
  BY <1>4, Zenon
<1>6. Written(f) = (CHOOSE x : Def(x))[Len(f)]
  BY Zenon DEF Written
<1>7. PICK x : Def(x) /\ Written(f) = x[Len(f)]
  BY <1>5, <1>6
<1>8. Reading(x, f)
  <2>1. \A n \in 0..Len(f) : x[n] = IF n = 0 THEN <<>> ELSE
          IF IsMsg(f[n]) THEN Append(x[n - 1], f[n].msg) ELSE x[n - 1]
    BY <1>7, Zenon
  <2>. QED
    BY <1>3, <2>1 DEF Reading
<1>9. SameSteps(w, x, Len(f))
  BY <1>2, <1>3, <1>8 DEF SameSteps, Reading
<1>10. w[Len(f)] = x[Len(f)]
  BY <1>3, <1>9, SameRecursion
<1>. QED
  BY <1>2, <1>7, <1>10

LEMMA WrittenUnique ==
  ASSUME NEW f \in Seq(Lines), NEW x, Reading(x, f)
  PROVE  Written(f) = x[Len(f)]
PROOF
<1>1. PICK w \in [0..Len(f) -> Seq(0..MaxMsg)] : Reading(w, f) /\ Written(f) = w[Len(f)]
  BY WrittenIs
<1>2. Len(f) \in Nat /\ Len(f) \in 0..Len(f)
  OBVIOUS
<1>3. SameSteps(w, x, Len(f))
  BY <1>1, <1>2 DEF SameSteps, Reading
<1>. QED
  BY <1>1, <1>2, <1>3, SameRecursion

LEMMA WrittenAppend ==
  ASSUME NEW f \in Seq(Lines), NEW l \in Lines
  PROVE  /\ Written(f) \in Seq(0..MaxMsg)
         /\ Written(Append(f, l)) = IF IsMsg(l) THEN Append(Written(f), l.msg) ELSE Written(f)
PROOF
<1>1. PICK q : q = Append(f, l)
  OBVIOUS
<1>2. /\ q \in Seq(Lines) /\ Len(q) = Len(f) + 1 /\ Len(f) \in Nat
      /\ q[Len(f) + 1] = l /\ \A n \in 1..Len(f) : q[n] = f[n]
  BY <1>1
<1>3. PICK w \in [0..Len(q) -> Seq(0..MaxMsg)] : Reading(w, q) /\ Written(q) = w[Len(q)]
  BY <1>2, WrittenIs
<1>4. Reading(w, f)
  <2>1. \A n \in 1..Len(f) : n \in 1..Len(q)
    BY <1>2
  <2>. QED
    BY <1>2, <1>3, <2>1, Zenon DEF Reading
<1>5. Written(f) = w[Len(f)]
  BY <1>4, WrittenUnique
<1>6. w[Len(f) + 1] = IF IsMsg(l) THEN Append(w[Len(f)], l.msg) ELSE w[Len(f)]
  <2>1. Len(f) + 1 \in 1..Len(q) /\ (Len(f) + 1) - 1 = Len(f)
    BY <1>2
  <2>. QED
    BY <1>2, <1>3, <2>1 DEF Reading
<1>7. w[Len(f)] \in Seq(0..MaxMsg)
  BY <1>2, <1>3
<1>. QED
  BY <1>1, <1>2, <1>3, <1>5, <1>6, <1>7

LEMMA WrittenEmpty == Written(<<>>) = <<>>
PROOF
<1>1. <<>> \in Seq(Lines) /\ Len(<<>>) = 0
  OBVIOUS
<1>. DEFINE x == [n \in {0} |-> <<>>]
<1>2. Reading(x, <<>>) /\ x[0] = <<>>
  BY <1>1 DEF Reading
<1>. HIDE DEF x
<1>. QED
  BY <1>1, <1>2, WrittenUnique

(* The counts on the SKIP lines. *)
LEMMA SkipLinesAppend ==
  ASSUME NEW f \in Seq(Lines), NEW l \in Lines
  PROVE  SkipLines(f) \in Nat /\ SkipLines(Append(f, l)) = SkipLines(f) + SkipOf(l)
PROOF
<1>. DEFINE Counts(g) == [i \in DOMAIN g |-> SkipOf(g[i])]
<1>1. \A i \in 1..Len(f) : SkipOf(f[i]) \in Nat
  BY LineKinds
<1>2. Counts(f) \in Seq(Nat) /\ SkipOf(l) \in Nat
  BY <1>1, LineKinds
<1>3. Counts(Append(f, l)) = Append(Counts(f), SkipOf(l))
  <2>1. PICK q : q = Append(f, l)
    OBVIOUS
  <2>2. /\ q \in Seq(Lines) /\ DOMAIN q = 1..Len(f) + 1 /\ Len(f) \in Nat
        /\ q[Len(f) + 1] = l /\ \A n \in 1..Len(f) : q[n] = f[n]
    BY <2>1
  <2>3. PICK c : c = Counts(f)
    OBVIOUS
  <2>4. c \in Seq(Nat) /\ Len(c) = Len(f) /\ \A i \in 1..Len(f) : c[i] = SkipOf(f[i])
    BY <1>2, <2>3
  <2>5. PICK k : k = SkipOf(l)
    OBVIOUS
  <2>6. Counts(q) = Append(c, k)
    <3>1. PICK a, b : a = Append(c, k) /\ b = Counts(q)
      OBVIOUS
    <3>2. a \in Seq(Nat) /\ Len(a) = Len(f) + 1
      BY <1>2, <2>4, <2>5, <3>1
    <3>3. b \in Seq(Nat) /\ Len(b) = Len(f) + 1
      BY <2>2, <3>1, LineKinds
    <3>4. \A i \in 1..Len(a) : a[i] = b[i]
      BY <2>2, <2>4, <2>5, <3>1, <3>2
    <3>5. a = b
      BY <3>2, <3>3, <3>4, SeqEqual
    <3>. QED
      BY <3>1, <3>5
  <2>. QED
    BY <2>1, <2>3, <2>5, <2>6
<1>4. SkipLines(f) = Total(Counts(f)) /\ SkipLines(Append(f, l)) = Total(Counts(Append(f, l)))
  BY Zenon DEF SkipLines
<1>. HIDE DEF Counts
<1>. QED
  BY <1>2, <1>3, <1>4, TotalAppend

LEMMA SkipLinesEmpty == SkipLines(<<>>) = 0
PROOF
<1>1. [i \in DOMAIN <<>> |-> SkipOf(<<>>[i])] = <<>>
  OBVIOUS
<1>. QED
  BY <1>1, TotalEmpty, Zenon DEF SkipLines
-----------------------------------------------------------------------------
(* Numbers and counts of entries. *)
Counts(s) == [i \in DOMAIN s |-> s[i].skipped]

LEMMA EntryType == \A e \in Entries : e.msg \in 0..MaxMsg /\ e.skipped \in Nat
PROOF
<1>. QED
  BY DEF Entries

LEMMA EntryFields ==
  ASSUME NEW s \in Seq(Entries)
  PROVE  /\ Numbers(s) \in Seq(0..MaxMsg) /\ Len(Numbers(s)) = Len(s)
         /\ \A i \in 1..Len(s) : Numbers(s)[i] = s[i].msg
         /\ Counts(s) \in Seq(Nat) /\ Len(Counts(s)) = Len(s)
         /\ \A i \in 1..Len(s) : Counts(s)[i] = s[i].skipped
PROOF
<1>2. \A i \in 1..Len(s) : s[i] \in Entries
  OBVIOUS
<1>3. \A i \in 1..Len(s) : s[i].msg \in 0..MaxMsg /\ s[i].skipped \in Nat
  BY <1>2, EntryType
<1>4. DOMAIN s = 1..Len(s) /\ Len(s) \in Nat
  OBVIOUS
<1>5. /\ Numbers(s) \in Seq(0..MaxMsg) /\ Len(Numbers(s)) = Len(s)
      /\ \A i \in 1..Len(s) : Numbers(s)[i] = s[i].msg
  BY <1>3, <1>4 DEF Numbers
<1>6. /\ Counts(s) \in Seq(Nat) /\ Len(Counts(s)) = Len(s)
      /\ \A i \in 1..Len(s) : Counts(s)[i] = s[i].skipped
  BY <1>3, <1>4 DEF Counts
<1>. QED
  BY <1>5, <1>6

LEMMA EntriesAppend ==
  ASSUME NEW s \in Seq(Entries), NEW e \in Entries
  PROVE  /\ Numbers(Append(s, e)) = Append(Numbers(s), e.msg)
         /\ Skips(s) \in Nat /\ Skips(Append(s, e)) = Skips(s) + e.skipped
PROOF
<1>1. PICK q, a, b, c, d : q = Append(s, e) /\ a = Numbers(s) /\ b = Counts(s)
                           /\ c = Counts(q) /\ d = Numbers(q)
  OBVIOUS
<1>2. /\ q \in Seq(Entries) /\ Len(q) = Len(s) + 1 /\ Len(s) \in Nat
      /\ q[Len(s) + 1] = e /\ \A i \in 1..Len(s) : q[i] = s[i]
  BY <1>1
<1>3. /\ a \in Seq(0..MaxMsg) /\ Len(a) = Len(s) /\ \A i \in 1..Len(s) : a[i] = s[i].msg
      /\ b \in Seq(Nat) /\ Len(b) = Len(s) /\ \A i \in 1..Len(s) : b[i] = s[i].skipped
  BY <1>1, EntryFields
<1>4. /\ d \in Seq(0..MaxMsg) /\ Len(d) = Len(q) /\ \A i \in 1..Len(q) : d[i] = q[i].msg
      /\ c \in Seq(Nat) /\ Len(c) = Len(q) /\ \A i \in 1..Len(q) : c[i] = q[i].skipped
  BY <1>1, <1>2, EntryFields
<1>5. PICK n, m : n = e.msg /\ m = e.skipped /\ n \in 0..MaxMsg /\ m \in Nat
  BY EntryType
<1>6. d = Append(a, n)
  <2>1. PICK y : y = Append(a, n)
    OBVIOUS
  <2>2. /\ y \in Seq(0..MaxMsg) /\ Len(y) = Len(q) /\ y[Len(s) + 1] = n
        /\ \A i \in 1..Len(s) : y[i] = a[i]
    BY <1>2, <1>3, <1>5, <2>1
  <2>3. ASSUME NEW i \in 1..Len(d) PROVE d[i] = y[i]
    <3>1. CASE i = Len(s) + 1
      BY <1>2, <1>4, <1>5, <2>2, <3>1
    <3>2. CASE i # Len(s) + 1
      <4>1. i \in 1..Len(s) /\ i \in 1..Len(q)
        BY <1>2, <1>4, <3>2
      <4>. QED
        BY <1>2, <1>3, <1>4, <2>2, <4>1
    <3>. QED
      BY <3>1, <3>2
  <2>. QED
    BY <1>4, <2>1, <2>2, <2>3, SeqEqual
<1>7. c = Append(b, m)
  <2>1. PICK y : y = Append(b, m)
    OBVIOUS
  <2>2. /\ y \in Seq(Nat) /\ Len(y) = Len(q) /\ y[Len(s) + 1] = m
        /\ \A i \in 1..Len(s) : y[i] = b[i]
    BY <1>2, <1>3, <1>5, <2>1
  <2>3. ASSUME NEW i \in 1..Len(c) PROVE c[i] = y[i]
    <3>1. CASE i = Len(s) + 1
      BY <1>2, <1>4, <1>5, <2>2, <3>1
    <3>2. CASE i # Len(s) + 1
      <4>1. i \in 1..Len(s) /\ i \in 1..Len(q)
        BY <1>2, <1>4, <3>2
      <4>. QED
        BY <1>2, <1>3, <1>4, <2>2, <4>1
    <3>. QED
      BY <3>1, <3>2
  <2>. QED
    BY <1>4, <2>1, <2>2, <2>3, SeqEqual
<1>8. Skips(s) = Total(b) /\ Skips(q) = Total(c)
  BY <1>1, Zenon DEF Skips, Counts
<1>9. Total(b) \in Nat /\ Total(Append(b, m)) = Total(b) + m
  BY <1>3, <1>5, TotalAppend
<1>. QED
  BY <1>1, <1>5, <1>6, <1>7, <1>8, <1>9

LEMMA EntriesTail ==
  ASSUME NEW s \in Seq(Entries), s # <<>>
  PROVE  /\ Numbers(s) # <<>> /\ Head(Numbers(s)) = Head(s).msg
         /\ Numbers(Tail(s)) = Tail(Numbers(s))
         /\ Skips(Tail(s)) \in Nat /\ Skips(s) = Head(s).skipped + Skips(Tail(s))
PROOF
<1>1. PICK q, a, b, c, d : q = Tail(s) /\ a = Numbers(s) /\ b = Counts(s)
                           /\ c = Counts(q) /\ d = Numbers(q)
  OBVIOUS
<1>2. /\ q \in Seq(Entries) /\ Len(s) = Len(q) + 1 /\ Len(q) \in Nat /\ Head(s) = s[1]
      /\ \A i \in 1..Len(q) : q[i] = s[i + 1]
  BY <1>1
<1>3. /\ a \in Seq(0..MaxMsg) /\ Len(a) = Len(s) /\ \A i \in 1..Len(s) : a[i] = s[i].msg
      /\ b \in Seq(Nat) /\ Len(b) = Len(s) /\ \A i \in 1..Len(s) : b[i] = s[i].skipped
  BY <1>1, EntryFields
<1>4. /\ d \in Seq(0..MaxMsg) /\ Len(d) = Len(q) /\ \A i \in 1..Len(q) : d[i] = q[i].msg
      /\ c \in Seq(Nat) /\ Len(c) = Len(q) /\ \A i \in 1..Len(q) : c[i] = q[i].skipped
  BY <1>1, <1>2, EntryFields
<1>5. a # <<>> /\ b # <<>> /\ Head(a) = s[1].msg /\ Head(b) = s[1].skipped
  BY <1>2, <1>3
<1>6. d = Tail(a)
  <2>1. PICK y : y = Tail(a)
    OBVIOUS
  <2>2. y \in Seq(0..MaxMsg) /\ Len(y) = Len(q) /\ \A i \in 1..Len(q) : y[i] = a[i + 1]
    BY <1>2, <1>3, <1>5, <2>1
  <2>3. ASSUME NEW i \in 1..Len(d) PROVE d[i] = y[i]
    <3>1. i \in 1..Len(q) /\ i + 1 \in 1..Len(s)
      BY <1>2, <1>4
    <3>. QED
      BY <1>2, <1>3, <1>4, <2>2, <3>1
  <2>. QED
    BY <1>4, <2>1, <2>2, <2>3, SeqEqual
<1>7. c = Tail(b)
  <2>1. PICK y : y = Tail(b)
    OBVIOUS
  <2>2. y \in Seq(Nat) /\ Len(y) = Len(q) /\ \A i \in 1..Len(q) : y[i] = b[i + 1]
    BY <1>2, <1>3, <1>5, <2>1
  <2>3. ASSUME NEW i \in 1..Len(c) PROVE c[i] = y[i]
    <3>1. i \in 1..Len(q) /\ i + 1 \in 1..Len(s)
      BY <1>2, <1>4
    <3>. QED
      BY <1>2, <1>3, <1>4, <2>2, <3>1
  <2>. QED
    BY <1>4, <2>1, <2>2, <2>3, SeqEqual
<1>8. Skips(s) = Total(b) /\ Skips(q) = Total(c)
  BY <1>1, Zenon DEF Skips, Counts
<1>9. Total(c) \in Nat
  BY <1>4, 0 \in Nat, TotalAppend
<1>10. Total(b) = Head(b) + Total(Tail(b))
  BY <1>3, <1>5, TotalTail
<1>. QED
  BY <1>1, <1>2, <1>5, <1>6, <1>7, <1>8, <1>9, <1>10

LEMMA NoEntries == Numbers(<<>>) = <<>> /\ Skips(<<>>) = 0
PROOF
<1>1. [i \in DOMAIN <<>> |-> <<>>[i].skipped] = <<>> /\ [i \in DOMAIN <<>> |-> <<>>[i].msg] = <<>>
  OBVIOUS
<1>. QED
  BY <1>1, TotalEmpty, Zenon DEF Skips, Numbers

LEMMA OneEntry ==
  ASSUME NEW e \in Entries
  PROVE  Numbers(<<e>>) = <<e.msg>> /\ Skips(<<e>>) = e.skipped /\ e.skipped \in Nat
PROOF
<1>1. <<>> \in Seq(Entries) /\ Append(<<>>, e) = <<e>> /\ e.skipped \in Nat
  BY EntryType
<1>2. Numbers(Append(<<>>, e)) = Append(<<>>, e.msg) /\ Skips(Append(<<>>, e)) = 0 + e.skipped
  BY <1>1, NoEntries, EntriesAppend
<1>. QED
  BY <1>1, <1>2
-----------------------------------------------------------------------------
(* The ring as a sequence. *)
RingOf(h, t, d) == [i \in 1..Dist(h, t) |-> d[Nth(t, i)]]

LEMMA QueuedIsRing ==
  Queued = RingOf(head, tail, data) /\ Queued' = RingOf(head', tail', data')
PROOF
<1>. QED
  BY DEF Queued, Count, SlotOf, RingOf, Dist, Nth

LEMMA RingType ==
  ASSUME NEW h \in Slots, NEW t \in Slots, NEW d \in [Slots -> Entries]
  PROVE  /\ RingOf(h, t, d) \in Seq(Entries)
         /\ Len(RingOf(h, t, d)) = Dist(h, t) /\ Dist(h, t) \in Nat
PROOF
<1>1. Size \in Nat /\ Slots = 0..Size - 1 /\ Dist(h, t) \in Slots
  BY SizeAssumption, OnCircle DEF Slots
<1>2. \A j \in 1..Dist(h, t) : Nth(t, j) \in Slots
  <2>1. \A j \in 1..Size : Nth(t, j) = (IF t + j - 1 < Size THEN t + j - 1 ELSE t + j - 1 - Size)
    BY OnCircle
  <2>. QED
    BY <1>1, <2>1
<1>3. \A j \in 1..Dist(h, t) : d[Nth(t, j)] \in Entries
  BY <1>2
<1>. QED
  BY <1>1, <1>3 DEF RingOf

(* A put into a ring with room appends its entry. *)
LEMMA RingAdd ==
  ASSUME NEW h \in Slots, NEW t \in Slots, NextSlot(h) # t,
         NEW d \in [Slots -> Entries], NEW e \in [Slots -> Entries],
         \A x \in Slots : x # h => e[x] = d[x]
  PROVE  RingOf(NextSlot(h), t, e) = Append(RingOf(h, t, d), e[h])
PROOF
<1>1. /\ Dist(NextSlot(h), t) = Dist(h, t) + 1
      /\ Nth(t, Dist(h, t) + 1) = h
      /\ \A j \in 1..Dist(h, t) : Nth(t, j) \in Slots /\ Nth(t, j) # h
  BY RoomOnCircle
<1>2. PICK a, b, x, k : a = RingOf(h, t, d) /\ b = RingOf(NextSlot(h), t, e) /\ x = Append(a, e[h])
                        /\ k = Dist(h, t)
  OBVIOUS
<1>3. a \in Seq(Entries) /\ Len(a) = k /\ k \in Nat /\ e[h] \in Entries
  BY <1>2, RingType
<1>4. x \in Seq(Entries) /\ Len(x) = k + 1 /\ x[k + 1] = e[h] /\ \A j \in 1..k : x[j] = a[j]
  BY <1>2, <1>3
<1>5. \A j \in 1..k : a[j] = d[Nth(t, j)]
  BY <1>2 DEF RingOf
<1>6. \A j \in 1..k + 1 : b[j] = e[Nth(t, j)]
  BY <1>1, <1>2 DEF RingOf
<1>7. NextSlot(h) \in Slots
  BY SlotAfter
<1>8. b \in Seq(Entries) /\ Len(b) = k + 1
  BY <1>1, <1>2, <1>7, RingType
<1>9. ASSUME NEW j \in 1..Len(x) PROVE x[j] = b[j]
  <2>1. CASE j = k + 1
    BY <1>1, <1>2, <1>3, <1>4, <1>6, <2>1
  <2>2. CASE j # k + 1
    <3>1. j \in 1..k /\ j \in 1..k + 1
      BY <1>3, <1>4, <2>2
    <3>2. e[Nth(t, j)] = d[Nth(t, j)]
      BY <1>1, <1>2, <3>1
    <3>. QED
      BY <1>4, <1>5, <1>6, <3>1, <3>2
  <2>. QED
    BY <2>1, <2>2
<1>10. x = b
  BY <1>4, <1>8, <1>9, SeqEqual
<1>. QED
  BY <1>2, <1>10

(* A ring without its oldest entry is its tail. *)
LEMMA RingDrop ==
  ASSUME NEW h \in Slots, NEW t \in Slots, h # t, NEW d \in [Slots -> Entries]
  PROVE  /\ RingOf(h, t, d) # <<>> /\ Head(RingOf(h, t, d)) = d[t]
         /\ RingOf(h, NextSlot(t), d) = Tail(RingOf(h, t, d))
PROOF
<1>1. /\ Dist(h, t) \in 1..Size - 1 /\ Dist(h, NextSlot(t)) = Dist(h, t) - 1
      /\ \A j \in 1..Dist(h, t) - 1 : Nth(NextSlot(t), j) = Nth(t, j + 1)
  BY TakeOnCircle
<1>2. PICK a, b, x, k : a = RingOf(h, t, d) /\ b = RingOf(h, NextSlot(t), d) /\ x = Tail(a)
                        /\ k = Dist(h, t)
  OBVIOUS
<1>3. a \in Seq(Entries) /\ Len(a) = k /\ k \in Nat /\ k > 0
  BY <1>1, <1>2, RingType
<1>4. a # <<>> /\ Head(a) = a[1]
      /\ x \in Seq(Entries) /\ Len(x) = k - 1 /\ \A j \in 1..k - 1 : x[j] = a[j + 1]
  BY <1>2, <1>3
<1>5. \A j \in 1..k : a[j] = d[Nth(t, j)]
  BY <1>2 DEF RingOf
<1>6. Nth(t, 1) = t
  <2>1. Size \in Nat /\ Size > 1 /\ t \in 0..Size - 1
    BY SizeAssumption DEF Slots
  <2>2. Nth(t, 1) = (IF t + 1 - 1 < Size THEN t + 1 - 1 ELSE t + 1 - 1 - Size)
    BY <2>1, OnCircle
  <2>. QED
    BY <2>1, <2>2
<1>7. a[1] = d[t]
  BY <1>3, <1>5, <1>6
<1>8. NextSlot(t) \in Slots
  BY SlotAfter
<1>9. b \in Seq(Entries) /\ Len(b) = k - 1
  BY <1>1, <1>2, <1>8, RingType
<1>10. \A j \in 1..k - 1 : b[j] = d[Nth(NextSlot(t), j)]
  BY <1>1, <1>2 DEF RingOf
<1>11. ASSUME NEW j \in 1..Len(x) PROVE x[j] = b[j]
  <2>1. j \in 1..k - 1 /\ j + 1 \in 1..k
    BY <1>3, <1>4
  <2>2. Nth(NextSlot(t), j) = Nth(t, j + 1)
    BY <1>1, <1>2, <2>1
  <2>. QED
    BY <1>4, <1>5, <1>10, <2>1, <2>2
<1>12. x = b
  BY <1>4, <1>9, <1>11, SeqEqual
<1>. QED
  BY <1>2, <1>4, <1>7, <1>12
-----------------------------------------------------------------------------
(* The views of the ring, the file and the logger's hand after a step. *)
LEMMA ViewsAfter ==
  /\ Numbers(Queued)' = Numbers(Queued') /\ Skips(Queued)' = Skips(Queued')
  /\ Numbers(InHand)' = Numbers(InHand') /\ Skips(InHand)' = Skips(InHand')
  /\ Written(file)' = Written(file') /\ SkipLines(file)' = SkipLines(file')
PROOF
<1>. QED
  OBVIOUS

(* The types of the views. *)
LEMMA ViewTypes ==
  ASSUME LogTypeOK, file \in Seq(Lines)
  PROVE  /\ Queued \in Seq(Entries) /\ InHand \in Seq(Entries)
         /\ Skips(Queued) \in Nat /\ Skips(InHand) \in Nat /\ SkipLines(file) \in Nat
         /\ Numbers(InHand) \in Seq(0..MaxMsg) /\ Written(file) \in Seq(0..MaxMsg)
PROOF
<1>1. head \in Slots /\ tail \in Slots /\ data \in [Slots -> Entries] /\ entry \in Entries
  BY DEF LogTypeOK
<1>2. Queued \in Seq(Entries)
  BY <1>1, QueuedIsRing, RingType
<1>3. InHand \in Seq(Entries)
  BY <1>1 DEF InHand
<1>4. entry \in Entries /\ [note |-> "end"] \in Lines
  BY <1>1 DEF Lines
<1>5. Skips(Queued) \in Nat /\ Skips(InHand) \in Nat
  BY <1>2, <1>3, <1>4, EntriesAppend
<1>6. SkipLines(file) \in Nat /\ Written(file) \in Seq(0..MaxMsg)
  BY <1>4, SkipLinesAppend, WrittenAppend
<1>7. Numbers(InHand) \in Seq(0..MaxMsg)
  BY <1>3, EntryFields
<1>. QED
  BY <1>2, <1>3, <1>5, <1>6, <1>7

(* log_str_dispatch puts a message, and drops the oldest from a full ring: *)
(* what that one carried, and the one itself, goes to the count of the     *)
(* new one.                                                                *)
LEMMA PutDropsOldest ==
  ASSUME LogTypeOK, file \in Seq(Lines), NEW p \in Producers, Put(p)
  PROVE  Abs!Put
PROOF
<1>1. /\ head \in Slots /\ tail \in Slots /\ data \in [Slots -> Entries]
      /\ next \in 0..MaxMsg /\ Size \in Nat /\ Size > 1 /\ Slots = 0..Size - 1
  BY SizeAssumption, MaxMsgAssumption DEF LogTypeOK, Slots, Put
<1>2. PICK q, e : q = Queued /\ e = [msg |-> next, skipped |-> IF Full THEN Carry ELSE 0]
  OBVIOUS
<1>3. e \in Entries /\ e.msg = next /\ e.skipped = IF Full THEN data[tail].skipped + 1 ELSE 0
  <2>1. data[tail] \in Entries /\ data[tail].skipped \in Nat
    BY <1>1, EntryType
  <2>. QED
    BY <1>1, <1>2, <2>1 DEF Carry, Entries
<1>4. /\ data' \in [Slots -> Entries] /\ data'[head] = e
      /\ \A x \in Slots : x # head => data'[x] = data[x]
      /\ head' = NextSlot(head) /\ next' = next + 1
      /\ tail' = IF Full THEN NextSlot(tail) ELSE tail
  BY <1>1, <1>2, <1>3 DEF Put, HeadSlot
<1>5. q = RingOf(head, tail, data) /\ Queued' = RingOf(head', tail', data')
  BY <1>2, QueuedIsRing
<1>6. q \in Seq(Entries) /\ Len(q) = Dist(head, tail) /\ Numbers(q) \in Seq(0..MaxMsg)
      /\ Len(Numbers(q)) = Len(q)
  BY <1>1, <1>5, RingType, EntryFields
<1>7. /\ InHand' = InHand /\ file' = file
  BY DEF Put, InHand, opened
<1>8. /\ NextSlot(head) = (IF head + 1 = Size THEN 0 ELSE head + 1)
      /\ NextSlot(tail) = (IF tail + 1 = Size THEN 0 ELSE tail + 1)
      /\ Dist(head, tail) = (IF head >= tail THEN head - tail ELSE head + Size - tail)
  BY <1>1, OnCircle
<1>9. CASE ~Full
  <2>1. NextSlot(head) # tail
    BY <1>9 DEF Full
  <2>2. Queued' = Append(q, e)
    <3>1. PICK d, h, t : d = data' /\ h = head /\ t = tail
      OBVIOUS
    <3>2. /\ h \in Slots /\ t \in Slots /\ NextSlot(h) # t
          /\ d \in [Slots -> Entries] /\ \A x \in Slots : x # h => d[x] = data[x]
      BY <1>1, <1>4, <2>1, <3>1
    <3>3. data \in [Slots -> Entries]
      BY <1>1
    <3>4. RingOf(NextSlot(h), t, d) = Append(RingOf(h, t, data), d[h])
      BY <3>2, <3>3, RingAdd, Zenon
    <3>. QED
      BY <1>4, <1>5, <1>9, <3>1, <3>4
  <2>3. Dist(head, tail) < Size - 1
    BY <1>1, <1>8, <2>1
  <2>4. /\ Numbers(Queued') = Append(Numbers(q), next)
        /\ Skips(q) \in Nat /\ Skips(Queued') = Skips(q) + 0
    BY <1>3, <1>6, <1>9, <2>2, EntriesAppend
  <2>. QED
    BY <1>2, <1>4, <1>6, <1>7, <2>3, <2>4, ViewsAfter DEF Abs!Put
<1>10. CASE Full
  <2>1. NextSlot(head) = tail
    BY <1>10 DEF Full
  <2>2. head # tail /\ NextSlot(head) # NextSlot(tail) /\ Dist(head, tail) = Size - 1
    BY <1>1, <1>8, <2>1
  <2>3. q # <<>> /\ Head(q) = data[tail] /\ RingOf(head, NextSlot(tail), data) = Tail(q)
    <3>1. head \in Slots /\ tail \in Slots /\ data \in [Slots -> Entries]
      BY <1>1
    <3>. QED
      BY <1>5, <2>2, <3>1, RingDrop, Zenon
  <2>4. NextSlot(tail) \in Slots
    BY <1>1, SlotAfter
  <2>5. Queued' = Append(Tail(q), e)
    <3>1. PICK d, h, t : d = data' /\ h = head /\ t = NextSlot(tail)
      OBVIOUS
    <3>2. /\ h \in Slots /\ t \in Slots /\ NextSlot(h) # t
          /\ d \in [Slots -> Entries] /\ \A x \in Slots : x # h => d[x] = data[x]
      BY <1>1, <1>4, <2>2, <2>4, <3>1
    <3>3. data \in [Slots -> Entries]
      BY <1>1
    <3>4. RingOf(NextSlot(h), t, d) = Append(RingOf(h, t, data), d[h])
      BY <3>2, <3>3, RingAdd, Zenon
    <3>. QED
      BY <1>4, <1>5, <1>10, <2>3, <3>1, <3>4
  <2>6. Tail(q) \in Seq(Entries)
    BY <1>6, <2>3
  <2>7. /\ Numbers(Queued') = Append(Tail(Numbers(q)), next)
        /\ Skips(Tail(q)) \in Nat /\ Skips(q) = data[tail].skipped + Skips(Tail(q))
        /\ Skips(Queued') = Skips(Tail(q)) + (data[tail].skipped + 1)
    BY <1>3, <1>6, <1>10, <2>3, <2>5, <2>6, EntriesAppend, EntriesTail
  <2>8. data[tail].skipped \in Nat
    BY <1>1, EntryType
  <2>9. Skips(Queued') = Skips(q) + 1 /\ Skips(q) \in Nat
    BY <2>7, <2>8
  <2>10. SkipLines(file) \in Nat /\ Skips(InHand) \in Nat
    BY ViewTypes
  <2>. QED
    BY <1>2, <1>4, <1>6, <1>7, <2>2, <2>7, <2>9, <2>10, ViewsAfter DEF Abs!Put
<1>. QED
  BY <1>9, <1>10

(* logger_thread takes the oldest. *)
LEMMA TakeGets ==
  ASSUME LogTypeOK, file \in Seq(Lines), Take
  PROVE  Abs!Get
PROOF
<1>1. /\ head \in Slots /\ tail \in Slots /\ data \in [Slots -> Entries]
      /\ head # tail /\ data[tail] \in Entries
  BY DEF LogTypeOK, Take
<1>2. PICK q, e : q = Queued /\ e = data[tail]
  OBVIOUS
<1>3. q = RingOf(head, tail, data) /\ Queued' = RingOf(head, NextSlot(tail), data)
  BY <1>2, QueuedIsRing DEF Take
<1>4. q # <<>> /\ Head(q) = e /\ Queued' = Tail(q)
  BY <1>1, <1>2, <1>3, RingDrop
<1>5. q \in Seq(Entries)
  BY <1>1, <1>3, RingType
<1>6. /\ Numbers(q) # <<>> /\ Head(Numbers(q)) = e.msg /\ Numbers(Queued') = Tail(Numbers(q))
      /\ Skips(Queued') \in Nat /\ Skips(q) = e.skipped + Skips(Queued')
  BY <1>4, <1>5, EntriesTail
<1>7. InHand = <<>> /\ InHand' = <<e>> /\ file' = file /\ next' = next
  BY <1>2 DEF Take, InHand, opened
<1>8. /\ Numbers(InHand) = <<>> /\ Skips(InHand) = 0
      /\ Numbers(InHand') = <<e.msg>> /\ Skips(InHand') = e.skipped /\ e.skipped \in Nat
      /\ e.msg \in 0..MaxMsg
  BY <1>1, <1>2, <1>7, NoEntries, OneEntry, EntryType
<1>9. PICK w, k : w = Written(file) /\ k = SkipLines(file) /\ w \in Seq(0..MaxMsg) /\ k \in Nat
  BY ViewTypes
<1>10. w \o <<e.msg>> = Append(w \o <<>>, e.msg)
  BY <1>8, <1>9
<1>11. k + e.skipped + Skips(Queued') = k + 0 + (e.skipped + Skips(Queued'))
  BY <1>6, <1>8, <1>9
<1>. QED
  BY <1>2, <1>6, <1>7, <1>8, <1>9, <1>10, <1>11, ViewsAfter DEF Abs!Get

(* What it writes is what it took: the count first, if there is one.       *)
LEMMA WriteIsQuiet ==
  ASSUME LogTypeOK, file \in Seq(Lines), logFile = "open", Write
  PROVE  UNCHANGED Abs!qVars
PROOF
<1>1. entry \in Entries /\ entry.msg \in 0..MaxMsg /\ entry.skipped \in Nat
  BY EntryType DEF LogTypeOK
<1>2. PICK f, e, m, k : f = file /\ e = entry /\ m = [msg |-> e.msg] /\ k = [skip |-> e.skipped]
  OBVIOUS
<1>3. m \in Lines /\ k \in Lines /\ f \in Seq(Lines) /\ e \in Entries
      /\ e.msg \in 0..MaxMsg /\ e.skipped \in Nat
  BY <1>1, <1>2 DEF Lines
<1>4. IsMsg(m) /\ m.msg = e.msg /\ SkipOf(m) = 0 /\ ~IsMsg(k) /\ SkipOf(k) = e.skipped
  BY <1>2, LineKinds
<1>5. InHand = <<e>> /\ InHand' = <<>> /\ Queued' = Queued /\ next' = next
  BY <1>2 DEF Write, InHand, Queued, Count, SlotOf, ring
<1>6. Numbers(InHand) = <<e.msg>> /\ Skips(InHand) = e.skipped
      /\ Numbers(InHand') = <<>> /\ Skips(InHand') = 0
  BY <1>3, <1>5, NoEntries, OneEntry
<1>7. file' = f \o ((IF e.skipped = 0 THEN <<>> ELSE <<k>>) \o <<m>>)
  BY <1>2 DEF Write, LogStr
<1>8. PICK w, n : w = Written(f) /\ n = SkipLines(f) /\ w \in Seq(0..MaxMsg) /\ n \in Nat
  BY <1>2, ViewTypes
<1>9. Written(file') = Append(w, e.msg) /\ SkipLines(file') = n + e.skipped
  <2>1. CASE e.skipped = 0
    <3>1. file' = Append(f, m)
      BY <1>3, <1>7, <2>1
    <3>. QED
      BY <1>3, <1>4, <1>8, <2>1, <3>1, WrittenAppend, SkipLinesAppend
  <2>2. CASE e.skipped # 0
    <3>1. PICK g : g = Append(f, k)
      OBVIOUS
    <3>2. g \in Seq(Lines) /\ file' = Append(g, m)
      <4>0. file' = f \o (<<k>> \o <<m>>)
        BY <1>7, <2>2
      <4>1. f \o (<<k>> \o <<m>>) = Append(Append(f, k), m)
        BY <1>3
      <4>2. g \in Seq(Lines)
        BY <1>3, <3>1
      <4>. QED
        BY <3>1, <4>0, <4>1, <4>2
    <3>3. Written(g) = w /\ SkipLines(g) = n + e.skipped
      BY <1>3, <1>4, <1>8, <3>1, WrittenAppend, SkipLinesAppend
    <3>4. Written(Append(g, m)) = Append(w, e.msg)
      BY <1>3, <1>4, <3>2, <3>3, WrittenAppend
    <3>5. SkipLines(Append(g, m)) = (n + e.skipped) + 0
      BY <1>3, <1>4, <3>2, <3>3, SkipLinesAppend
    <3>. QED
      BY <1>3, <1>8, <3>2, <3>4, <3>5
  <2>. QED
    BY <2>1, <2>2
<1>10. Written(file') \o <<>> = w \o <<e.msg>>
  BY <1>3, <1>8, <1>9
<1>11. SkipLines(file') + 0 = n + e.skipped
  BY <1>3, <1>8, <1>9
<1>. QED
  BY <1>2, <1>5, <1>6, <1>8, <1>10, <1>11, ViewsAfter DEF Abs!qVars

(* The first and the last line count for nothing. *)
LEMMA NoteIsQuiet ==
  ASSUME LogTypeOK, file \in Seq(Lines), UNCHANGED ring, InHand' = InHand,
         file' = file \/ \E s \in {"begin", "end"} : file' = Append(file, [note |-> s])
  PROVE  UNCHANGED Abs!qVars
PROOF
<1>1. Queued' = Queued /\ next' = next
  BY DEF Queued, Count, SlotOf, ring
<1>2. Written(file') = Written(file) /\ SkipLines(file') = SkipLines(file)
  <2>1. ASSUME NEW s \in {"begin", "end"}, file' = Append(file, [note |-> s])
        PROVE  Written(file') = Written(file) /\ SkipLines(file') = SkipLines(file)
    <3>1. PICK l : l = [note |-> s]
      OBVIOUS
    <3>2. l \in Lines /\ ~IsMsg(l) /\ SkipOf(l) = 0
      BY <3>1, LineKinds DEF Lines
    <3>. QED
      BY <2>1, <3>1, <3>2, WrittenAppend, SkipLinesAppend
  <2>. QED
    BY <2>1
<1>. QED
  BY <1>1, <1>2, ViewsAfter DEF Abs!qVars

-----------------------------------------------------------------------------
(* Every step of both drivers is a Put, a Get or nothing for DropOldest. *)
LEMMA DropStep ==
  ASSUME IInv, [Next]_vars
  PROVE  [Abs!Put \/ Abs!Get]_(Abs!qVars)
PROOF
<1>1. LogTypeOK /\ file \in Seq(Lines)
  BY DEF IInv
<1>2. CASE UNCHANGED vars \/ (LoadHk /\ UNCHANGED <<logVars, driver>>) \/ Unload \/ ReloadExit
  <2>1. UNCHANGED logVars
    BY <1>2 DEF vars, Unload, ReloadExit
  <2>. QED
    BY <1>1, <2>1, NoteIsQuiet DEF logVars, InHand
<1>. SUFFICES ASSUME ~crashed, Next PROVE [Abs!Put \/ Abs!Get]_(Abs!qVars)
  BY <1>2 DEF Next
<1>3. LogInv
  BY DEF IInv
<1>4. CASE Main
  <2>1. CASE Describe
    <3>1. UNCHANGED logVars
      BY <2>1 DEF Describe, OpenNet, BasicInfo, ValueInfo, Obtain, EnumerateKey, OpenCard,
                  ServiceName, Description, CleanUp, NextAdapter, Describes
    <3>. QED
      BY <1>1, <3>1, NoteIsQuiet DEF logVars, InHand
  <2>2. CASE FilterInit \/ Connect \/ GetIface \/ ListSize \/ ListBuffer \/ Attach \/ Report
             \/ Detach \/ StopReload \/ JoinReload
    <3>1. UNCHANGED logVars
      BY <2>2 DEF FilterInit, Connect, GetIface, ListSize, ListBuffer, Attach, Report, Detach,
                  StopReload, JoinReload
    <3>. QED
      BY <1>1, <3>1, NoteIsQuiet DEF logVars, InHand
  <2>3. CASE Start
    <3>1. main = "load"
      BY <2>3 DEF Start, At
    <3>2. closer = "open" /\ logFile = "none" /\ logger = "none" /\ file = <<>>
      BY <1>3, <3>1 DEF LogInv
    <3>3. /\ UNCHANGED <<ring, entry>> /\ logger' \in {"none", "wait"}
          /\ file' = file \/ file' = <<[note |-> "begin"]>>
      BY <2>3, <3>2 DEF Start, OpenLog, OpenLogFails, Note
    <3>4. <<[note |-> "begin"]>> = Append(file, [note |-> "begin"])
      BY <3>2
    <3>. QED
      BY <1>1, <3>2, <3>3, <3>4, NoteIsQuiet DEF InHand
  <2>4. CASE Close
    <3>0. file \o Note("end") = Append(file, [note |-> "end"])
      BY <1>1 DEF Note, Lines
    <3>1. UNCHANGED <<ring, entry, logger>>
          /\ (file' = file \/ file' = Append(file, [note |-> "end"]))
      BY <2>4, <3>0 DEF Close, CloseLog, NotOpen, SetExit, WakeUp, Join, FreeRing, WriteEnd,
                        opened
    <3>. QED
      BY <1>1, <3>1, NoteIsQuiet DEF InHand
  <2>. QED
    BY <1>4, <2>1, <2>2, <2>3, <2>4 DEF Main
<1>5. CASE LogThread
  <2>1. CASE Wake \/ Empty
    <3>1. UNCHANGED <<ring, entry, file>> /\ logger # "write" /\ logger' # "write"
      BY <2>1 DEF Wake, Empty, Drained, opened
    <3>. QED
      BY <1>1, <3>1, NoteIsQuiet DEF InHand
  <2>2. CASE Take
    BY <1>1, <2>2, TakeGets
  <2>3. CASE Write
    <3>1. logFile = "open"
      BY <1>1, <1>3, <2>3 DEF Write, LogInv, LoggerGone, LogTypeOK
    <3>. QED
      BY <1>1, <2>3, <3>1, WriteIsQuiet
  <2>. QED
    BY <1>5, <2>1, <2>2, <2>3 DEF LogThread, Logger
<1>6. ASSUME NEW p \in Producers, LogPacket(p) \/ LeaveLog(p)
      PROVE  [Abs!Put \/ Abs!Get]_(Abs!qVars)
  <2>1. CASE LogPacket(p)
    BY <1>1, <2>1, PutDropsOldest DEF LogPacket
  <2>2. CASE LeaveLog(p)
    <3>1. UNCHANGED <<ring, entry, logger, file>>
      BY <2>2 DEF LeaveLog, SetEvent, opened
    <3>. QED
      BY <1>1, <3>1, NoteIsQuiet DEF InHand
  <2>. QED
    BY <1>6, <2>1, <2>2
<1>. QED
  BY <1>2, <1>4, <1>5, <1>6 DEF Next

(* The ring under its lock, the thread that empties it and the file        *)
(* implement DropOldest: for a ring of any size, in any order of the       *)
(* threads, whatever fails.  A message is queued, in the logger's hand, in *)
(* the file, or was the oldest of a full ring and is counted; what the     *)
(* SKIP lines of the file and the entries still carry adds up to the       *)
(* number of the lost.                                                     *)
THEOREM LogDropsOldest == Spec => DropsOldest
PROOF
<1>1. Init => Abs!Init
  <2>. SUFFICES ASSUME Init PROVE Abs!Init
    OBVIOUS
  <2>1. Count = 0
    BY SizeAssumption DEF Init, LogInit, Count
  <2>2. Queued = <<>> /\ InHand = <<>> /\ file = <<>> /\ next = 1
    BY <2>1 DEF Init, LogInit, Queued, InHand
  <2>3. Numbers(<<>>) = <<>> /\ Skips(<<>>) = 0 /\ Written(<<>>) = <<>> /\ SkipLines(<<>>) = 0
    BY NoEntries, WrittenEmpty, SkipLinesEmpty
  <2>4. <<>> \o <<>> = <<>>
    OBVIOUS
  <2>. QED
    BY <2>2, <2>3, <2>4 DEF Abs!Init
<1>2. IInv /\ [Next]_vars => [Abs!Put \/ Abs!Get]_(Abs!qVars)
  BY DropStep
<1>. QED
  BY <1>1, <1>2, Invariance, PTL DEF Spec, DropsOldest, Abs!Spec
=============================================================================
