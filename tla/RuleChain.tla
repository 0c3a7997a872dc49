----------------------------- MODULE RuleChain -----------------------------
(***************************************************************************)
(* The rule chain of ndis_flt (ndis_flt/filter.c): its life from           *)
(* filter_init to filter_free, the thread that watches the rules file, and *)
(* the packets that walk the chain meanwhile.                              *)
(*                                                                         *)
(* Threads: "main" runs DriverEntry and OnUnload, "reloader" runs          *)
(* reload_thread, and every processor of Cpus runs filter_packet.  The     *)
(* spin lock g_rules.guard is the variable guard; what a thread does while *)
(* it holds the lock is a step per node, so that a missing lock would      *)
(* show.  An add_flt_rule touches the chain only under the lock and is one *)
(* step.  The rules file is a version number, which is its write time too; *)
(* Content gives the lines of a version.                                   *)
(***************************************************************************)
EXTENDS RuleMatch

CONSTANTS
  Cpus,        \* processors that call filter_packet
  Packets,     \* packets they may carry
  MaxVersion,  \* bound: the file is edited at most MaxVersion times
  Content,     \* version |-> lines of the rules file
  NotRule,     \* a line parse_rule is not given or rejects
  Faults       \* what may fail: see FaultKinds

Loaders    == {"main", "reloader"}
Threads    == Loaders \cup Cpus
Versions   == 0..MaxVersion
FaultKinds == {"read", "rule", "query", "thread", "entry", "share"}

ASSUME CpusAssumption    == Cpus \cap (Loaders \cup {"free"}) = {}
ASSUME VersionAssumption == MaxVersion \in Nat
Lines == UNION {{Content[v][i] : i \in DOMAIN Content[v]} : v \in Versions}

ASSUME ContentAssumption ==
  /\ Content \in [Versions -> Seq(Lines)]
  /\ \A v \in Versions : \A i \in DOMAIN Content[v] :
       Content[v][i] # NotRule => Content[v][i].result \in Verdicts
ASSUME PacketsAssumption == Packets # {}
ASSUME FaultsAssumption  == Faults \subseteq FaultKinds

VARIABLES
  chain,    \* g_rules.head ... g_rules.tail, in order
  live,     \* the nodes that are allocated
  guard,    \* holder of g_rules.guard, or "free"
  pc, pos,  \* of every thread: where it is, and its index into chain or lines
  buf,      \* of a loader: the version in its buffer
  gen,      \* number of filter_reload calls so far (names the allocations)
  exit,     \* g_rules.b_exit
  first, info,    \* reload_thread: b_first, info2.LastWriteTime
  seen,           \* reload_thread: info1.LastWriteTime
  ver, writer,    \* the rules file, and whether an editor has it open
  pkt, table, result  \* of a processor: packet, table walked, last answer

chainVars  == <<chain, live, gen>>
loadVars   == <<buf, exit>>
watchVars  == <<first, info, seen>>
fileVars   == <<ver, writer>>
packetVars == <<pkt, table, result>>
vars == <<chainVars, guard, pc, pos, loadVars, watchVars, fileVars, packetVars>>

Nodes == [gen : Nat, ver : Versions, line : Nat \ {0}]

(* The rules a complete load of version v puts into the chain. *)
RuleLines(v) == {i \in DOMAIN Content[v] : Content[v][i] # NotRule}
RuleOf(n)    == Content[n.ver][n.line]
Rules        == [i \in DOMAIN chain |-> RuleOf(chain[i])]
ChainNodes   == {chain[i] : i \in DOMAIN chain}

Init ==
  /\ chain = <<>> /\ live = {} /\ gen = 0
  /\ guard = "free"
  /\ pc  = [t \in Threads |-> CASE t = "main" -> "reload"
                                [] t = "reloader" -> "none"
                                [] OTHER -> "idle"]
  /\ pos = [t \in Threads |-> 1]
  /\ buf = [t \in Loaders |-> 0]
  /\ exit = FALSE
  /\ first = TRUE /\ info = 0 /\ seen = 0
  /\ ver = 0 /\ writer = FALSE
  /\ pkt    = [c \in Cpus |-> CHOOSE p \in Packets : TRUE]
  /\ table  = [c \in Cpus |-> "ip"]
  /\ result = [c \in Cpus |-> "allow"]

Goto(t, label) == pc' = [pc EXCEPT ![t] = label]
-----------------------------------------------------------------------------
(* clear_flt_chain: a step per freed node, the lock held throughout. *)
CanClear_bug == TRUE                        \* KeAcquireSpinLock forgotten
CanClear     == guard = "free"

ClearStart(t) ==
  /\ pc[t] \in {"reload", "free"} /\ CanClear
  /\ guard' = t
  /\ Goto(t, "clear")
  /\ pos' = [pos EXCEPT ![t] = 1]
  /\ gen' = IF pc[t] = "reload" THEN gen + 1 ELSE gen
  /\ UNCHANGED <<chain, live, loadVars, watchVars, fileVars, packetVars>>

ToFree_bug(t) == pos[t] < Len(chain)        \* the tail is never freed
ToFree(t)     == pos[t] <= Len(chain)

ClearNode(t) ==
  /\ pc[t] = "clear" /\ ToFree(t)
  /\ live' = live \ {chain[pos[t]]}
  /\ pos' = [pos EXCEPT ![t] = @ + 1]
  /\ UNCHANGED <<chain, gen, guard, pc, loadVars, watchVars, fileVars, packetVars>>

Emptied_bug == chain                        \* head and tail left as they were
Emptied     == <<>>

(* The end of filter_free, when main clears after it has set b_exit. *)
ClearEnd(t) ==
  /\ pc[t] = "clear" /\ ~ToFree(t)
  /\ chain' = Emptied
  /\ guard' = "free"
  /\ Goto(t, IF t = "main" /\ exit THEN "gone" ELSE "read")
  /\ UNCHANGED <<live, gen, pos, loadVars, watchVars, fileVars, packetVars>>

-----------------------------------------------------------------------------
(* filter_reload after its clear_flt_chain. *)

(* Where filter_reload returns to; nobody looks at its status. *)
Return(t) == Goto(t, IF t = "main" THEN "create" ELSE "update")

(* No memory, no file, an editor that has it open, or a read error. *)
ReadFail(t) ==
  /\ pc[t] = "read"
  /\ writer \/ "read" \in Faults
  /\ Return(t)
  /\ UNCHANGED <<chainVars, guard, pos, loadVars, watchVars, fileVars, packetVars>>

ReadFile(t) ==
  /\ pc[t] = "read" /\ ~writer
  /\ buf' = [buf EXCEPT ![t] = ver]
  /\ pos' = [pos EXCEPT ![t] = 1]
  /\ Goto(t, "lines")
  /\ UNCHANGED <<chainVars, guard, exit, watchVars, fileVars, packetVars>>

(* The file stays open, shared for reading only, until the last line. *)
FileOpen == \E t \in Loaders : pc[t] = "lines"

LineAt(t) == Content[buf[t]][pos[t]]

SkipLine(t) ==
  /\ pc[t] = "lines" /\ pos[t] <= Len(Content[buf[t]])
  /\ LineAt(t) = NotRule
  /\ pos' = [pos EXCEPT ![t] = @ + 1]
  /\ UNCHANGED <<chainVars, guard, pc, loadVars, watchVars, fileVars, packetVars>>

(* add_flt_rule; its result is ignored, so that a rule can be lost. *)
AddRule(t) ==
  /\ pc[t] = "lines" /\ pos[t] <= Len(Content[buf[t]])
  /\ LineAt(t) # NotRule
  /\ guard = "free"
  /\ LET n == [gen |-> gen, ver |-> buf[t], line |-> pos[t]]
     IN  \/ chain' = Append(chain, n) /\ live' = live \cup {n}
         \/ "rule" \in Faults /\ UNCHANGED <<chain, live>>
  /\ pos' = [pos EXCEPT ![t] = @ + 1]
  /\ UNCHANGED <<gen, guard, pc, loadVars, watchVars, fileVars, packetVars>>

LoadDone(t) ==
  /\ pc[t] = "lines" /\ pos[t] > Len(Content[buf[t]])
  /\ Return(t)
  /\ UNCHANGED <<chainVars, guard, pos, loadVars, watchVars, fileVars, packetVars>>

Load(t) ==
  \/ ClearStart(t) \/ ClearNode(t) \/ ClearEnd(t)
  \/ ReadFail(t) \/ ReadFile(t)
  \/ SkipLine(t) \/ AddRule(t) \/ LoadDone(t)
-----------------------------------------------------------------------------
(* DriverEntry and OnUnload, as far as they touch the chain. *)
CreateThread ==
  /\ pc["main"] = "create"
  /\ pc' = [pc EXCEPT !["main"] = "created", !["reloader"] = "wait"]
  /\ UNCHANGED <<chainVars, guard, pos, loadVars, watchVars, fileVars, packetVars>>

(* filter_init fails: DriverEntry runs OnUnload. *)
CreateFail ==
  /\ pc["main"] = "create" /\ "thread" \in Faults
  /\ Goto("main", "unload")
  /\ UNCHANGED <<chainVars, guard, pos, loadVars, watchVars, fileVars, packetVars>>

(* The rest of DriverEntry fails before the filter is attached. *)
EntryFail ==
  /\ pc["main"] = "created" /\ "entry" \in Faults
  /\ Goto("main", "unload")
  /\ UNCHANGED <<chainVars, guard, pos, loadVars, watchVars, fileVars, packetVars>>

(* attach_filter takes the lock under which ndis_hk calls filter_packet. *)
HkGuardFree == \A c \in Cpus : pc[c] = "idle"

Attach ==
  /\ pc["main"] = "created" /\ HkGuardFree
  /\ Goto("main", "attached")
  /\ UNCHANGED <<chainVars, guard, pos, loadVars, watchVars, fileVars, packetVars>>

Detach ==
  /\ pc["main"] = "attached" /\ HkGuardFree
  /\ Goto("main", "unload")
  /\ UNCHANGED <<chainVars, guard, pos, loadVars, watchVars, fileVars, packetVars>>

(* filter_free: b_exit, then the event, which the thread's timeout makes  *)
(* immaterial to what can happen.                                          *)
SetExit ==
  /\ pc["main"] = "unload"
  /\ exit' = TRUE
  /\ Goto("main", "join")
  /\ UNCHANGED <<chainVars, guard, pos, buf, watchVars, fileVars, packetVars>>

(* The wait on reload_thread returns at once when it was never created. *)
Joined_bug == TRUE                          \* the wait forgotten
Joined     == pc["reloader"] \in {"none", "exited"}

Join ==
  /\ pc["main"] = "join" /\ Joined
  /\ Goto("main", "free")
  /\ UNCHANGED <<chainVars, guard, pos, loadVars, watchVars, fileVars, packetVars>>

Main == CreateThread \/ CreateFail \/ EntryFail \/ Attach \/ Detach \/ SetExit \/ Join
-----------------------------------------------------------------------------
(* reload_thread. *)
WakeTo_bug == "poll"                        \* b_exit not looked at
WakeTo     == IF exit THEN "exited" ELSE "poll"

Wake ==
  /\ pc["reloader"] = "wait"
  /\ Goto("reloader", WakeTo)
  /\ UNCHANGED <<chainVars, guard, pos, loadVars, watchVars, fileVars, packetVars>>

PollFail ==
  /\ pc["reloader"] = "poll" /\ "query" \in Faults
  /\ Goto("reloader", "wait")
  /\ UNCHANGED <<chainVars, guard, pos, loadVars, watchVars, fileVars, packetVars>>

(* The write time is only remembered the first time, then compared. *)
Poll ==
  /\ pc["reloader"] = "poll"
  /\ seen' = ver
  /\ first' = FALSE
  /\ Goto("reloader", IF ~first /\ ver # info THEN "reload" ELSE "update")
  /\ UNCHANGED <<chainVars, guard, pos, loadVars, info, fileVars, packetVars>>

Remembered_bug == ver                       \* the time queried after the reload
Remembered     == seen

Update ==
  /\ pc["reloader"] = "update"
  /\ info' = Remembered
  /\ Goto("reloader", "wait")
  /\ UNCHANGED <<chainVars, guard, pos, loadVars, first, seen, fileVars, packetVars>>

Watch == Wake \/ PollFail \/ Poll \/ Update
-----------------------------------------------------------------------------
(* filter_packet on processor c: the walk of the ip table, and if that    *)
(* allows, of the packet's transport table, each under the lock of its own.*)
Receive(c) ==
  /\ pc[c] = "idle" /\ HkGuardFree /\ pc["main"] = "attached"
  /\ \E p \in Packets : pkt' = [pkt EXCEPT ![c] = p]
  /\ table' = [table EXCEPT ![c] = "ip"]
  /\ Goto(c, "acquire")
  /\ UNCHANGED <<chainVars, guard, pos, loadVars, watchVars, fileVars, result>>

FirstRule_bug == 2                          \* the head skipped
FirstRule     == 1

WalkStart(c) ==
  /\ pc[c] = "acquire" /\ guard = "free"
  /\ guard' = c
  /\ pos' = [pos EXCEPT ![c] = FirstRule]
  /\ Goto(c, "walk")
  /\ UNCHANGED <<chainVars, loadVars, watchVars, fileVars, packetVars>>

Hit(c) == RuleMatches(RuleOf(chain[pos[c]]), table[c], pkt[c])

WalkOn(c) ==
  /\ pc[c] = "walk" /\ pos[c] <= Len(chain) /\ ~Hit(c)
  /\ pos' = [pos EXCEPT ![c] = @ + 1]
  /\ UNCHANGED <<chainVars, guard, pc, loadVars, watchVars, fileVars, packetVars>>

NoTable_bug == "drop"                       \* an answer filter_packet never gives
NoTable     == "unknown"

(* Release the lock; a protocol without a table is dropped unexamined. *)
Answer(c, v) ==
  /\ guard' = "free"
  /\ LET proto == pkt[c].proto
         more  == table[c] = "ip" /\ v = "allow"
     IN  /\ result' = [result EXCEPT ![c] =
                         IF more /\ proto \notin Transports THEN NoTable ELSE v]
         /\ IF more /\ proto \in Transports
              THEN table' = [table EXCEPT ![c] = proto] /\ Goto(c, "acquire")
              ELSE UNCHANGED table /\ Goto(c, "idle")
  /\ UNCHANGED <<chainVars, pos, loadVars, watchVars, fileVars, pkt>>

WalkHit(c) ==
  /\ pc[c] = "walk" /\ pos[c] <= Len(chain) /\ Hit(c)
  /\ Answer(c, RuleOf(chain[pos[c]]).result)

WalkEnd(c) ==
  /\ pc[c] = "walk" /\ pos[c] > Len(chain)
  /\ Answer(c, "allow")

Walk(c) == WalkStart(c) \/ WalkOn(c) \/ WalkHit(c) \/ WalkEnd(c)
-----------------------------------------------------------------------------
(* The administrator's editor: it replaces the file in one go, or opens it *)
(* for writing, writes (more than once) and closes.  While filter_reload   *)
(* has the file open it can do neither.                                    *)
Replace ==
  /\ ~writer /\ ~FileOpen /\ ver < MaxVersion
  /\ ver' = ver + 1
  /\ UNCHANGED <<chainVars, guard, pc, pos, loadVars, watchVars, writer, packetVars>>

OpenForEdit ==
  /\ "share" \in Faults /\ ~writer /\ ~FileOpen /\ ver < MaxVersion
  /\ writer' = TRUE
  /\ UNCHANGED <<chainVars, guard, pc, pos, loadVars, watchVars, ver, packetVars>>

WriteFile ==
  /\ writer /\ ver < MaxVersion
  /\ ver' = ver + 1
  /\ UNCHANGED <<chainVars, guard, pc, pos, loadVars, watchVars, writer, packetVars>>

CloseFile ==
  /\ writer
  /\ writer' = FALSE
  /\ UNCHANGED <<chainVars, guard, pc, pos, loadVars, watchVars, ver, packetVars>>

Edit == Replace \/ OpenForEdit \/ WriteFile \/ CloseFile
-----------------------------------------------------------------------------
Next ==
  \/ \E t \in Loaders : Load(t)
  \/ Main \/ Watch \/ Edit
  \/ \E c \in Cpus : Receive(c) \/ Walk(c)

Spec == Init /\ [][Next]_vars

(* The system threads run, and so does a processor inside filter_packet;   *)
(* an editor closes what it opened.  A thread that spins for the lock gets *)
(* it although packets keep coming.  Nothing makes packets arrive, the     *)
(* file change or the driver unload.                                       *)
Fairness ==
  /\ \A t \in Loaders : SF_vars(Load(t))
  /\ WF_vars(CreateThread) /\ WF_vars(Attach) /\ WF_vars(SetExit) /\ WF_vars(Join)
  /\ WF_vars(Watch) /\ WF_vars(CloseFile)
  /\ \A c \in Cpus : SF_vars(Walk(c))

FairSpec == Spec /\ Fairness
-----------------------------------------------------------------------------
(* Every variable has its type (the answer of a walk is one that           *)
(* filter_packet knows what to do with).                                   *)
TypeOK ==
  /\ chain \in Seq(Nodes) /\ live \subseteq Nodes /\ gen \in Nat
  /\ guard \in Threads \cup {"free"}
  /\ pc \in [Threads -> {"reload", "clear", "read", "lines", "create", "created",
                         "attached", "unload", "join", "free", "gone", "none", "wait",
                         "poll", "update", "exited", "idle", "acquire", "walk"}]
  /\ pos \in [Threads -> Nat \ {0}]
  /\ buf \in [Loaders -> Versions] /\ exit \in BOOLEAN
  /\ first \in BOOLEAN /\ info \in Versions /\ seen \in Versions
  /\ ver \in Versions /\ writer \in BOOLEAN
  /\ pkt \in [Cpus -> Packets] /\ table \in [Cpus -> Tables]
  /\ result \in [Cpus -> Verdicts \cup {"unknown"}]

(* No packet looks at a rule that clear_flt_chain has freed, however the   *)
(* reload interleaves with the walks of filter_ip ... filter_icmp.         *)
WalkSafe ==
  \A c \in Cpus : pc[c] = "walk" /\ pos[c] <= Len(chain) => chain[pos[c]] \in live

(* The chain is never a mixture: its rules come from one read of one       *)
(* version of the file, in the order of their lines, none twice, whatever  *)
(* was lost on the way (the walks execute them "from top to bottom").      *)
OneVersion ==
  \A i, j \in DOMAIN chain : i < j =>
    /\ chain[i].gen = chain[j].gen /\ chain[i].ver = chain[j].ver
    /\ chain[i].line < chain[j].line

(* Whenever the lock is free, the allocated rules are those in the chain:  *)
(* a reload neither leaks an old rule nor keeps a freed one.               *)
NoLeak == guard = "free" => live = ChainNodes

(* Once OnUnload has joined the reload thread nobody else is inside this   *)
(* code, and when filter_free returns every rule has been freed.           *)
Quiesced ==
  /\ pc["main"] \in {"free", "clear", "gone"} /\ exit =>
       /\ pc["reloader"] \in {"none", "exited"}
       /\ \A c \in Cpus : pc[c] = "idle"
  /\ pc["main"] = "gone" => live = {}

(* The loop of a walk, stopped by the lock or not, answers what the first  *)
(* matching rule of the chain as it then is says.                          *)
AnswersFirstMatch ==
  [][\A c \in Cpus : pc[c] = "walk" /\ pc'[c] # "walk" =>
       result'[c] = LET v == Verdict(Rules, table[c], pkt[c])
                    IN  IF table[c] = "ip" /\ v = "allow" /\ pkt[c].proto \notin Transports
                        THEN "unknown" ELSE v]_vars

(* "Driver will reload changed file in 5-10 sec" (ndis_fw.conf), for a     *)
(* file that changes after reload_thread first looked at it.               *)
Applied == \/ exit
           \/ /\ \A n \in ChainNodes : n.ver = ver
              /\ {n.line : n \in ChainNodes} = RuleLines(ver)

PolledEditApplied == ~first /\ seen # ver ~> Applied

(* The same without the reservation: the rules of the file that the driver *)
(* runs with are eventually those in force.                                *)
EditApplied == pc["main"] = "attached" ~> Applied

(* An unload ends: OnUnload never waits for ever on the lock or on the     *)
(* reload thread.                                                          *)
UnloadEnds == pc["main"] = "unload" ~> pc["main"] = "gone"
=============================================================================
