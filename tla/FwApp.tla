------------------------------- MODULE FwApp -------------------------------
(***************************************************************************)
(* The program of the second sample: TDriver, which registers, starts,     *)
(* stops and deletes the driver as a service, and the window's commands    *)
(* (MainFrm.cpp, FirewallAppDoc.cpp), composed with FwHookDrv.  A program  *)
(* may be killed and started again; the driver stays.                      *)
(*                                                                         *)
(* The program has one thread; its steps wait until the driver has done a  *)
(* request.  A call of the service manager is a step with its outcomes.    *)
(* Some other program may have registered or started the driver before.    *)
(***************************************************************************)
EXTENDS FwHookDrv

CONSTANTS
  MaxRules,   \* MAX_RULES
  Files       \* the contents of the files of rules

AppFaults == DriverFaults \cup {"memory", "file", "scm", "service", "stop", "delete", "open"}

ASSUME MaxRulesAssumption == MaxRules \in Nat
ASSUME FilesAssumption    == \A f \in Files : f \in Seq(Rules)
ASSUME FaultsAssumption   == Faults \subseteq AppFaults

VARIABLES
  service,   \* in the service manager: "absent", "stopped" or "running"
  pc,        \* where the program is
  initialized, registered, running, removable, handle,   \* TDriver
  ret,       \* what UnloadDriver returned
  started,   \* CMainFrame::started
  rules,     \* CFirewallAppDoc::rules, the first nRules
  i          \* OnButtoninstall: index of the next rule

tdriverVars == <<initialized, registered, running, removable, handle, ret>>
vars == <<driverVars, service, pc, tdriverVars, started, rules, i>>

Fails(f) == f \in Faults

Init ==
  /\ DriverInit
  /\ service \in {"absent", "stopped", "running"}
  /\ image = IF service = "running" THEN "loaded" ELSE "absent"
  /\ pc = "gone"
  /\ initialized = FALSE /\ registered = FALSE /\ running = FALSE
  /\ removable = TRUE /\ handle = FALSE /\ ret = "none"
  /\ started = FALSE /\ rules = <<>> /\ i = 1
-----------------------------------------------------------------------------
(* The constructor of CMainFrame: LoadDriver is InitDriver, CreateService, *)
(* StartService and CreateFile; when one fails the program ends by exit,   *)
(* without a destructor of TDriver.                                        *)
GivesUp == pc' = "gone" /\ handle' = FALSE

Launch ==
  /\ pc = "gone" /\ pc' = "init"
  /\ initialized' = FALSE /\ registered' = FALSE /\ running' = FALSE
  /\ removable' = TRUE /\ handle' = FALSE /\ ret' = "none"
  /\ started' = FALSE /\ rules' = <<>> /\ i' = 1
  /\ UNCHANGED <<driverVars, service>>

(* The file of the driver is looked for in the directory of the program,   *)
(* then in system32\Drivers; in the second case ("file") pathBuffer is     *)
(* freed twice, which the program may survive or not.                      *)
InitDriver ==
  /\ pc = "init"
  /\ \/ initialized' = TRUE /\ pc' = "load" /\ UNCHANGED handle
     \/ (Fails("memory") \/ Fails("file")) /\ GivesUp /\ UNCHANGED initialized
  /\ UNCHANGED <<driverVars, service, registered, running, removable, ret, started, rules, i>>

LoadDriver ==
  /\ pc = "load" /\ ~registered
  /\ \/ /\ service' = IF service = "absent" THEN "stopped" ELSE service
        /\ registered' = TRUE /\ pc' = "start" /\ UNCHANGED handle
     \/ /\ Fails("scm") \/ Fails("service")
        /\ GivesUp /\ UNCHANGED <<service, registered>>
  /\ UNCHANGED <<driverVars, initialized, running, removable, ret, started, rules, i>>

(* A driver that is running already was started by another program: the    *)
(* service will not be deleted.                                            *)
StartDriver ==
  /\ pc = "start" /\ ~running
  /\ \/ /\ service = "running"
        /\ removable' = FALSE /\ running' = TRUE /\ pc' = "open"
        /\ UNCHANGED <<driverVars, service, handle>>
     \/ /\ service = "stopped" /\ DriverEntry
        /\ IF image' = "loaded"
           THEN service' = "running" /\ running' = TRUE /\ pc' = "open" /\ UNCHANGED handle
           ELSE GivesUp /\ UNCHANGED <<service, running>>
        /\ UNCHANGED removable
     \/ /\ Fails("scm") \/ Fails("service")
        /\ GivesUp /\ UNCHANGED <<driverVars, service, running, removable>>
  /\ UNCHANGED <<initialized, registered, ret, started, rules, i>>

OpenDevice ==
  /\ pc = "open"
  /\ \/ handle' = TRUE /\ pc' = "ui"
     \/ Fails("open") /\ GivesUp
  /\ UNCHANGED <<driverVars, service, initialized, registered, running, removable, ret,
                 started, rules, i>>
-----------------------------------------------------------------------------
(* A command of the window; WriteIo sends it by the handle. *)
UI == pc = "ui" /\ request = "none"
AppUnchanged == UNCHANGED <<service, tdriverVars>>

OnButtonstart ==
  /\ UI /\ ~started /\ handle /\ START_IP_HOOK /\ started' = TRUE
  /\ AppUnchanged /\ UNCHANGED <<pc, rules, i>>

StartedAfterStop_bug == started               \* the window is not told
StartedAfterStop == FALSE
OnButtonstop ==
  /\ UI /\ started /\ handle /\ STOP_IP_HOOK /\ started' = StartedAfterStop
  /\ AppUnchanged /\ UNCHANGED <<pc, rules, i>>

OnButtondesinstall ==
  /\ UI /\ handle /\ CLEAR_FILTER
  /\ AppUnchanged /\ UNCHANGED <<pc, started, rules, i>>

OnButtoninstall ==
  /\ UI /\ i' = 1 /\ pc' = "install"
  /\ AppUnchanged /\ UNCHANGED <<driverVars, started, rules>>

(* The request succeeds whether or not the driver had memory for the rule, *)
(* so that the loop always goes on.                                        *)
AddFilterToFw ==
  /\ pc = "install" /\ handle /\ request = "none"
  /\ IF i <= Len(rules) THEN ADD_FILTER(rules[i]) /\ i' = i + 1 /\ UNCHANGED pc
                        ELSE pc' = "ui" /\ UNCHANGED <<driverVars, i>>
  /\ AppUnchanged /\ UNCHANGED <<started, rules>>

AddRule(r) ==
  /\ UI /\ Len(rules) < MaxRules /\ rules' = Append(rules, r)
  /\ AppUnchanged /\ UNCHANGED <<driverVars, pc, started, i>>

DeleteRule(position) ==
  /\ UI
  /\ rules' = [k \in 1..Len(rules)-1 |-> IF k < position THEN rules[k] ELSE rules[k+1]]
  /\ AppUnchanged /\ UNCHANGED <<driverVars, pc, started, i>>

(* ResetRules and an AddRule for every record of the file, until one fails *)
(* because there is no room.                                               *)
OnLoadRules ==
  /\ UI /\ \E f \in Files :
               rules' = IF Len(f) <= MaxRules THEN f ELSE SubSeq(f, 1, MaxRules)
  /\ AppUnchanged /\ UNCHANGED <<driverVars, pc, started, i>>
-----------------------------------------------------------------------------
(* The destructor of TDriver: the handle is closed, then UnloadDriver.     *)
Quit ==
  /\ UI /\ pc' = "stop" /\ handle' = FALSE
  /\ UNCHANGED <<driverVars, service, initialized, registered, running, removable, ret,
                 started, rules, i>>

Ends(code) == pc' = "gone" /\ ret' = code

(* StopDriver: ControlService returns when DrvUnload has. *)
StopDriver ==
  /\ pc = "stop" /\ running
  /\ \/ /\ service = "running" /\ DrvUnload
        /\ service' = "stopped" /\ pc' = "stopped" /\ UNCHANGED ret
     \/ /\ Fails("scm") \/ Fails("service") \/ Fails("stop")
        /\ Ends("error") /\ UNCHANGED <<driverVars, service>>
  /\ UNCHANGED <<initialized, registered, running, removable, handle, started, rules, i>>

(* The rest of UnloadDriver: the service is deleted when it is removable,  *)
(* and TDriver forgets its names only when nothing failed.                 *)
MayDelete_bug == TRUE                        \* whoever started it
MayDelete == removable
UnloadDriver ==
  /\ pc = "stopped" /\ request = "none"
  /\ running' = FALSE
  /\ \/ /\ ~MayDelete /\ initialized' = FALSE
        /\ Ends("success") /\ UNCHANGED <<service, registered>>
     \/ /\ MayDelete /\ service' = "absent" /\ registered' = FALSE /\ initialized' = FALSE
        /\ Ends("success")
     \/ /\ MayDelete /\ (Fails("scm") \/ Fails("service") \/ Fails("delete"))
        /\ Ends("error") /\ UNCHANGED <<service, registered, initialized>>
  /\ UNCHANGED <<driverVars, removable, handle, started, rules, i>>

(* The program is killed: the system closes its handle when the driver has *)
(* done the request.                                                       *)
Killed ==
  /\ pc # "gone" /\ request = "none" /\ GivesUp
  /\ UNCHANGED <<driverVars, service, initialized, registered, running, removable, ret,
                 started, rules, i>>
-----------------------------------------------------------------------------
(* What runs in the driver after a step of the program began it. *)
Driver == /\ AddFilterToList \/ ClearFilterList
          /\ UNCHANGED <<service, pc, tdriverVars, started, rules, i>>
Callback == /\ \E c \in Cpus : \/ \E p \in Packets : cbFilterFunction(c, p)
                               \/ FilterPacket(c) \/ Stray(c)
            /\ UNCHANGED <<service, pc, tdriverVars, started, rules, i>>

Next ==
  /\ ~crashed
  /\ \/ Launch \/ InitDriver \/ LoadDriver \/ StartDriver \/ OpenDevice
     \/ OnButtonstart \/ OnButtonstop \/ OnButtoninstall \/ AddFilterToFw
     \/ OnButtondesinstall \/ OnLoadRules
     \/ \E r \in Rules : AddRule(r)
     \/ \E position \in DOMAIN rules : DeleteRule(position)
     \/ Quit \/ StopDriver \/ UnloadDriver \/ Killed
     \/ Driver \/ Callback

Spec == Init /\ [][Next]_vars
-----------------------------------------------------------------------------
(* Every variable has its type. *)
TypeOK ==
  /\ DriverTypeOK
  /\ service \in {"absent", "stopped", "running"}
  /\ pc \in {"gone", "init", "load", "start", "open", "ui", "install", "stop", "stopped"}
  /\ {initialized, registered, running, removable, handle, started} \subseteq BOOLEAN
  /\ ret \in {"none", "success", "error"}
  /\ rules \in Seq(Rules) /\ Len(rules) <= MaxRules
  /\ i \in 1..MaxRules + 1

(* s is the list: all the nodes that are allocated, from first on. *)
Lists(s) ==
  /\ \A n \in live : \E k \in DOMAIN s : s[k] = n
  /\ first = IF live = {} THEN NULL ELSE s[1]
  /\ \A k \in DOMAIN s : next[s[k]] = IF k = Cardinality(live) THEN NULL ELSE s[k+1]
Orders == {s \in [1..Cardinality(live) -> live] : Lists(s)}

(* Between the requests the list is one: it reaches all nodes that are     *)
(* allocated, ends at last, and is empty when last is NULL, whatever       *)
(* failed, and whatever program sent the requests.                         *)
ListIsLive ==
  request = "none" =>
    \E s \in Orders : last = IF live = {} THEN NULL ELSE s[Cardinality(live)]

(* When the driver has left memory, the IP driver does not call it, no     *)
(* callback is inside it and nothing it allocated is left.                 *)
NothingAfterUnload ==
  image = "absent" => ~hook /\ ~loaded /\ Walking = {} /\ live = {}

(* What the program takes for true of the driver is true, also after it    *)
(* was killed and another one found the driver running: the window shows   *)
(* "started" only when the driver has been told so, and when UnloadDriver  *)
(* returns DRV_SUCCESS the driver is out of memory, its service deleted    *)
(* unless another program had started it.                                  *)
StartedIsLoaded == pc \in {"ui", "install"} /\ started => loaded
UnloadMeansGone ==
  pc = "gone" /\ ret = "success" =>
    /\ image = "absent" /\ ~initialized
    /\ service = IF removable THEN "absent" ELSE "stopped"
KnowsTheDriver == StartedIsLoaded /\ UnloadMeansGone

(* "For tcp packets of accepted conexions, pass packets in both            *)
(* directions": a rule answers what it covers, and for a segment to its    *)
(* source that does not open a connection, what the reverse one would be.  *)
Covers(r, p) == /\ r.proto \in {Wild, p.proto}
                /\ In(p.src, r.src) /\ In(p.dst, r.dst)
                /\ p.proto \in {"tcp", "udp"} => Port(p.sport, r.sport) /\ Port(p.dport, r.dport)
Reverse(p) == [p EXCEPT !.src = p.dst, !.dst = p.src, !.sport = p.dport, !.dport = p.sport]
Answers(r, p) ==
  \/ Covers(r, p)
  \/ p.proto = "tcp" /\ ~p.opens /\ ~In(p.src, r.src) /\ Covers(r, Reverse(p))

(* A callback that no request disturbs answers what the first rule of the  *)
(* list that answers the packet says, and FORWARD when there is none.      *)
Verdict(s, p) ==
  LET hits == {k \in DOMAIN s : Answers(rule[s[k]], p)} IN
  IF \E k \in hits : (\A j \in hits : k <= j) /\ rule[s[k]].drop THEN "DROP" ELSE "FORWARD"
AnswersFirstMatch ==
  [][\A c \in Cpus : c \in Walking /\ at'[c] = Idle /\ ~disturbed[c] =>
       \E s \in Orders : answer'[c] = Verdict(s, pkt[c])]_vars
=============================================================================
