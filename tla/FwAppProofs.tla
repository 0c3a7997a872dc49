----------------------------- MODULE FwAppProofs -----------------------------
(***************************************************************************)
(* Proofs about FwApp and FwHookDrv: for any rules, packets, processors    *)
(* and size of the pool, and whatever calls fail, the list of the hook     *)
(* driver is one between the requests, an undisturbed callback answers     *)
(* by the first rule, and what the program takes for true of the driver    *)
(* is true.  That nothing is left of a driver that was unloaded needs the  *)
(* IP driver to accept the removal of the callback.                        *)
(***************************************************************************)
EXTENDS FwApp, FiniteSetTheorems, TLAPS

(* The m nodes of the list in their order; the last one of them points     *)
(* nowhere until AddFilterToList has set its next.                         *)
Chain(m, s) ==
  /\ \A j, k \in 1..m : s[j] = s[k] => j = k
  /\ live = {s[k] : k \in 1..m}
  /\ first = IF m = 0 THEN NULL ELSE s[1]
  /\ \A k \in 1..m : next[s[k]] = IF k # m THEN s[k+1]
                                  ELSE IF request = "add" THEN Garbage ELSE NULL

LastOK(m, s) ==
  /\ request \in {"none", "add"} => last = IF m = 0 THEN NULL ELSE s[m]
  /\ request = "add" => m # 0

(* A callback that no request disturbed is at a place of the list, and no  *)
(* rule before that place answers its packet.                              *)
WalkOK(m, s, c) ==
  at[c] # Idle /\ ~disturbed[c] =>
    /\ request # "add"
    /\ \E k \in 1..m+1 : /\ at[c] = IF k = m + 1 THEN NULL ELSE s[k]
                         /\ \A j \in 1..k-1 : ~Matches(rule[s[j]], pkt[c])

ListInv == \E m \in Nat : \E s \in [1..m -> Nodes] :
             Chain(m, s) /\ LastOK(m, s) /\ \A c \in Cpus : WalkOK(m, s, c)

(* Where the program is tells what the service manager and the driver are  *)
(* doing; the driver is only ever asked while it is in memory.             *)
ProgramInv ==
  /\ request = "add" => pc = "install"
  /\ request = "clear" => pc = "ui"
  /\ request = "unload" => pc = "stopped" /\ image = "loaded" /\ service = "stopped" /\ ~loaded
  /\ request # "unload" => (service = "running" <=> image = "loaded")
  /\ pc \in {"open", "ui", "install", "stop"} => service = "running"
  /\ pc = "stopped" => service = "stopped"
  /\ pc \in {"init", "load", "start", "open"} => ~started
  /\ pc \in {"ui", "install"} /\ started => loaded
  /\ pc # "gone" => ret = "none"
  /\ UnloadMeansGone
  /\ image = "absent" => ~loaded /\ live = {}

(* The IP driver calls only what it was given and has not yet given back.  *)
HookInv == "unregister" \notin Faults => (hook => loaded) /\ (~hook => Walking = {})

IInv == TypeOK /\ ListInv /\ ProgramInv /\ HookInv
-----------------------------------------------------------------------------
LEMMA InitOK == Init => IInv
PROOF
<1>. SUFFICES ASSUME Init PROVE IInv
  OBVIOUS
<1>1. (CHOOSE r \in Rules : TRUE) \in Rules /\ (CHOOSE p \in Packets : TRUE) \in Packets
  BY InputsAssumption
<1>2. TypeOK
  <2>1. rules \in Seq(Rules) /\ Len(rules) <= MaxRules
    BY MaxRulesAssumption DEF Init
  <2>2. i \in 1..MaxRules + 1
    BY MaxRulesAssumption DEF Init
  <2>. QED
    BY <1>1, <2>1, <2>2 DEF Init, DriverInit, TypeOK, DriverTypeOK, Pointers
<1>3. ListInv
  <2>. DEFINE e == [k \in 1..0 |-> NULL]
  <2>1. e \in [1..0 -> Nodes] /\ 1..0 = {}
    OBVIOUS
  <2>2. Chain(0, e) /\ LastOK(0, e) /\ \A c \in Cpus : WalkOK(0, e, c)
    BY <2>1 DEF Init, DriverInit, Chain, LastOK, WalkOK
  <2>. QED
    BY <2>1, <2>2 DEF ListInv
<1>4. ProgramInv
  BY DEF Init, DriverInit, ProgramInv, UnloadMeansGone
<1>5. HookInv
  BY DEF Init, DriverInit, HookInv, Walking
<1>. QED
  BY <1>2, <1>3, <1>4, <1>5 DEF IInv

(* A step that writes neither the list nor a callback. *)
LEMMA ListSame ==
  ASSUME ListInv, UNCHANGED <<listVars, walkVars, disturbed>>,
         request' = request \/ (request = "none" /\ request' \in {"clear", "unload"})
  PROVE  ListInv'
PROOF
<1>. USE DEF listVars, walkVars
<1>1. PICK m \in Nat : \E s \in [1..m -> Nodes] :
        Chain(m, s) /\ LastOK(m, s) /\ \A c \in Cpus : WalkOK(m, s, c)
  BY DEF ListInv
<1>2. PICK s \in [1..m -> Nodes] :
        Chain(m, s) /\ LastOK(m, s) /\ \A c \in Cpus : WalkOK(m, s, c)
  BY <1>1
<1>3. Chain(m, s)' /\ LastOK(m, s)'
  BY <1>2 DEF Chain, LastOK
<1>4. ASSUME NEW c \in Cpus PROVE WalkOK(m, s, c)'
  <2>1. WalkOK(m, s, c)
    BY <1>2
  <2>. QED
    BY <2>1 DEF WalkOK
<1>. QED
  BY <1>3, <1>4 DEF ListInv

LEMMA DriverSame ==
  ASSUME IInv, UNCHANGED driverVars
  PROVE  DriverTypeOK' /\ ListInv' /\ HookInv'
PROOF
<1>1. ListInv'
  BY ListSame DEF IInv, driverVars
<1>2. HookInv'
  BY DEF IInv, HookInv, Walking, driverVars, walkVars
<1>3. DriverTypeOK'
  BY DEF IInv, TypeOK, DriverTypeOK, driverVars, listVars, walkVars
<1>. QED
  BY <1>1, <1>2, <1>3
-----------------------------------------------------------------------------
(* The lemmas named Keeps... : an action preserves the invariant.  First   *)
(* those of the constructor of CMainFrame.                                 *)
LEMMA KeepsLaunch ==
  ASSUME IInv, Launch
  PROVE  IInv'
PROOF
<1>. USE DEF Launch
<1>1. TypeOK'
  <2>1. <<>> \in Seq(Rules) /\ Len(<<>>) <= MaxRules /\ 1 \in 1..MaxRules + 1
    BY MaxRulesAssumption
  <2>. QED
    BY <2>1, DriverSame DEF IInv, TypeOK
<1>2. ProgramInv'
  BY DEF IInv, ProgramInv, UnloadMeansGone, driverVars, listVars
<1>. QED
  BY <1>1, <1>2, DriverSame DEF IInv

LEMMA KeepsInitDriver ==
  ASSUME IInv, InitDriver
  PROVE  IInv'
PROOF
<1>. USE DEF InitDriver, GivesUp
<1>1. TypeOK'
  <2>1. {initialized', handle'} \subseteq BOOLEAN /\ pc' \in {"load", "gone"}
    BY DEF IInv, TypeOK
  <2>. QED
    BY <2>1, DriverSame DEF IInv, TypeOK
<1>2. ProgramInv'
  BY DEF IInv, ProgramInv, UnloadMeansGone, TypeOK, driverVars, listVars
<1>. QED
  BY <1>1, <1>2, DriverSame DEF IInv

LEMMA KeepsLoadDriver ==
  ASSUME IInv, LoadDriver
  PROVE  IInv'
PROOF
<1>. USE DEF LoadDriver, GivesUp
<1>1. TypeOK'
  <2>1. {registered', handle'} \subseteq BOOLEAN /\ pc' \in {"start", "gone"}
    BY DEF IInv, TypeOK
  <2>2. service' \in {"absent", "stopped", "running"}
    BY DEF IInv, TypeOK
  <2>. QED
    BY <2>1, <2>2, DriverSame DEF IInv, TypeOK
<1>2. ProgramInv'
  BY DEF IInv, ProgramInv, UnloadMeansGone, TypeOK, driverVars, listVars
<1>. QED
  BY <1>1, <1>2, DriverSame DEF IInv

LEMMA KeepsStartDriver ==
  ASSUME IInv, StartDriver
  PROVE  IInv'
PROOF
<1>1. /\ UNCHANGED <<loaded, hook, listVars, request, walkVars, disturbed>>
      /\ UNCHANGED <<initialized, registered, ret, started, rules, i>>
      /\ image' \in {image, "loaded"} /\ crashed' \in {crashed, TRUE}
      /\ service' \in {service, "running"} /\ pc' \in {"open", "gone"}
      /\ running' \in {running, TRUE} /\ removable' \in {removable, FALSE}
      /\ handle' \in {handle, FALSE}
  BY DEF StartDriver, DriverEntry, GivesUp, driverVars
<1>2. DriverTypeOK'
  BY <1>1 DEF IInv, TypeOK, DriverTypeOK, listVars, walkVars
<1>3. TypeOK'
  <2>1. {running', removable', handle'} \subseteq BOOLEAN
    BY <1>1 DEF IInv, TypeOK
  <2>. QED
    BY <1>1, <1>2, <2>1 DEF IInv, TypeOK
<1>4. ProgramInv'
  <2>1. \/ service' = "running" /\ image' = "loaded" /\ pc' = "open"
        \/ UNCHANGED <<service, image>> /\ pc' = "gone"
    BY DEF StartDriver, DriverEntry, GivesUp, driverVars, IInv, ProgramInv
  <2>2. request = "none" /\ pc = "start"
    BY DEF StartDriver, IInv, ProgramInv, DriverTypeOK, TypeOK
  <2>. QED
    BY <1>1, <2>1, <2>2 DEF IInv, ProgramInv, UnloadMeansGone, listVars
<1>5. ListInv' /\ HookInv'
  BY <1>1, ListSame DEF IInv, HookInv, Walking, walkVars
<1>. QED
  BY <1>3, <1>4, <1>5 DEF IInv

LEMMA KeepsOpenDevice ==
  ASSUME IInv, OpenDevice
  PROVE  IInv'
PROOF
<1>. USE DEF OpenDevice, GivesUp
<1>1. TypeOK'
  <2>1. handle' \in BOOLEAN /\ pc' \in {"ui", "gone"}
    OBVIOUS
  <2>. QED
    BY <2>1, DriverSame DEF IInv, TypeOK
<1>2. ProgramInv'
  BY DEF IInv, ProgramInv, UnloadMeansGone, TypeOK, driverVars, listVars
<1>. QED
  BY <1>1, <1>2, DriverSame DEF IInv

LEMMA KeepsUnloadDriver ==
  ASSUME IInv, Quit \/ UnloadDriver \/ Killed
  PROVE  IInv'
PROOF
<1>. USE DEF Quit, UnloadDriver, Killed, UI, Ends, MayDelete, GivesUp
<1>1. /\ UNCHANGED <<driverVars, removable, started, rules, i>>
      /\ pc' \in {"stop", "gone"} /\ service' \in {service, "absent"}
      /\ initialized' \in {initialized, FALSE} /\ registered' \in {registered, FALSE}
      /\ running' \in {running, FALSE} /\ handle' \in {handle, FALSE}
      /\ ret' \in {ret, "success", "error"}
  OBVIOUS
<1>2. TypeOK'
  <2>1. {initialized', registered', running', removable', handle', started'} \subseteq BOOLEAN
    BY <1>1 DEF IInv, TypeOK
  <2>. QED
    BY <1>1, <2>1, DriverSame DEF IInv, TypeOK
<1>3. ProgramInv'
  <2>. USE DEF ProgramInv, UnloadMeansGone, driverVars, listVars
  <2>1. CASE Quit
    BY <2>1 DEF IInv
  <2>2. CASE UnloadDriver
    <3>1. image = "absent" /\ service = "stopped"
      BY <2>2 DEF IInv, TypeOK, DriverTypeOK
    <3>. QED
      BY <2>2, <3>1 DEF IInv
  <2>3. CASE Killed
    BY <2>3 DEF IInv
  <2>. QED
    BY <2>1, <2>2, <2>3
<1>. QED
  BY <1>1, <1>2, <1>3, DriverSame DEF IInv

LEMMA KeepsStopDriver ==
  ASSUME IInv, StopDriver
  PROVE  IInv'
PROOF
<1>. USE DEF StopDriver, DrvUnload, MustUninstall, SetFilterFunction, Ends, driverVars, listVars, walkVars
<1>1. TypeOK'
  BY DEF IInv, TypeOK, DriverTypeOK
<1>2. ProgramInv'
  BY DEF IInv, ProgramInv, UnloadMeansGone, TypeOK, DriverTypeOK
<1>3. /\ UNCHANGED <<listVars, walkVars, disturbed>>
      /\ request' = request \/ (request = "none" /\ request' \in {"clear", "unload"})
  OBVIOUS
<1>4. ListInv'
  BY <1>3, ListSame DEF IInv
<1>5. HookInv'
  BY DEF IInv, HookInv, Walking, TypeOK, DriverTypeOK
<1>. QED
  BY <1>1, <1>2, <1>4, <1>5 DEF IInv
-----------------------------------------------------------------------------
(* The commands of the window. *)
LEMMA KeepsStartStop ==
  ASSUME IInv, OnButtonstart \/ OnButtonstop \/ OnButtondesinstall
  PROVE  IInv'
PROOF
<1>. USE DEF UI, AppUnchanged, listVars, walkVars, tdriverVars
<1>1. CASE OnButtonstart
  <2>. USE <1>1 DEF OnButtonstart, START_IP_HOOK, SetFilterFunction
  <2>1. TypeOK'
    BY DEF IInv, TypeOK, DriverTypeOK
  <2>2. ProgramInv'
    BY DEF IInv, ProgramInv, UnloadMeansGone, TypeOK, DriverTypeOK
  <2>3. ListInv'
    BY ListSame DEF IInv
  <2>4. HookInv'
    BY DEF IInv, HookInv, Walking, TypeOK, DriverTypeOK
  <2>. QED
    BY <2>1, <2>2, <2>3, <2>4 DEF IInv
<1>2. CASE OnButtonstop
  <2>. USE <1>2 DEF OnButtonstop, STOP_IP_HOOK, SetFilterFunction, StartedAfterStop
  <2>1. TypeOK'
    BY DEF IInv, TypeOK, DriverTypeOK
  <2>2. ProgramInv'
    BY DEF IInv, ProgramInv, UnloadMeansGone, TypeOK, DriverTypeOK
  <2>3. ListInv'
    BY ListSame DEF IInv
  <2>4. HookInv'
    BY DEF IInv, HookInv, Walking, TypeOK, DriverTypeOK
  <2>. QED
    BY <2>1, <2>2, <2>3, <2>4 DEF IInv
<1>3. CASE OnButtondesinstall
  <2>. USE <1>3 DEF OnButtondesinstall, CLEAR_FILTER
  <2>1. TypeOK'
    BY DEF IInv, TypeOK, DriverTypeOK
  <2>2. ProgramInv'
    BY DEF IInv, ProgramInv, UnloadMeansGone, TypeOK, DriverTypeOK
  <2>3. ListInv'
    BY ListSame DEF IInv
  <2>4. HookInv'
    BY DEF IInv, HookInv, Walking, TypeOK, DriverTypeOK
  <2>. QED
    BY <2>1, <2>2, <2>3, <2>4 DEF IInv
<1>. QED
  BY <1>1, <1>2, <1>3

(* The document: its rules stay a sequence of at most MaxRules.            *)
LEMMA KeepsRules ==
  ASSUME IInv, \/ OnLoadRules \/ OnButtoninstall \/ \E r \in Rules : AddRule(r)
               \/ \E position \in DOMAIN rules : DeleteRule(position)
  PROVE  IInv'
PROOF
<1>. USE DEF UI, AppUnchanged, tdriverVars
<1>1. /\ UNCHANGED <<driverVars, service, initialized, registered, running, removable, handle,
                     ret, started>>
      /\ pc = "ui" /\ pc' \in {"ui", "install"} /\ i' \in {i, 1}
  BY DEF OnLoadRules, OnButtoninstall, AddRule, DeleteRule
<1>2. rules' \in Seq(Rules) /\ Len(rules') <= MaxRules
  <2>1. rules \in Seq(Rules) /\ Len(rules) \in Nat /\ Len(rules) <= MaxRules
    BY DEF IInv, TypeOK, DriverTypeOK
  <2>2. ASSUME OnLoadRules PROVE rules' \in Seq(Rules) /\ Len(rules') <= MaxRules
    <3>1. PICK f \in Files : rules' = IF Len(f) <= MaxRules THEN f ELSE SubSeq(f, 1, MaxRules)
      BY <2>2 DEF OnLoadRules
    <3>2. f \in Seq(Rules) /\ Len(f) \in Nat
      BY FilesAssumption
    <3>3. CASE Len(f) <= MaxRules
      BY <3>1, <3>2, <3>3
    <3>4. CASE ~ (Len(f) <= MaxRules)
      <4>1. rules' = SubSeq(f, 1, MaxRules) /\ \A k \in 1..MaxRules : k \in 1..Len(f)
        BY <3>1, <3>2, <3>4, MaxRulesAssumption
      <4>2. \A k \in 1..MaxRules : f[k] \in Rules
        BY <3>2, <4>1
      <4>3. SubSeq(f, 1, MaxRules) = [k \in 1..MaxRules |-> f[k]]
        BY <3>2, MaxRulesAssumption
      <4>4. [k \in 1..MaxRules |-> f[k]] \in Seq(Rules) /\ Len([k \in 1..MaxRules |-> f[k]]) = MaxRules
        BY <4>2, MaxRulesAssumption
      <4>. QED
        BY <4>1, <4>3, <4>4, MaxRulesAssumption
    <3>. QED
      BY <3>3, <3>4
  <2>3. ASSUME NEW r \in Rules, AddRule(r) PROVE rules' \in Seq(Rules) /\ Len(rules') <= MaxRules
    BY <2>1, <2>3, MaxRulesAssumption DEF AddRule
  <2>4. ASSUME NEW position \in DOMAIN rules, DeleteRule(position)
        PROVE  rules' \in Seq(Rules) /\ Len(rules') <= MaxRules
    <3>. DEFINE t == [k \in 1..Len(rules)-1 |-> IF k < position THEN rules[k] ELSE rules[k+1]]
    <3>1. Len(rules)-1 \in Nat
      BY <2>1, <2>4
    <3>2. ASSUME NEW k \in 1..Len(rules)-1
          PROVE  (IF k < position THEN rules[k] ELSE rules[k+1]) \in Rules
      <4>1. k \in 1..Len(rules) /\ k+1 \in 1..Len(rules)
        BY <2>1
      <4>. QED
        BY <2>1, <4>1
    <3>3. t \in Seq(Rules) /\ Len(t) = Len(rules)-1
      BY <3>1, <3>2
    <3>. QED
      BY <2>1, <2>4, <3>1, <3>3, MaxRulesAssumption DEF DeleteRule
  <2>5. ASSUME OnButtoninstall PROVE rules' \in Seq(Rules) /\ Len(rules') <= MaxRules
    BY <2>1, <2>5 DEF OnButtoninstall
  <2>. QED
    BY <2>2, <2>3, <2>4, <2>5
<1>3. i' \in 1..MaxRules + 1
  BY <1>1, MaxRulesAssumption DEF IInv, TypeOK, DriverTypeOK
<1>4. TypeOK'
  BY <1>1, <1>2, <1>3 DEF IInv, TypeOK, DriverTypeOK, driverVars, listVars, walkVars
<1>5. ProgramInv'
  <2>1. request = "none"
    BY DEF OnLoadRules, OnButtoninstall, AddRule, DeleteRule
  <2>. QED
    BY <1>1, <2>1 DEF IInv, ProgramInv, UnloadMeansGone, driverVars, listVars
<1>. QED
  BY <1>1, <1>4, <1>5, DriverSame DEF IInv
-----------------------------------------------------------------------------
(* The list grows at its end, and is taken down from its head. *)
LEMMA ListGrows ==
  ASSUME IInv, NEW r \in Rules, NEW n \in Nodes \ live, request = "none",
         live' = live \cup {n}, rule' = [rule EXCEPT ![n] = r],
         IF first = NULL THEN first' = n /\ next' = [next EXCEPT ![n] = Garbage]
         ELSE next' = [next EXCEPT ![n] = Garbage, ![last] = n] /\ UNCHANGED first,
         last' = n, request' = "add", Disturb, UNCHANGED walkVars
  PROVE  ListInv'
PROOF
<1>1. PICK m \in Nat : \E s \in [1..m -> Nodes] :
        Chain(m, s) /\ LastOK(m, s) /\ \A c \in Cpus : WalkOK(m, s, c)
  BY DEF IInv, ListInv
<1>2. PICK s \in [1..m -> Nodes] : Chain(m, s) /\ LastOK(m, s)
  BY <1>1
<1>3. /\ \A j, k \in 1..m : s[j] = s[k] => j = k
      /\ live = {s[k] : k \in 1..m}
      /\ first = IF m = 0 THEN NULL ELSE s[1]
      /\ \A k \in 1..m : next[s[k]] = IF k # m THEN s[k+1] ELSE NULL
      /\ last = IF m = 0 THEN NULL ELSE s[m]
      /\ \A k \in 1..m : s[k] \in Nodes /\ s[k] # n
      /\ NULL \notin Nodes /\ next \in [Nodes -> Pointers]
  BY <1>2, NodesAssumption DEF Chain, LastOK, IInv, TypeOK, DriverTypeOK
<1>4. first = NULL <=> m = 0
  <2>1. m # 0 => 1 \in 1..m
    BY <1>1
  <2>. QED
    BY <1>3, <2>1
<1>. DEFINE t == [k \in 1..m+1 |-> IF k = m+1 THEN n ELSE s[k]]
<1>5. \A k \in 1..m+1 : k = m+1 \/ k \in 1..m
  BY <1>1
<1>6. /\ m+1 \in Nat /\ m+1 # 0 /\ t \in [1..m+1 -> Nodes]
      /\ t[m+1] = n /\ \A k \in 1..m : k # m+1 /\ t[k] = s[k]
  BY <1>1, <1>3, <1>5
<1>. HIDE DEF t
<1>7. \A j, k \in 1..m+1 : t[j] = t[k] => j = k
  BY <1>3, <1>5, <1>6
<1>8. live' = {t[k] : k \in 1..m+1}
  <2>1. {t[k] : k \in 1..m+1} = {s[k] : k \in 1..m} \cup {n}
    <3>1. ASSUME NEW k \in 1..m+1 PROVE t[k] \in {s[j] : j \in 1..m} \cup {n}
      BY <1>5, <1>6
    <3>2. ASSUME NEW k \in 1..m PROVE \E j \in 1..m+1 : t[j] = s[k]
      BY <1>1, <1>6
    <3>3. m+1 \in 1..m+1
      BY <1>1
    <3>. QED
      BY <1>6, <3>1, <3>2, <3>3
  <2>. QED
    BY <1>3, <2>1
<1>9. first' = t[1]
  <2>1. CASE m = 0
    BY <1>4, <1>6, <2>1
  <2>2. CASE m # 0
    <3>1. 1 \in 1..m
      BY <1>1, <2>2
    <3>. QED
      BY <1>3, <1>4, <1>6, <2>2, <3>1
  <2>. QED
    BY <2>1, <2>2
<1>10. ASSUME NEW k \in 1..m+1
       PROVE  next'[t[k]] = IF k # m+1 THEN t[k+1] ELSE Garbage
  <2>1. CASE m = 0
    <3>1. k = m+1
      BY <2>1
    <3>. QED
      BY <1>3, <1>4, <1>6, <2>1, <3>1
  <2>2. CASE m # 0
    <3>1. /\ last = s[m] /\ last \in Nodes /\ last # n /\ m \in 1..m
          /\ next' = [next EXCEPT ![n] = Garbage, ![last] = n]
      BY <1>1, <1>3, <1>4, <2>2
    <3>2. \A x \in Nodes : next'[x] = IF x = last THEN n ELSE IF x = n THEN Garbage ELSE next[x]
      BY <1>3, <3>1
    <3>3. CASE k = m+1
      <4>1. t[k] = n /\ n \in Nodes /\ n # last
        BY <1>6, <3>1, <3>3
      <4>. QED
        BY <3>2, <3>3, <4>1
    <3>4. CASE k # m+1 /\ k # m
      <4>1. k \in 1..m /\ k+1 \in 1..m
        BY <1>1, <3>4
      <4>2. t[k] = s[k] /\ t[k+1] = s[k+1] /\ s[k] # last /\ s[k] # n /\ s[k] \in Nodes
        BY <1>3, <1>6, <3>1, <3>4, <4>1
      <4>3. next[s[k]] = s[k+1]
        BY <1>3, <3>4, <4>1
      <4>. QED
        BY <3>2, <3>4, <4>2, <4>3
    <3>5. CASE k = m
      <4>1. t[k] = last /\ t[k+1] = n /\ k # m+1
        BY <1>6, <3>1, <3>5
      <4>. QED
        BY <3>1, <3>2, <4>1
    <3>. QED
      BY <3>3, <3>4, <3>5
  <2>. QED
    BY <2>1, <2>2
<1>11. Chain(m+1, t)'
  BY <1>6, <1>7, <1>8, <1>9, <1>10 DEF Chain
<1>12. LastOK(m+1, t)'
  BY <1>6 DEF LastOK
<1>13. ASSUME NEW c \in Cpus PROVE WalkOK(m+1, t, c)'
  <2>1. at'[c] # Idle => disturbed'[c]
    BY DEF Disturb, Walking, walkVars
  <2>. QED
    BY <2>1 DEF WalkOK
<1>. QED
  BY <1>6, <1>11, <1>12, <1>13 DEF ListInv

LEMMA KeepsAddFilterToFw ==
  ASSUME IInv, AddFilterToFw
  PROVE  IInv'
PROOF
<1>. USE DEF AddFilterToFw, AppUnchanged, tdriverVars
<1>1. CASE i <= Len(rules) /\ ADD_FILTER(rules[i]) /\ i' = i + 1 /\ UNCHANGED pc
  <2>1. /\ i \in 1..MaxRules /\ i + 1 \in 1..MaxRules + 1
        /\ rules[i] \in Rules
    BY <1>1, MaxRulesAssumption DEF IInv, TypeOK, DriverTypeOK
  <2>2. /\ UNCHANGED <<image, loaded, hook, walkVars, crashed, service, pc, tdriverVars, started, rules>>
        /\ request = "none" /\ pc = "install" /\ i' = i + 1
    BY <1>1 DEF ADD_FILTER
  <2>3. CASE UNCHANGED <<listVars, request, disturbed>>
    <3>1. TypeOK'
      BY <2>1, <2>2, <2>3 DEF IInv, TypeOK, DriverTypeOK, listVars, walkVars
    <3>2. ProgramInv'
      BY <2>2, <2>3 DEF IInv, ProgramInv, UnloadMeansGone, listVars
    <3>3. ListInv'
      BY <2>2, <2>3, ListSame DEF IInv
    <3>4. HookInv'
      BY <2>2 DEF IInv, HookInv, Walking, walkVars
    <3>. QED
      BY <3>1, <3>2, <3>3, <3>4 DEF IInv
  <2>4. ASSUME NEW n \in Nodes \ live,
               live' = live \cup {n}, rule' = [rule EXCEPT ![n] = rules[i]],
               IF first = NULL THEN first' = n /\ next' = [next EXCEPT ![n] = Garbage]
               ELSE next' = [next EXCEPT ![n] = Garbage, ![last] = n] /\ UNCHANGED first,
               last' = n, request' = "add", Disturb
        PROVE  IInv'
    <3>1. first' \in Pointers /\ next' \in [Nodes -> Pointers]
      BY <2>4 DEF IInv, TypeOK, DriverTypeOK, Pointers
    <3>2. rule' \in [Nodes -> Rules] /\ live' \subseteq Nodes /\ last' \in Nodes \cup {NULL}
      BY <2>1, <2>4 DEF IInv, TypeOK, DriverTypeOK
    <3>3. disturbed' \in [Cpus -> BOOLEAN]
      BY <2>4 DEF Disturb
    <3>4. TypeOK'
      BY <2>1, <2>2, <2>4, <3>1, <3>2, <3>3 DEF IInv, TypeOK, DriverTypeOK, walkVars
    <3>5. ProgramInv'
      <4>1. image = "loaded" /\ service = "running"
        BY <2>2 DEF IInv, ProgramInv
      <4>. QED
        BY <2>2, <2>4, <4>1 DEF IInv, ProgramInv, UnloadMeansGone
    <3>6. ListInv'
      BY <2>1, <2>2, <2>4, ListGrows
    <3>7. HookInv'
      BY <2>2 DEF IInv, HookInv, Walking, walkVars
    <3>. QED
      BY <3>4, <3>5, <3>6, <3>7 DEF IInv
  <2>. QED
    BY <1>1, <2>3, <2>4 DEF ADD_FILTER
<1>2. CASE pc' = "ui" /\ UNCHANGED <<driverVars, i>>
  <2>1. TypeOK'
    BY <1>2 DEF IInv, TypeOK, DriverTypeOK, driverVars, listVars, walkVars
  <2>2. ProgramInv'
    BY <1>2 DEF IInv, ProgramInv, UnloadMeansGone, driverVars, listVars
  <2>. QED
    BY <1>2, <2>1, <2>2, DriverSame DEF IInv
<1>. QED
  BY <1>1, <1>2

(* What the driver does after the program asked for it.                    *)
LEMMA KeepsAddFilterToList ==
  ASSUME IInv, Driver, AddFilterToList
  PROVE  IInv'
PROOF
<1>. USE DEF AddFilterToList
<1>1. UNCHANGED <<service, pc, tdriverVars, started, rules, i>>
  BY DEF Driver
<1>2. TypeOK'
  <2>1. next' \in [Nodes -> Pointers]
    BY DEF IInv, TypeOK, DriverTypeOK, Pointers
  <2>2. disturbed' \in [Cpus -> BOOLEAN]
    BY DEF Disturb
  <2>. QED
    BY <1>1, <2>1, <2>2 DEF IInv, TypeOK, DriverTypeOK, tdriverVars, walkVars
<1>3. ProgramInv'
  BY <1>1 DEF IInv, ProgramInv, UnloadMeansGone, tdriverVars
<1>4. HookInv'
  BY DEF IInv, HookInv, Walking, walkVars
<1>5. PICK m \in Nat : \E s \in [1..m -> Nodes] : Chain(m, s) /\ LastOK(m, s)
  BY DEF IInv, ListInv
<1>6. PICK s \in [1..m -> Nodes] : Chain(m, s) /\ LastOK(m, s)
  BY <1>5
<1>7. m # 0 /\ m \in 1..m /\ last = s[m]
  BY <1>5, <1>6 DEF LastOK
<1>8. next' = [next EXCEPT ![s[m]] = NULL] /\ next \in [Nodes -> Pointers]
  BY <1>7 DEF IInv, TypeOK, DriverTypeOK
<1>9. \A k \in 1..m : next'[s[k]] = IF k # m THEN s[k+1] ELSE NULL
  BY <1>6, <1>7, <1>8 DEF Chain
<1>10. Chain(m, s)'
  BY <1>6, <1>9 DEF Chain
<1>11. LastOK(m, s)'
  BY <1>6 DEF LastOK
<1>12. ASSUME NEW c \in Cpus PROVE WalkOK(m, s, c)'
  <2>1. at'[c] # Idle => disturbed'[c]
    BY DEF Disturb, Walking, walkVars
  <2>. QED
    BY <2>1 DEF WalkOK
<1>13. ListInv'
  BY <1>10, <1>11, <1>12 DEF ListInv
<1>. QED
  BY <1>2, <1>3, <1>4, <1>13 DEF IInv

LEMMA ListShrinks ==
  ASSUME IInv, request \in {"clear", "unload"}, first # NULL,
         first' = next[first], live' = live \ {first},
         next' = [next EXCEPT ![first] = Garbage], Disturb,
         UNCHANGED <<request, walkVars>>
  PROVE  ListInv' /\ first \in Nodes /\ first' \in Pointers
PROOF
<1>1. PICK m \in Nat : \E s \in [1..m -> Nodes] : Chain(m, s)
  BY DEF IInv, ListInv
<1>2. PICK s \in [1..m -> Nodes] : Chain(m, s)
  BY <1>1
<1>3. /\ \A j, k \in 1..m : s[j] = s[k] => j = k
      /\ live = {s[k] : k \in 1..m}
      /\ m # 0 /\ first = s[1]
      /\ \A k \in 1..m : next[s[k]] = IF k # m THEN s[k+1] ELSE NULL
      /\ \A k \in 1..m : s[k] \in Nodes
      /\ next \in [Nodes -> Pointers]
  BY <1>2 DEF Chain, IInv, TypeOK, DriverTypeOK
<1>4. 1 \in 1..m /\ m \in 1..m /\ m-1 \in Nat
  BY <1>1, <1>3
<1>5. \A k \in 1..m-1 : k \in 1..m /\ k # m /\ k+1 \in 1..m /\ k+1 # 1 /\ (k # m-1 <=> k+1 # m)
  BY <1>1
<1>. DEFINE t == [k \in 1..m-1 |-> s[k+1]]
<1>6. t \in [1..m-1 -> Nodes] /\ \A k \in 1..m-1 : t[k] = s[k+1]
  BY <1>3, <1>5
<1>. HIDE DEF t
<1>7. \A j, k \in 1..m-1 : t[j] = t[k] => j = k
  <2>1. ASSUME NEW j \in 1..m-1, NEW k \in 1..m-1, t[j] = t[k] PROVE j = k
    <3>1. j+1 = k+1
      BY <1>3, <1>5, <1>6, <2>1
    <3>. QED
      BY <1>1, <3>1
  <2>. QED
    BY <2>1
<1>8. live' = {t[k] : k \in 1..m-1}
  <2>1. ASSUME NEW n \in live, n # first PROVE \E k \in 1..m-1 : t[k] = n
    <3>1. PICK k \in 1..m : n = s[k]
      BY <1>3
    <3>2. k-1 \in 1..m-1 /\ (k-1)+1 = k
      BY <1>1, <1>3, <2>1, <3>1
    <3>. QED
      BY <1>6, <3>1, <3>2
  <2>2. ASSUME NEW k \in 1..m-1 PROVE t[k] \in live /\ t[k] # first
    <3>1. k+1 \in 1..m /\ k+1 # 1
      BY <1>5
    <3>. QED
      BY <1>3, <1>4, <1>6, <3>1
  <2>. QED
    BY <2>1, <2>2
<1>9. first' = IF m-1 = 0 THEN NULL ELSE t[1]
  <2>1. CASE m = 1
    BY <1>3, <1>4, <2>1
  <2>2. CASE m # 1
    <3>1. 1 \in 1..m-1 /\ m-1 # 0 /\ 1+1 = 2
      BY <1>1, <1>3, <2>2
    <3>. QED
      BY <1>3, <1>4, <1>6, <2>2, <3>1
  <2>. QED
    BY <2>1, <2>2
<1>10. ASSUME NEW k \in 1..m-1
       PROVE  next'[t[k]] = IF k # m-1 THEN t[k+1] ELSE NULL
  <2>1. k+1 \in 1..m /\ t[k] = s[k+1] /\ t[k] \in Nodes /\ t[k] # first
    BY <1>3, <1>4, <1>5, <1>6
  <2>2. next'[t[k]] = next[s[k+1]]
    BY <1>3, <2>1
  <2>3. CASE k = m-1
    BY <1>3, <1>5, <2>1, <2>2, <2>3
  <2>4. CASE k # m-1
    <3>1. k+1 \in 1..m-1 /\ k+1 # m
      BY <1>1, <2>4
    <3>2. t[k+1] = s[(k+1)+1] /\ next[s[k+1]] = s[(k+1)+1]
      BY <1>3, <1>6, <2>1, <3>1
    <3>. QED
      BY <2>2, <2>4, <3>2
  <2>. QED
    BY <2>3, <2>4
<1>11. Chain(m-1, t)'
  BY <1>7, <1>8, <1>9, <1>10 DEF Chain
<1>12. LastOK(m-1, t)'
  BY DEF LastOK
<1>13. ASSUME NEW c \in Cpus PROVE WalkOK(m-1, t, c)'
  <2>1. at'[c] # Idle => disturbed'[c]
    BY DEF Disturb, Walking, walkVars
  <2>. QED
    BY <2>1 DEF WalkOK
<1>14. ListInv'
  BY <1>4, <1>6, <1>11, <1>12, <1>13 DEF ListInv
<1>. QED
  BY <1>3, <1>4, <1>14

LEMMA KeepsClearFilterList ==
  ASSUME IInv, Driver, ClearFilterList
  PROVE  IInv'
PROOF
<1>1. /\ UNCHANGED <<service, pc, tdriverVars, started, rules, i, rule, loaded, hook, walkVars, crashed>>
      /\ request \in {"clear", "unload"}
  BY DEF Driver, ClearFilterList
<1>2. HookInv'
  BY <1>1 DEF IInv, HookInv, Walking, walkVars
<1>3. ASSUME first # NULL, first' = next[first], live' = live \ {first},
             next' = [next EXCEPT ![first] = Garbage], Disturb,
             UNCHANGED <<last, request, image>>
      PROVE  IInv'
  <2>1. ListInv' /\ first \in Nodes /\ first' \in Pointers
    BY <1>1, <1>3, ListShrinks
  <2>2. TypeOK'
    BY <1>1, <1>3, <2>1 DEF IInv, TypeOK, DriverTypeOK, Disturb, Pointers, tdriverVars, walkVars
  <2>3. ProgramInv'
    BY <1>1, <1>3 DEF IInv, ProgramInv, UnloadMeansGone, tdriverVars
  <2>. QED
    BY <1>2, <2>1, <2>2, <2>3 DEF IInv
<1>4. ASSUME first = NULL, last' = NULL, request' = "none",
             image' = IF request = "unload" THEN "absent" ELSE image,
             UNCHANGED <<first, live, next, disturbed>>
      PROVE  IInv'
  <2>1. PICK m \in Nat : \E s \in [1..m -> Nodes] :
          Chain(m, s) /\ LastOK(m, s) /\ \A c \in Cpus : WalkOK(m, s, c)
    BY DEF IInv, ListInv
  <2>2. PICK s \in [1..m -> Nodes] :
          Chain(m, s) /\ LastOK(m, s) /\ \A c \in Cpus : WalkOK(m, s, c)
    BY <2>1
  <2>3. m = 0
    <3>1. m # 0 => 1 \in 1..m /\ s[1] \in Nodes
      BY <2>1
    <3>. QED
      BY <1>4, <2>2, <3>1, NodesAssumption DEF Chain
  <2>4. live = {}
    BY <2>2, <2>3 DEF Chain
  <2>5. Chain(m, s)' /\ LastOK(m, s)'
    BY <1>1, <1>4, <2>2, <2>3 DEF Chain, LastOK
  <2>6. ASSUME NEW c \in Cpus PROVE WalkOK(m, s, c)'
    <3>1. WalkOK(m, s, c)
      BY <2>2
    <3>. QED
      BY <1>1, <1>4, <3>1 DEF WalkOK, walkVars
  <2>7. ListInv'
    BY <2>5, <2>6 DEF ListInv
  <2>8. TypeOK'
    BY <1>1, <1>4 DEF IInv, TypeOK, DriverTypeOK, tdriverVars, walkVars
  <2>9. ProgramInv'
    BY <1>1, <1>4, <2>4 DEF IInv, ProgramInv, UnloadMeansGone, tdriverVars
  <2>. QED
    BY <1>2, <2>7, <2>8, <2>9 DEF IInv
<1>. QED
  BY <1>3, <1>4 DEF ClearFilterList, LastAfterClear
-----------------------------------------------------------------------------
(* A callback only reads the list. *)
CallbackUnchanged ==
  UNCHANGED <<image, loaded, hook, listVars, request, service, pc, tdriverVars, started, rules, i>>

LEMMA CallbackKeeps ==
  ASSUME IInv, CallbackUnchanged, NEW d \in Cpus,
         at' \in [Cpus -> Pointers \cup {Idle}], pkt' \in [Cpus -> Packets],
         disturbed' \in [Cpus -> BOOLEAN], answer' \in [Cpus -> {"DROP", "FORWARD"}],
         crashed' \in BOOLEAN,
         \A c \in Cpus \ {d} : at'[c] = at[c] /\ pkt'[c] = pkt[c] /\ disturbed'[c] = disturbed[c],
         at[d] # Idle \/ hook,
         \A m \in Nat : \A s \in [1..m -> Nodes] :
           Chain(m, s) /\ WalkOK(m, s, d) => WalkOK(m, s, d)'
  PROVE  IInv'
PROOF
<1>. USE DEF CallbackUnchanged, listVars
<1>1. TypeOK'
  BY DEF IInv, TypeOK, DriverTypeOK, tdriverVars
<1>2. ProgramInv'
  BY DEF IInv, ProgramInv, UnloadMeansGone, tdriverVars
<1>3. HookInv'
  <2>1. CASE "unregister" \in Faults
    BY <2>1 DEF HookInv
  <2>2. CASE "unregister" \notin Faults
    <3>1. hook
      BY <2>2 DEF IInv, HookInv, Walking
    <3>. QED
      BY <2>2, <3>1 DEF IInv, HookInv
  <2>. QED
    BY <2>1, <2>2
<1>4. PICK m \in Nat : \E s \in [1..m -> Nodes] :
        Chain(m, s) /\ LastOK(m, s) /\ \A c \in Cpus : WalkOK(m, s, c)
  BY DEF IInv, ListInv
<1>5. PICK s \in [1..m -> Nodes] :
        Chain(m, s) /\ LastOK(m, s) /\ \A c \in Cpus : WalkOK(m, s, c)
  BY <1>4
<1>6. Chain(m, s)' /\ LastOK(m, s)'
  BY <1>5 DEF Chain, LastOK
<1>7. ASSUME NEW c \in Cpus PROVE WalkOK(m, s, c)'
  <2>1. CASE c = d
    BY <1>5, <2>1
  <2>2. CASE c # d
    <3>1. WalkOK(m, s, c)
      BY <1>5
    <3>. QED
      BY <2>2, <3>1 DEF WalkOK
  <2>. QED
    BY <2>1, <2>2
<1>8. ListInv'
  BY <1>6, <1>7 DEF ListInv
<1>. QED
  BY <1>1, <1>2, <1>3, <1>8 DEF IInv

LEMMA KeepsFilterFunction ==
  ASSUME IInv, CallbackUnchanged, NEW d \in Cpus, NEW p \in Packets, cbFilterFunction(d, p)
  PROVE  IInv'
PROOF
<1>. USE DEF cbFilterFunction
<1>1. /\ at \in [Cpus -> Pointers \cup {Idle}] /\ pkt \in [Cpus -> Packets]
      /\ disturbed \in [Cpus -> BOOLEAN] /\ answer \in [Cpus -> {"DROP", "FORWARD"}]
      /\ first \in Pointers /\ crashed \in BOOLEAN
  BY DEF IInv, TypeOK, DriverTypeOK
<1>2. /\ pkt' \in [Cpus -> Packets] /\ crashed' \in BOOLEAN /\ hook
      /\ \A c \in Cpus \ {d} : pkt'[c] = pkt[c]
  BY <1>1
<1>3. CASE /\ at' = [at EXCEPT ![d] = first]
           /\ disturbed' = [disturbed EXCEPT ![d] = request # "none"]
           /\ UNCHANGED answer
  <2>1. /\ at' \in [Cpus -> Pointers \cup {Idle}] /\ answer' \in [Cpus -> {"DROP", "FORWARD"}]
        /\ at'[d] = first
        /\ \A c \in Cpus \ {d} : at'[c] = at[c]
    BY <1>1, <1>3
  <2>2. /\ disturbed' \in [Cpus -> BOOLEAN] /\ disturbed'[d] = (request # "none")
        /\ \A c \in Cpus \ {d} : disturbed'[c] = disturbed[c]
    BY <1>1, <1>3
  <2>3. ASSUME NEW m \in Nat, NEW s \in [1..m -> Nodes], Chain(m, s)
        PROVE  WalkOK(m, s, d)'
    <3>1. SUFFICES ASSUME request = "none"
                   PROVE \E k \in 1..m+1 : /\ first = IF k = m + 1 THEN NULL ELSE s[k]
                                           /\ \A j \in 1..k-1 : ~Matches(rule[s[j]], pkt[d])'
      BY <2>1, <2>2 DEF WalkOK, CallbackUnchanged, listVars
    <3>2. first = (IF 1 = m + 1 THEN NULL ELSE s[1]) /\ 1 \in 1..m+1 /\ 1..1-1 = {}
      BY <2>3 DEF Chain
    <3>. QED
      BY <3>2
  <2>. QED
    BY <1>2, <2>1, <2>2, <2>3, CallbackKeeps
<1>4. CASE /\ answer' = [answer EXCEPT ![d] = "FORWARD"] /\ UNCHANGED <<at, disturbed>>
  <2>1. ASSUME NEW m \in Nat, NEW s \in [1..m -> Nodes] PROVE WalkOK(m, s, d)'
    BY <1>4 DEF WalkOK
  <2>2. answer' \in [Cpus -> {"DROP", "FORWARD"}]
    BY <1>1, <1>4
  <2>. QED
    BY <1>1, <1>2, <1>4, <2>1, <2>2, CallbackKeeps
<1>. QED
  BY <1>3, <1>4

(* FilterPacket goes to the next rule when the packet is not one the rule  *)
(* answers.                                                                *)
LEMMA KeepsFilterPacket ==
  ASSUME IInv, CallbackUnchanged, NEW d \in Cpus, FilterPacket(d) \/ Stray(d)
  PROVE  IInv'
PROOF
<1>. USE DEF FilterPacket, Stray, Answer
<1>1. /\ at \in [Cpus -> Pointers \cup {Idle}] /\ pkt' = pkt /\ pkt \in [Cpus -> Packets]
      /\ disturbed' = disturbed /\ disturbed \in [Cpus -> BOOLEAN]
      /\ answer \in [Cpus -> {"DROP", "FORWARD"}] /\ crashed \in BOOLEAN
      /\ next \in [Nodes -> Pointers] /\ live \subseteq Nodes
  BY DEF IInv, TypeOK, DriverTypeOK
<1>2. at[d] # Idle
  BY PointerAssumption DEF Pointers
<1>3. CASE \/ \E a \in {"DROP", "FORWARD"} : Answer(d, a) /\ crashed' = crashed
           \/ crashed' = TRUE /\ UNCHANGED <<at, answer>>
  <2>1. /\ at' \in [Cpus -> Pointers \cup {Idle}] /\ answer' \in [Cpus -> {"DROP", "FORWARD"}]
        /\ crashed' \in BOOLEAN
        /\ \A c \in Cpus \ {d} : at'[c] = at[c]
        /\ at'[d] \in {at[d], Idle}
    BY <1>1, <1>3
  <2>2. ASSUME NEW m \in Nat, NEW s \in [1..m -> Nodes], WalkOK(m, s, d)
        PROVE  WalkOK(m, s, d)'
    BY <1>1, <2>1, <2>2 DEF WalkOK, CallbackUnchanged, listVars
  <2>. QED
    BY <1>1, <1>2, <2>1, <2>2, CallbackKeeps
<1>4. CASE /\ at[d] \in live /\ ~Matches(rule[at[d]], pkt[d])
           /\ at' = [at EXCEPT ![d] = next[at[d]]] /\ UNCHANGED <<answer, crashed>>
  <2>1. /\ at' \in [Cpus -> Pointers \cup {Idle}]
        /\ \A c \in Cpus \ {d} : at'[c] = at[c]
        /\ at'[d] = next[at[d]]
    BY <1>1, <1>4
  <2>2. ASSUME NEW m \in Nat, NEW s \in [1..m -> Nodes], Chain(m, s), WalkOK(m, s, d)
        PROVE  WalkOK(m, s, d)'
    <3>1. SUFFICES ASSUME ~disturbed[d]
                   PROVE  /\ request # "add"
                          /\ \E k \in 1..m+1 : /\ next[at[d]] = IF k = m + 1 THEN NULL ELSE s[k]
                                               /\ \A j \in 1..k-1 : ~Matches(rule[s[j]], pkt[d])
      BY <1>1, <2>1 DEF WalkOK, CallbackUnchanged, listVars
    <3>2. PICK k \in 1..m+1 : /\ at[d] = IF k = m + 1 THEN NULL ELSE s[k]
                              /\ \A j \in 1..k-1 : ~Matches(rule[s[j]], pkt[d])
      BY <1>2, <2>2, <3>1 DEF WalkOK
    <3>3. k # m + 1
      BY <1>1, <1>4, <3>2, NodesAssumption
    <3>4. k \in 1..m /\ k+1 \in 1..m+1 /\ (k+1 = m+1 <=> k = m) /\ (k+1)-1 = k
      BY <2>2, <3>3
    <3>5. request # "add" /\ at[d] = s[k] /\ next[at[d]] = IF k # m THEN s[k+1] ELSE NULL
      BY <1>2, <2>2, <3>1, <3>2, <3>3, <3>4 DEF Chain, WalkOK
    <3>6. \A j \in 1..(k+1)-1 : ~Matches(rule[s[j]], pkt[d])
      <4>1. \A j \in 1..(k+1)-1 : j = k \/ j \in 1..k-1
        BY <3>4
      <4>. QED
        BY <1>4, <3>2, <3>5, <4>1
    <3>7. next[at[d]] = IF k+1 = m+1 THEN NULL ELSE s[k+1]
      BY <3>4, <3>5
    <3>. QED
      BY <3>4, <3>5, <3>6, <3>7
  <2>. QED
    BY <1>1, <1>2, <1>4, <2>1, <2>2, CallbackKeeps
<1>. QED
  BY <1>3, <1>4

LEMMA KeepsCallback ==
  ASSUME IInv, Callback
  PROVE  IInv'
PROOF
<1>1. PICK c \in Cpus : \/ \E p \in Packets : cbFilterFunction(c, p)
                        \/ FilterPacket(c) \/ Stray(c)
  BY DEF Callback
<1>2. CallbackUnchanged
  BY <1>1 DEF Callback, CallbackUnchanged, cbFilterFunction, FilterPacket, Stray
<1>. QED
  BY <1>1, <1>2, KeepsFilterFunction, KeepsFilterPacket
-----------------------------------------------------------------------------
LEMMA StepOK == IInv /\ [Next]_vars => IInv'
PROOF
<1>. SUFFICES ASSUME IInv, [Next]_vars PROVE IInv'
  OBVIOUS
<1>1. CASE Launch \/ InitDriver \/ LoadDriver \/ StartDriver \/ OpenDevice
  BY <1>1, KeepsLaunch, KeepsInitDriver, KeepsLoadDriver, KeepsStartDriver, KeepsOpenDevice
<1>2. CASE OnButtonstart \/ OnButtonstop \/ OnButtondesinstall
  BY <1>2, KeepsStartStop
<1>3. CASE \/ OnLoadRules \/ OnButtoninstall \/ \E r \in Rules : AddRule(r)
           \/ \E position \in DOMAIN rules : DeleteRule(position)
  BY <1>3, KeepsRules
<1>4. CASE AddFilterToFw
  BY <1>4, KeepsAddFilterToFw
<1>5. CASE Quit \/ StopDriver \/ UnloadDriver \/ Killed
  BY <1>5, KeepsUnloadDriver, KeepsStopDriver
<1>6. CASE Driver
  BY <1>6, KeepsAddFilterToList, KeepsClearFilterList DEF Driver
<1>7. CASE Callback
  BY <1>7, KeepsCallback
<1>8. CASE UNCHANGED vars
  <2>1. TypeOK' /\ ProgramInv'
    BY <1>8 DEF IInv, TypeOK, DriverTypeOK, ProgramInv, UnloadMeansGone, vars, driverVars, listVars, walkVars,
                tdriverVars
  <2>. QED
    BY <1>8, <2>1, DriverSame DEF IInv, vars
<1>. QED
  BY <1>1, <1>2, <1>3, <1>4, <1>5, <1>6, <1>7, <1>8 DEF Next

(* The inductive invariant of the program and its driver. *)
THEOREM Invariance == Spec => []IInv
PROOF
<1>. QED
  BY InitOK, StepOK, PTL DEF Spec

(* The nodes of a chain, in their order, are the list.                     *)
LEMMA ChainIsOrder ==
  ASSUME NEW m \in Nat, NEW s \in [1..m -> Nodes], Chain(m, s), request # "add"
  PROVE  m = Cardinality(live) /\ s \in Orders /\ (live = {} <=> m = 0)
PROOF
<1>1. /\ \A j, k \in 1..m : s[j] = s[k] => j = k
      /\ live = {s[k] : k \in 1..m}
      /\ first = IF m = 0 THEN NULL ELSE s[1]
      /\ \A k \in 1..m : next[s[k]] = IF k # m THEN s[k+1] ELSE NULL
  BY DEF Chain
<1>2. s \in [1..m -> live] /\ \A n \in live : \E k \in 1..m : s[k] = n
  BY <1>1
<1>3. s \in Bijection(1..m, live)
  <2>1. s \in Injection(1..m, live)
    BY <1>1, <1>2 DEF Injection, IsInjective
  <2>2. s \in Surjection(1..m, live)
    BY <1>2 DEF Surjection
  <2>. QED
    BY <2>1, <2>2 DEF Bijection
<1>4. Cardinality(live) = m
  BY <1>3, FS_CountingElements DEF ExistsBijection
<1>5. live = {} <=> m = 0
  <2>1. CASE m # 0
    <3>1. 1 \in 1..m
      BY <2>1
    <3>. QED
      BY <1>2, <2>1, <3>1
  <2>2. CASE m = 0
    <3>1. ASSUME NEW n \in live PROVE FALSE
      BY <1>2, <2>2
    <3>. QED
      BY <2>2, <3>1
  <2>. QED
    BY <2>1, <2>2
<1>6. DOMAIN s = 1..m
  OBVIOUS
<1>7. Lists(s)
  BY <1>1, <1>2, <1>4, <1>5, <1>6 DEF Lists
<1>. QED
  BY <1>2, <1>4, <1>5, <1>7 DEF Orders

(* The return traffic that Matches looks for is what the reversed packet   *)
(* of the rule's own traffic is.                                           *)
LEMMA MatchesIsAnswers ==
  ASSUME NEW r, NEW p \in Packets
  PROVE  Matches(r, p) <=> Answers(r, p)
PROOF
<1>1. {"src", "dst", "sport", "dport"} \subseteq DOMAIN p
  BY InputsAssumption
<1>2. /\ Reverse(p).src = p.dst /\ Reverse(p).dst = p.src
      /\ Reverse(p).sport = p.dport /\ Reverse(p).dport = p.sport
      /\ Reverse(p).proto = p.proto
  BY <1>1 DEF Reverse
<1>3. CASE Return(r, p)
  <2>1. ~In(p.src, r.src) /\ p.proto = "tcp" /\ ~p.opens /\ In(p.dst, r.src)
    BY <1>3 DEF Return, In
  <2>. QED
    BY <1>2, <1>3, <2>1 DEF Matches, Answers, Covers, Ports
<1>4. CASE ~ Return(r, p)
  <2>1. ~In(p.src, r.src) => r.src # Wild
    BY DEF In
  <2>. QED
    BY <1>2, <1>4, <2>1 DEF Matches, Answers, Covers, Ports, Return, In
<1>. QED
  BY <1>3, <1>4

(* The variables keep their types: every pointer is one to a node, null,   *)
(* or never written.                                                       *)
THEOREM TypesHold == Spec => []TypeOK
PROOF
<1>1. IInv => TypeOK
  BY DEF IInv
<1>. QED
  BY <1>1, Invariance, PTL

(* AddFilterToList and ClearFilterList leave one list of all the nodes     *)
(* that are allocated, which ends at last, whichever of the calls fail.    *)
THEOREM ListKept == Spec => []ListIsLive
PROOF
<1>1. IInv => ListIsLive
  <2>. SUFFICES ASSUME IInv, request = "none"
                PROVE \E s \in Orders : last = IF live = {} THEN NULL ELSE s[Cardinality(live)]
    BY DEF ListIsLive
  <2>1. PICK m \in Nat : \E s \in [1..m -> Nodes] : Chain(m, s) /\ LastOK(m, s)
    BY DEF IInv, ListInv
  <2>2. PICK s \in [1..m -> Nodes] : Chain(m, s) /\ LastOK(m, s)
    BY <2>1
  <2>3. m = Cardinality(live) /\ s \in Orders /\ (live = {} <=> m = 0)
    BY <2>2, ChainIsOrder
  <2>4. last = IF m = 0 THEN NULL ELSE s[m]
    BY <2>2 DEF LastOK
  <2>. QED
    BY <2>3, <2>4
<1>. QED
  BY <1>1, Invariance, PTL

(* DrvUnload gives the callback back and frees the list before the driver  *)
(* leaves memory, provided that the IP driver does not refuse the removal, *)
(* whose result the code does not look at.                                 *)
THEOREM NothingLeftAfterUnload ==
  ASSUME "unregister" \notin Faults
  PROVE  Spec => []NothingAfterUnload
PROOF
<1>1. IInv => NothingAfterUnload
  BY DEF IInv, HookInv, ProgramInv, NothingAfterUnload, TypeOK, DriverTypeOK
<1>. QED
  BY <1>1, Invariance, PTL

(* "started" is shown only when the driver filters, and DRV_SUCCESS of     *)
(* UnloadDriver means that the driver is gone, also for a program that     *)
(* follows one that was killed.                                            *)
THEOREM DriverKnown == Spec => []KnowsTheDriver
PROOF
<1>1. IInv => KnowsTheDriver
  BY DEF IInv, ProgramInv, KnowsTheDriver, StartedIsLoaded
<1>. QED
  BY <1>1, Invariance, PTL

(* FilterPacket, at each node of a list that no request has changed since  *)
(* the callback began, goes on until the first rule that answers the       *)
(* packet, and answers what that rule says.                                *)
THEOREM FirstMatchAnswers == Spec => AnswersFirstMatch
PROOF
<1>1. ASSUME IInv, [Next]_vars, NEW c \in Cpus, c \in Walking, at'[c] = Idle, ~disturbed[c]
      PROVE  \E s \in Orders : answer'[c] = Verdict(s, pkt[c])
  <2>1. /\ at \in [Cpus -> Pointers \cup {Idle}] /\ pkt \in [Cpus -> Packets]
        /\ answer \in [Cpus -> {"DROP", "FORWARD"}]
        /\ first \in Pointers /\ next \in [Nodes -> Pointers] /\ live \subseteq Nodes
    BY <1>1 DEF IInv, TypeOK, DriverTypeOK
  <2>2. at[c] # Idle /\ at'[c] # at[c]
    BY <1>1 DEF Walking
  <2>3. PICK d \in Cpus : \/ \E p \in Packets : cbFilterFunction(d, p)
                          \/ FilterPacket(d) \/ Stray(d)
    <3>1. Callback
      <4>1. UNCHANGED at => FALSE
        BY <2>2
      <4>. USE DEF driverVars, walkVars
      <4>2. ~(Launch \/ InitDriver \/ LoadDriver \/ StartDriver \/ OpenDevice)
        BY <4>1 DEF Launch, InitDriver, LoadDriver, StartDriver, DriverEntry, OpenDevice
      <4>3. ~(OnButtonstart \/ OnButtonstop \/ OnButtondesinstall)
        BY <4>1 DEF OnButtonstart, OnButtonstop, OnButtondesinstall, START_IP_HOOK, STOP_IP_HOOK,
                    CLEAR_FILTER
      <4>4. ~(OnLoadRules \/ OnButtoninstall \/ AddFilterToFw)
        BY <4>1 DEF OnLoadRules, OnButtoninstall, AddFilterToFw, ADD_FILTER
      <4>5. /\ \A r \in Rules : ~AddRule(r)
            /\ \A position \in DOMAIN rules : ~DeleteRule(position)
        BY <4>1 DEF AddRule, DeleteRule
      <4>6. ~(Quit \/ StopDriver \/ UnloadDriver \/ Killed)
        BY <4>1 DEF Quit, StopDriver, DrvUnload, UnloadDriver, Killed
      <4>7. ~Driver
        BY <4>1 DEF Driver, AddFilterToList, ClearFilterList
      <4>. QED
        BY <1>1, <4>1, <4>2, <4>3, <4>4, <4>5, <4>6, <4>7 DEF Next, vars
    <3>. QED
      BY <3>1 DEF Callback
  <2>4. PICK m \in Nat : \E s \in [1..m -> Nodes] : Chain(m, s) /\ WalkOK(m, s, c)
    BY <1>1 DEF IInv, ListInv
  <2>5. PICK s \in [1..m -> Nodes] : Chain(m, s) /\ WalkOK(m, s, c)
    BY <2>4
  <2>6. PICK k \in 1..m+1 : /\ at[c] = IF k = m + 1 THEN NULL ELSE s[k]
                            /\ \A j \in 1..k-1 : ~Matches(rule[s[j]], pkt[c])
    BY <1>1, <2>2, <2>5 DEF WalkOK
  <2>7. /\ m = Cardinality(live) /\ s \in Orders /\ (live = {} <=> m = 0)
        /\ live = {s[j] : j \in 1..m}
    <3>1. request # "add"
      BY <1>1, <2>2, <2>5 DEF WalkOK
    <3>. QED
      BY <2>5, <3>1, ChainIsOrder DEF Chain
  <2>8. k = m + 1 \/ (k \in 1..m /\ at[c] \in live)
    <3>1. k = m + 1 \/ (k \in 1..m /\ k # m + 1)
      BY <2>6
    <3>2. k \in 1..m => s[k] \in live
      BY <2>7
    <3>. QED
      BY <2>6, <3>1, <3>2
  <2>9. at[c] \in live \cup {NULL} /\ NULL \notin Nodes /\ NULL # Garbage
    BY <2>6, <2>8, NodesAssumption, PointerAssumption
  <2>10. FilterPacket(c)
    <3>1. d = c
      <4>1. CASE \E p \in Packets : cbFilterFunction(d, p)
        BY <2>1, <2>2, <4>1 DEF cbFilterFunction
      <4>2. CASE FilterPacket(d)
        BY <2>1, <2>2, <4>2 DEF FilterPacket, Answer
      <4>3. CASE Stray(d)
        BY <2>1, <2>2, <4>3 DEF Stray, Answer
      <4>. QED
        BY <2>3, <4>1, <4>2, <4>3
    <3>2. ~Stray(c)
      BY <2>1, <2>9 DEF Stray
    <3>3. \A p \in Packets : ~cbFilterFunction(c, p)
      BY <2>2 DEF cbFilterFunction
    <3>. QED
      BY <2>3, <3>1, <3>2, <3>3
  <2>. DEFINE hits == {j \in DOMAIN s : Answers(rule[s[j]], pkt[c])}
  <2>11. \A j \in 1..m : j \in hits <=> Matches(rule[s[j]], pkt[c])
    BY <2>1, MatchesIsAnswers
  <2>12. hits \subseteq 1..m /\ \A j \in hits : k <= j
    <3>1. \A j \in 1..m : k <= j \/ j \in 1..k-1
      BY <2>6
    <3>. QED
      BY <2>6, <2>11, <3>1
  <2>13. Verdict(s, pkt[c]) = IF \E h \in hits : (\A j \in hits : h <= j) /\ rule[s[h]].drop
                              THEN "DROP" ELSE "FORWARD"
    BY DEF Verdict
  <2>. HIDE DEF hits
  <2>14. CASE at[c] = NULL
    <3>1. k = m + 1
      BY <2>1, <2>8, <2>9, <2>14
    <3>2. hits = {}
      BY <2>12, <3>1
    <3>3. answer'[c] = "FORWARD"
      BY <2>1, <2>9, <2>10, <2>14 DEF FilterPacket, Answer
    <3>. QED
      BY <2>7, <2>13, <3>2, <3>3
  <2>15. CASE at[c] # NULL
    <3>1. k \in 1..m /\ at[c] = s[k] /\ at[c] \in live
      BY <2>6, <2>8, <2>15
    <3>2. /\ Matches(rule[s[k]], pkt[c])
          /\ answer' = [answer EXCEPT ![c] = IF rule[s[k]].drop THEN "DROP" ELSE "FORWARD"]
      <4>1. ASSUME at' = [at EXCEPT ![c] = next[at[c]]] PROVE FALSE
        <5>1. next[at[c]] \in Pointers
          BY <2>1, <3>1
        <5>. QED
          BY <1>1, <2>1, <4>1, <5>1, PointerAssumption
      <4>. QED
        BY <2>10, <2>15, <3>1, <4>1 DEF FilterPacket, Answer
    <3>3. k \in hits
      BY <2>11, <3>1, <3>2
    <3>4. \A h \in hits : (\A j \in hits : h <= j) => h = k
      BY <2>12, <3>1, <3>3
    <3>5. (\E h \in hits : (\A j \in hits : h <= j) /\ rule[s[h]].drop) <=> rule[s[k]].drop
      BY <2>12, <3>3, <3>4
    <3>6. answer'[c] = IF rule[s[k]].drop THEN "DROP" ELSE "FORWARD"
      BY <2>1, <3>2
    <3>. QED
      BY <2>7, <2>13, <3>5, <3>6
  <2>. QED
    BY <2>14, <2>15
<1>2. IInv /\ [Next]_vars =>
        [\A c \in Cpus : c \in Walking /\ at'[c] = Idle /\ ~disturbed[c] =>
           \E s \in Orders : answer'[c] = Verdict(s, pkt[c])]_vars
  BY <1>1
<1>. QED
  BY <1>2, Invariance, PTL DEF Spec, AnswersFirstMatch
=============================================================================
