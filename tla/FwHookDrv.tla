------------------------------ MODULE FwHookDrv ------------------------------
(***************************************************************************)
(* The firewall hook driver of the second sample (Driver/FwHookDrv.c): its *)
(* control requests, its list of rules, and the callback that filters the  *)
(* packets of the IP driver.                                               *)
(*                                                                         *)
(* There is no lock: a callback follows the pointers first and next while  *)
(* a request writes them.  Requests come from one thread, so that they do  *)
(* not overlap (FwApp composes the driver with the program that sends      *)
(* them); each write a callback can see is a step.  The list is modelled   *)
(* by its pointers, and memory by a pool whose nodes are used again.  The  *)
(* addresses a rule's ip and mask select are a set.                        *)
(***************************************************************************)
EXTENDS Naturals, Sequences, FiniteSets

CONSTANTS
  Nodes,    \* blocks of the pool, each good for one filterList
  Rules,    \* IPFilter: [proto, src, dst, sport, dport, drop]
  Packets,  \* [proto, src, dst, sport, dport, opens]: opens is SYN without ACK
  Cpus,     \* processors the IP driver calls the callback on
  Faults,   \* what may fail: see DriverFaults
  Wild,     \* the 0 of a rule's fields: not looked at
  NULL, Garbage   \* a null pointer, and one that was never written

DriverFaults == {"register", "unregister", "pool", "device", "link"}

Pointers == Nodes \cup {NULL, Garbage}
Idle     == "idle"

ASSUME NodesAssumption   == IsFiniteSet(Nodes) /\ Nodes \cap {NULL, Garbage} = {}
ASSUME PointerAssumption == NULL # Garbage /\ Idle \notin Pointers
ASSUME InputsAssumption  ==
  /\ Rules # {} /\ Packets # {}
  /\ \A p \in Packets : {"src", "dst", "sport", "dport"} \subseteq DOMAIN p

VARIABLES
  image,          \* is the driver in memory?
  loaded, hook,   \* the driver's flag; what the IP driver has registered
  first, last, next, rule,   \* the list
  live,           \* the nodes that are allocated
  request,        \* what the driver is doing: a request or the unload
  at, pkt, disturbed,   \* of each callback: its aux, its packet, and
                        \* whether a request has changed the list meanwhile
  answer,         \* the last answer of each callback
  crashed         \* the system has stopped

listVars   == <<first, last, next, rule, live>>
walkVars   == <<at, pkt, answer>>
driverVars == <<image, loaded, hook, listVars, request, walkVars, disturbed, crashed>>

Walking == {c \in Cpus : at[c] # Idle}

DriverInit ==
  /\ loaded = FALSE /\ hook = FALSE
  /\ first = NULL /\ last = NULL /\ live = {}
  /\ next = [n \in Nodes |-> Garbage] /\ rule \in [Nodes -> {CHOOSE r \in Rules : TRUE}]
  /\ request = "none"
  /\ at = [c \in Cpus |-> Idle] /\ disturbed = [c \in Cpus |-> FALSE]
  /\ pkt \in [Cpus -> {CHOOSE p \in Packets : TRUE}]
  /\ answer = [c \in Cpus |-> "FORWARD"]
  /\ crashed = FALSE
-----------------------------------------------------------------------------
(* The IP driver sets or removes the callback, and returns from a removal  *)
(* when no callback runs; the result of the call is not looked at.         *)
SetFilterFunction(load) ==
  \/ hook' = load /\ (load \/ Walking = {})
  \/ /\ (IF load THEN "register" ELSE "unregister") \in Faults
     /\ UNCHANGED hook

START_IP_HOOK ==
  /\ request = "none"
  /\ IF loaded THEN UNCHANGED <<loaded, hook>>
               ELSE loaded' = TRUE /\ SetFilterFunction(TRUE)
  /\ UNCHANGED <<image, listVars, request, walkVars, disturbed, crashed>>

STOP_IP_HOOK ==
  /\ request = "none"
  /\ IF loaded THEN loaded' = FALSE /\ SetFilterFunction(FALSE)
               ELSE UNCHANGED <<loaded, hook>>
  /\ UNCHANGED <<image, listVars, request, walkVars, disturbed, crashed>>

Disturb == disturbed' = [c \in Cpus |-> c \in Walking]

(* AddFilterToList: the node is linked first, and its next is set to NULL  *)
(* afterwards.                                                             *)
ADD_FILTER(r) ==
  /\ request = "none"
  /\ \/ \E n \in Nodes \ live :
          /\ live' = live \cup {n} /\ rule' = [rule EXCEPT ![n] = r]
          /\ IF first = NULL
             THEN first' = n /\ next' = [next EXCEPT ![n] = Garbage]
             ELSE next' = [next EXCEPT ![n] = Garbage, ![last] = n] /\ UNCHANGED first
          /\ last' = n
          /\ request' = "add" /\ Disturb
     \/ /\ "pool" \in Faults \/ Nodes \subseteq live
        /\ UNCHANGED <<listVars, request, disturbed>>
  /\ UNCHANGED <<image, loaded, hook, walkVars, crashed>>

AddFilterToList ==
  /\ request = "add" /\ request' = "none"
  /\ next' = [next EXCEPT ![last] = NULL]
  /\ Disturb
  /\ UNCHANGED <<image, loaded, hook, first, last, rule, live, walkVars, crashed>>

CLEAR_FILTER ==
  /\ request = "none" /\ request' = "clear"
  /\ UNCHANGED <<image, loaded, hook, listVars, walkVars, disturbed, crashed>>

(* ClearFilterList, one node a step; DrvUnload then removes the device.    *)
LastAfterClear_bug == last                   \* is not reset
LastAfterClear == NULL
ClearFilterList ==
  /\ request \in {"clear", "unload"}
  /\ \/ /\ first # NULL
        /\ first' = next[first] /\ live' = live \ {first}
        /\ next' = [next EXCEPT ![first] = Garbage]
        /\ Disturb
        /\ UNCHANGED <<last, request, image>>
     \/ /\ first = NULL
        /\ last' = LastAfterClear
        /\ request' = "none"
        /\ image' = IF request = "unload" THEN "absent" ELSE image
        /\ UNCHANGED <<first, live, next, disturbed>>
  /\ UNCHANGED <<rule, loaded, hook, walkVars, crashed>>

(* DriverEntry is called when the service starts.  Without its device it   *)
(* calls DrvUnload, which deletes a device that is not there; without its  *)
(* symbolic link it cleans up and fails.                                   *)
DriverEntry ==
  /\ image = "absent" /\ request = "none"
  /\ \/ image' = "loaded" /\ UNCHANGED crashed
     \/ "link" \in Faults /\ UNCHANGED <<image, crashed>>
     \/ "device" \in Faults /\ crashed' = TRUE /\ UNCHANGED image
  /\ UNCHANGED <<loaded, hook, listVars, request, walkVars, disturbed>>

MustUninstall_bug == FALSE                   \* the IP driver is not told
MustUninstall == loaded
DrvUnload ==
  /\ request = "none" /\ request' = "unload"
  /\ IF MustUninstall THEN loaded' = FALSE /\ SetFilterFunction(FALSE)
               ELSE UNCHANGED <<loaded, hook>>
  /\ UNCHANGED <<image, listVars, walkVars, disturbed, crashed>>
-----------------------------------------------------------------------------
In(a, addrs) == IF addrs = Wild THEN TRUE ELSE a \in addrs
Port(p, port) == port \in {Wild, p}

(* A TCP segment that is not from the rule's source but to it, and does    *)
(* not open a connection, is return traffic.                               *)
Return(r, p) == /\ ~In(p.src, r.src) /\ p.proto = "tcp" /\ ~p.opens
                /\ p.dst \in r.src

(* TCP and UDP ports are compared; those of return traffic are swapped.    *)
Ports_bug(r, p) == Port(p.sport, r.sport) /\ Port(p.dport, r.dport)   \* they are not
Ports(r, p) == IF Return(r, p) THEN Port(p.dport, r.sport) /\ Port(p.sport, r.dport)
                               ELSE Port(p.sport, r.sport) /\ Port(p.dport, r.dport)

(* One turn of the loop of FilterPacket: does this rule answer the packet? *)
Matches(r, p) ==
  /\ r.proto \in {Wild, p.proto}
  /\ \/ In(p.src, r.src) /\ In(p.dst, r.dst)
     \/ Return(r, p) /\ In(p.src, r.dst)
  /\ p.proto \in {"tcp", "udp"} => Ports(r, p)

(* The IP driver calls cbFilterFunction; without memory for the whole      *)
(* packet it answers FORWARD at once.                                      *)
cbFilterFunction(c, p) ==
  /\ hook /\ at[c] = Idle
  /\ pkt' = [pkt EXCEPT ![c] = p]
  /\ \/ /\ at' = [at EXCEPT ![c] = first]
        /\ disturbed' = [disturbed EXCEPT ![c] = request # "none"]
        /\ UNCHANGED answer
     \/ /\ "pool" \in Faults
        /\ answer' = [answer EXCEPT ![c] = "FORWARD"] /\ UNCHANGED <<at, disturbed>>
  /\ UNCHANGED <<image, loaded, hook, listVars, request, crashed>>

Answer(c, a) == /\ answer' = [answer EXCEPT ![c] = a]
                 /\ at' = [at EXCEPT ![c] = Idle]
FilterPacket(c) ==
  /\ at[c] # Idle
  /\ \/ at[c] = NULL /\ Answer(c, "FORWARD")
     \/ /\ at[c] \in live /\ Matches(rule[at[c]], pkt[c])
        /\ Answer(c, IF rule[at[c]].drop THEN "DROP" ELSE "FORWARD")
     \/ /\ at[c] \in live /\ ~Matches(rule[at[c]], pkt[c])
        /\ at' = [at EXCEPT ![c] = next[at[c]]] /\ UNCHANGED answer
  /\ UNCHANGED <<image, loaded, hook, listVars, request, pkt, disturbed, crashed>>

(* A callback at a pointer that was never written, or at a freed node,     *)
(* stops the system, or answers anything.                                  *)
Stray(c) ==
  /\ at[c] \in (Nodes \cup {Garbage}) \ live
  /\ \/ crashed' = TRUE /\ UNCHANGED <<at, answer>>
     \/ \E a \in {"DROP", "FORWARD"} : Answer(c, a) /\ UNCHANGED crashed
  /\ UNCHANGED <<image, loaded, hook, listVars, request, pkt, disturbed>>
-----------------------------------------------------------------------------
(* The driver's variables have their types. *)
DriverTypeOK ==
  /\ image \in {"absent", "loaded"} /\ loaded \in BOOLEAN /\ hook \in BOOLEAN
  /\ first \in Pointers /\ last \in Nodes \cup {NULL} /\ next \in [Nodes -> Pointers]
  /\ rule \in [Nodes -> Rules] /\ live \subseteq Nodes
  /\ request \in {"none", "add", "clear", "unload"}
  /\ at \in [Cpus -> Pointers \cup {Idle}] /\ pkt \in [Cpus -> Packets]
  /\ disturbed \in [Cpus -> BOOLEAN] /\ answer \in [Cpus -> {"DROP", "FORWARD"}]
  /\ crashed \in BOOLEAN
=============================================================================
