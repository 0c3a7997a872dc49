------------------------------ MODULE HookedFn ------------------------------
(***************************************************************************)
(* The bookkeeping of ndis_hk (ndis_hk/hooked_fn.c, av.c,                  *)
(* ndis_hk/adapters.c): which protocols and adapters are hooked, from      *)
(* NdisRegisterProtocol and NdisOpenAdapter to NdisCloseAdapter and        *)
(* NdisDeregisterProtocol, with opens that return at once or are           *)
(* completed later, before or after the call returns.                      *)
(*                                                                         *)
(* A block of memory is a number and is used once, so that what was freed  *)
(* can be told from what is allocated.  The hash of av.c is two functions, *)
(* one for each type of pair.  NDIS is external: it gives a binding one    *)
(* open block, keeps a context for one open at a time, and lets a protocol *)
(* deregister when its adapters are closed.                                *)
(***************************************************************************)
EXTENDS Naturals, Sequences, FiniteSets, SequencesExt

CONSTANTS
  Protocols, Hooked, Tcpip,  \* all, those with a name we look for, and "TCPIP"
  Contexts,                  \* ProtocolBindingContext, one per binding
  ProtocolOf, NameOf,        \* of a context: its protocol, and its adapter's name
  MaxBlocks,                 \* bound: so many blocks are allocated
  NULL

ASSUME HookedAssumption == Hooked \subseteq Protocols /\ Tcpip \in Hooked
ASSUME ContextAssumption == /\ ProtocolOf \in [Contexts -> Protocols]
                            /\ NameOf \in [Contexts -> STRING]
                            /\ NULL \notin Contexts
ASSUME BlocksAssumption == MaxBlocks \in Nat /\ NULL \notin 1..MaxBlocks

VARIABLES
  mem, last,   \* allocated blocks, and the last number given to one
  protocol,    \* per protocol, what NDIS knows: "none", "saving" or "registered"
  protAv,      \* PROTOCOL_TO_PCHARS: handle -> struct PROTOCOL_CHARS
  stub,        \* per protocol, the PROTOCOL_CHARS that its NDIS handlers point to
  tcpip,       \* g_tcpip_pchars
  list,        \* per PROTOCOL_CHARS, its list of struct ADAPTER_PROTOCOL
  context,     \* per ADAPTER_PROTOCOL: ProtocolBindingContext
  index,       \* per ADAPTER_PROTOCOL: adapter_index
  names,       \* the list of adapter names (adapters.c)
  binding,     \* per context: "closed", "opening", "open" or "closing"
  bindAv,      \* BINDING_TO_ADAPTER: NdisBindingHandle -> ADAPTER_PROTOCOL
  block,       \* per binding, the ADAPTER_PROTOCOL its open block calls
  forgotten    \* adapters that no path will free (not in the code)

protocols == <<protocol, protAv, stub, tcpip>>
adapters  == <<list, context, index, names>>
bindings  == <<binding, bindAv, block, forgotten>>
vars      == <<mem, last, protocols, adapters, bindings>>

Blocks == 1..MaxBlocks

Init ==
  /\ mem = {} /\ last = 0
  /\ protocol = [h \in Protocols |-> "none"]
  /\ protAv = [h \in Protocols |-> NULL] /\ stub = [h \in Protocols |-> NULL]
  /\ tcpip = NULL
  /\ list = [b \in Blocks |-> <<>>] /\ context = [b \in Blocks |-> NULL]
  /\ index = [b \in Blocks |-> 0] /\ names = <<>>
  /\ binding = [x \in Contexts |-> "closed"]
  /\ bindAv = [x \in Contexts |-> NULL] /\ block = [x \in Contexts |-> NULL]
  /\ forgotten = {}

Allocated(b) == last < MaxBlocks /\ b = last + 1 /\ last' = b
Mine(h)      == {x \in Contexts : ProtocolOf[x] = h}
-----------------------------------------------------------------------------
(* new_NdisRegisterProtocol.  A failure of the original function changes   *)
(* nothing.  NDIS knows the protocol, and may have it open adapters,       *)
(* before the handle is in the hash.                                       *)
RegisterOther(h) ==
  /\ h \notin Hooked /\ protocol[h] = "none"
  /\ protocol' = [protocol EXCEPT ![h] = "registered"]
  /\ UNCHANGED <<mem, last, protAv, stub, tcpip, adapters, bindings>>

Register(h) ==
  /\ h \in Hooked /\ protocol[h] = "none"
  /\ \E p \in Blocks :
       /\ Allocated(p)
       /\ mem' = mem \cup {p}
       /\ stub' = [stub EXCEPT ![h] = p]
  /\ protocol' = [protocol EXCEPT ![h] = "saving"]
  /\ UNCHANGED <<protAv, tcpip, adapters, bindings>>

SetTcpip(h) == tcpip' = IF h = Tcpip THEN stub[h] ELSE tcpip

Save(h) ==
  /\ protocol[h] = "saving"
  /\ SetTcpip(h)
  /\ protAv' = [protAv EXCEPT ![h] = stub[h]]
  /\ protocol' = [protocol EXCEPT ![h] = "registered"]
  /\ UNCHANGED <<mem, last, stub, adapters, bindings>>

(* add_av has no memory: NDIS deregisters the protocol again and with it   *)
(* closes what it has opened.                                              *)
SaveFails(h) ==
  /\ protocol[h] = "saving"
  /\ SetTcpip(h)
  /\ mem' = mem \ {stub[h]}
  /\ stub' = [stub EXCEPT ![h] = NULL]
  /\ protocol' = [protocol EXCEPT ![h] = "none"]
  /\ binding' = [x \in Contexts |-> IF x \in Mine(h) THEN "closed" ELSE binding[x]]
  /\ UNCHANGED <<last, protAv, adapters, bindAv, block, forgotten>>

(* new_NdisDeregisterProtocol: del_av frees the PROTOCOL_CHARS.            *)
Deregister(h) ==
  /\ protocol[h] = "registered"
  /\ \A x \in Mine(h) : binding[x] = "closed"
  /\ mem' = mem \ {protAv[h]}
  /\ protAv' = [protAv EXCEPT ![h] = NULL]
  /\ stub' = [stub EXCEPT ![h] = NULL]
  /\ protocol' = [protocol EXCEPT ![h] = "none"]
  /\ UNCHANGED <<last, tcpip, adapters, bindings>>
-----------------------------------------------------------------------------
(* new_NdisOpenAdapter, up to the call of the original function.  The      *)
(* adapter is hooked when its protocol is in the hash.  That one of the    *)
(* media it offers is ours is taken for granted: TCP/IP offers 802.3.      *)
Pchars(x) == protAv[ProtocolOf[x]]
Known(x)  == protocol[ProtocolOf[x]] # "none"

Link_bug(s, a) == Append(s, a)               \* behind those that are there
Link(s, a)     == <<a>> \o s

Open(x) ==
  /\ Known(x) /\ binding[x] = "closed" /\ Pchars(x) # NULL
  /\ \E a \in Blocks :
       /\ Allocated(a)
       /\ mem' = mem \cup {a}
       /\ list' = [list EXCEPT ![Pchars(x)] = Link(@, a)]
       /\ context' = [context EXCEPT ![a] = x]
  /\ binding' = [binding EXCEPT ![x] = "opening"]
  /\ UNCHANGED <<protocols, index, names, bindAv, block, forgotten>>

OpenOther(x) ==
  /\ Known(x) /\ binding[x] = "closed" /\ Pchars(x) = NULL
  /\ binding' = [binding EXCEPT ![x] = "open"]
  /\ UNCHANGED <<mem, last, protocols, adapters, bindAv, block, forgotten>>

(* How the code finds an adapter by its context: the first in the list.    *)
Found(x) == LET s == list[Pchars(x)]
                i == SelectInSeq(s, LAMBDA a : context[a] = x)
            IN  IF i = 0 THEN NULL ELSE s[i]

Unlink(s, a)     == RemoveFirst(s, a)

Destroyed_bug(a) == {}                       \* unlinks it without freeing it
Destroyed(a)     == {a}

Destroy(a, p) ==
  /\ list' = [list EXCEPT ![p] = Unlink(@, a)]
  /\ mem' = mem \ Destroyed(a)

(* add_adapter: the position of the name, which is added when it is new.   *)
Position(s, n)  == CHOOSE i \in DOMAIN s : s[i] = n
Added_bug(s, n) == Append(s, n)              \* does not look for the name first
Added(s, n)     == IF n \in Range(s) THEN s ELSE Append(s, n)

AddAdapter(a, n) ==
  \/ /\ names' = Added(names, n)
     /\ index' = [index EXCEPT ![a] = Position(names', n)]
  \/ n \notin Range(names) /\ UNCHANGED <<names, index>>  \* no memory: 0

(* new_OpenAdapterCompleteHandler for success on one of our media.  When   *)
(* add_av has no memory the open block is hooked all the same.             *)
Hook(x) ==
  LET a == Found(x) IN
  /\ AddAdapter(a, NameOf[x])
  /\ \/ bindAv' = [bindAv EXCEPT ![x] = a] /\ UNCHANGED forgotten
     \/ forgotten' = forgotten \cup {a} /\ UNCHANGED bindAv
  /\ block' = [block EXCEPT ![x] = a]
  /\ binding' = [binding EXCEPT ![x] = "open"]
  /\ UNCHANGED <<list, context>>

(* The original function returns, or completes what was pending.  On       *)
(* success both do the same.                                               *)
DeletedOnSuccess(x)     == {}

OpenSucceeds(x) ==
  /\ binding[x] = "opening"
  /\ Hook(x)
  /\ mem' = mem \ DeletedOnSuccess(x)
  /\ UNCHANGED <<last, protocols>>

ReturnsFailure(x) ==
  /\ binding[x] = "opening"
  /\ Destroy(Found(x), Pchars(x))
  /\ binding' = [binding EXCEPT ![x] = "closed"]
  /\ UNCHANGED <<last, protocols, context, index, names, bindAv, block, forgotten>>

ReturnsOtherMedium(x) ==
  /\ binding[x] = "opening"
  /\ Destroy(Found(x), Pchars(x))
  /\ binding' = [binding EXCEPT ![x] = "open"]
  /\ UNCHANGED <<last, protocols, context, index, names, bindAv, block, forgotten>>

(* A pending open fails, or ends with another medium: the adapter stays in *)
(* the list.                                                               *)
CompletesUnhooked(x) ==
  /\ binding[x] = "opening"
  /\ forgotten' = forgotten \cup {Found(x)}
  /\ binding' \in {[binding EXCEPT ![x] = "closed"], [binding EXCEPT ![x] = "open"]}
  /\ UNCHANGED <<mem, last, protocols, adapters, bindAv, block>>
-----------------------------------------------------------------------------
(* new_NdisCloseAdapter: the adapter is freed before the original function *)
(* closes the binding.                                                     *)
AfterClose_bug(x) == bindAv                  \* the pair stays in the hash
AfterClose(x)     == [bindAv EXCEPT ![x] = NULL]

Close(x) ==
  /\ binding[x] = "open"
  /\ IF bindAv[x] # NULL THEN Destroy(bindAv[x], Pchars(x)) ELSE UNCHANGED <<mem, list>>
  /\ bindAv' = AfterClose(x)
  /\ binding' = [binding EXCEPT ![x] = "closing"]
  /\ UNCHANGED <<last, protocols, context, index, names, block, forgotten>>

Closed(x) ==
  /\ binding[x] = "closing"
  /\ block' = [block EXCEPT ![x] = NULL]
  /\ binding' = [binding EXCEPT ![x] = "closed"]
  /\ UNCHANGED <<mem, last, protocols, adapters, bindAv, forgotten>>
-----------------------------------------------------------------------------
Next ==
  \/ \E h \in Protocols : \/ RegisterOther(h) \/ Register(h) \/ Save(h)
                          \/ SaveFails(h) \/ Deregister(h)
  \/ \E x \in Contexts : \/ Open(x) \/ OpenOther(x) \/ OpenSucceeds(x)
                         \/ ReturnsFailure(x) \/ ReturnsOtherMedium(x)
                         \/ CompletesUnhooked(x) \/ Close(x) \/ Closed(x)

Spec == Init /\ [][Next]_vars
-----------------------------------------------------------------------------
(* The type invariant. *)
OrNull(S) == S \cup {NULL}
TypeOK ==
  /\ mem \subseteq 1..last /\ last \in 0..MaxBlocks
  /\ protocol \in [Protocols -> {"none", "saving", "registered"}]
  /\ protAv \in [Protocols -> OrNull(Blocks)] /\ stub \in [Protocols -> OrNull(Blocks)]
  /\ tcpip \in OrNull(Blocks)
  /\ list \in [Blocks -> Seq(Blocks)] /\ context \in [Blocks -> OrNull(Contexts)]
  /\ names \in Seq(STRING) /\ index \in [Blocks -> 0..Len(names)]
  /\ binding \in [Contexts -> {"closed", "opening", "open", "closing"}]
  /\ bindAv \in [Contexts -> OrNull(Blocks)] /\ block \in [Contexts -> OrNull(Blocks)]
  /\ forgotten \subseteq Blocks

(* What can be reached is allocated: every adapter in the list of an       *)
(* allocated protocol, there once; what the hash returns; and the code     *)
(* that NDIS jumps to, the handlers of a protocol while it is registered   *)
(* and those of an open block until the protocol closes it.                *)
NothingFreedIsReached ==
  /\ \A p \in mem : IsInjective(list[p]) /\ Range(list[p]) \subseteq mem
  /\ \A h \in Protocols : {protAv[h], stub[h]} \subseteq OrNull(mem)
  /\ \A x \in Contexts : /\ bindAv[x] \in OrNull(mem)
                         /\ binding[x] # "closing" => block[x] \in OrNull(mem)

(* Received and sent packets of a binding are taken for those of the same  *)
(* adapter, the one its last open made, whatever opens of its context went *)
(* before.                                                                 *)
OneAdapter == \A x \in Contexts :
  binding[x] = "open" /\ block[x] # NULL =>
    /\ Found(x) = block[x]
    /\ \A b \in Blocks : context[b] = x => b <= block[x]

(* An index stands for one name, for both protocols that open an adapter   *)
(* and after it was closed and opened again: the [if n] of a rule keeps    *)
(* its meaning.                                                            *)
IndexIsName == \A a \in DOMAIN index :
  index[a] # 0 => names[index[a]] = NameOf[context[a]]
                  /\ \A j \in DOMAIN names : names[j] = names[index[a]] => j = index[a]

(* Every block that is allocated is one that the hash or an open in        *)
(* progress still leads to, except the adapters that the code forgets.     *)
Accounted ==
  mem \ forgotten = {b \in Range(stub) \cup Range(bindAv) : b # NULL}
                    \cup {Found(x) : x \in {y \in Contexts : binding[y] = "opening"}}
=============================================================================
