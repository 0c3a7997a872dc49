# A verification of ndis_fw and FwHookDrv

The repository holds two packet filters for Windows NT, 2000 and XP (under `샘플소스/`), and texts about NDIS.

* **ndis_fw** is two kernel drivers. `ndis_hk` replaces exports of `ndis.sys`, so that it sees every protocol,
  adapter, send and receive of the hooked protocols, and hands each packet to a stack of filters. `ndis_flt` is
  such a filter: it judges packets by the rules of `ndis_fw.conf`, reloads the file when it changes, answers
  denied TCP segments with a RST and writes a log.
* **FwHookDrv** is a driver that installs a firewall hook into the IP driver, and **FirewallHooK** the program
  that loads the driver as a service, edits a list of rules and sends them to it by control requests.

The modules here model the control of these programs; `PROJECT.json` maps every definition to its lines. The
names are those of the source where TLA+ allows it.

## Inventory

| component | state it keeps | operations | hard behaviour | what makes it correct |
|---|---|---|---|---|
| rule chain (`ndis_flt/filter.c`) | list of rules and its spin lock, reload thread, remembered write time, exit flag | `filter_init`, `filter_reload`, `add_flt_rule`, `clear_flt_chain`, `reload_thread`, `filter_free`, the four walks | packets walk while the chain is replaced; the file changes at any moment; an open, read or allocation fails; the unload meets a reload | no walk reads a freed rule; the chain is one version of the file in its order; nothing leaks; an edit is applied; the unload ends and leaves nobody inside |
| packet judge (`ndis_flt/packet.c`) | none | `filter_packet`, `process_ip`, `process_transp`, `process_tcp`, `send_packet` | headers are spread over a chain of buffers, datagrams over fragments; calls back into the stack while the stack's lock is held | the tables are asked about the headers of the datagram; what they deny never arrives whole; the verdict is that of the first rule that matches, table by table |
| asynchronous log (`ndis_flt/log.c`) | ring of entries, head, tail, event, thread | `log_str_dispatch`, `logger_thread`, `open_log`, `close_log` | producers at any IRQL overtake the thread; the ring is full; wakeups are merged | the newest entries survive, in order, lost ones are counted, everything queued is written, the close ends |
| filter stack (`ndis_hk/filter.c`) | doubly linked list, spin lock, work items | `attach_filter`, `filter_packet`, both ends, delayed sends | filters come and go under traffic; re-entry for a RST; copies of changed packets | every packet sees every filter in order, once; a packet goes on once |
| send path (`ndis_hk/hooked_fn.c`) | none of its own; packets in flight | `new_SendHandler`, `new_SendPacketsHandler`, `new_SendCompleteHandler` | a completed packet is sent again while the loop still runs; no memory for the shorter array | each send is answered once; a denied packet never leaves |
| own packets and receive path (`ndis_hk/hooked_fn.c`) | packet pool, buffer pool | `send_out_packet`, `new_ReceiveHandler`, both completions | completion before the call returns; failure of the n-th allocation; failed transfer | freed once, not early, nothing lost for the pools |
| hooked NDIS functions (`ndis_hk/hooked_fn.c`, `av.c`, `ndis_hk/adapters.c`) | hash of pairs, lists of adapters, adapter names, code stubs | the replaced `NdisRegisterProtocol`, `NdisOpenAdapter`, ... and their completions | open is pending and completes before or after it returns; reuse of a context; failures half way | what NDIS or the hash leads to is allocated; a binding leads to its own adapter; an index is one name |
| hook driver (`Driver/FwHookDrv.c`) | loaded flag, list of rules without a lock, registration in the IP driver | `DriverEntry`, `DrvDispatch` with four requests, `DrvUnload`, `cbFilterFunction`, `FilterPacket` | the callback walks the list while a request writes it; a removal fails | what is unloaded is not called and leaves nothing; the answer is that of the first rule |
| firewall program (`TDriver.cpp`, `MainFrm.cpp`, `FirewallAppDoc.cpp`) | service and device handles and flags, document of at most `MAX_RULES` rules | load, unload, start, stop, install, uninstall, add, delete, load rules | killed and started again; each system call fails; the driver was started by somebody else | what the program believes of the driver is true |
| rule parser (`ndis_flt/flt_rule.c`, `inet_addr` of `sock.c`) | none | `parse_rule`, `get_amp` | lines that end at any word, two blanks in a row, numbers that are none, edges of masks, ports and octets | a documented line is taken and its rule matches exactly what the line says; what else is taken is known |
| load of `ndis_flt` (`ndis_flt/ndis_flt.c`) | device of `ndis_hk` and its interface, place in the stack, the log and the reload thread | `DriverEntry`, `get_iface`, `get_adapters_list`, `log_description`, `OnUnload` | any call fails; `OnUnload` is also the cleanup of a start that failed; packets are logged meanwhile | a start that fails, and an unload, leave nothing behind and stop nothing |
| load of `ndis_hk` (`ndis_hk/ndis_hk.c`) | pools, hash, device, export table of `ndis.sys` | `DriverEntry`, `hook_ndis`, `fix_export`, `OnUnload` | a failure after some exports were replaced; a failing write; a failing search on the way back | a load that fails leaves no export that leads into the driver |
| memory tracker, time, dialogs, texts | - | - | - | see "Not modelled" |

**How they interact.** NDIS calls the replaced functions of `ndis_hk`; those for packets call the filter stack,
the stack calls `ndis_flt`'s `filter_packet` under its lock, and that walks the rule chain under a second lock,
writes the log without waiting, and for a denied segment calls the stack again from its own place. The ends of
the stack come back to `send_out_packet` and `send_in_packet`, directly or by a work item. The reload thread and
the log thread are the only threads of their own. The program of the second sample talks to its driver by the
service manager and by `DeviceIoControl` on one thread; the IP driver calls the driver on any processor.

When the system boots it loads `ndis_hk`, which patches `ndis.sys`, then `ndis_flt`, which opens its log, loads
its rules by the parser, starts the two threads, gets the interface of `ndis_hk` by a control request, asks it
for the names of the adapters and attaches its filter.

## Modules

| module | models | its variables and actions in the code |
|---|---|---|
| `RuleMatch` | the comparisons of `filter_ip` ... `filter_icmp`, and `Verdict`, the verdict of the first match | pure operators; addresses and masks are sets of bits, ports are numbers |
| `RuleChain` | `ndis_flt/filter.c` and its callers | `chain`/`live` are `g_rules.head...tail` and the pool, `guard` the spin lock, `pc` the threads (`main` runs `DriverEntry` and `OnUnload`, `reloader` the reload thread, each processor a `filter_packet`), `first`, `info`, `seen` the locals of `reload_thread`, `ver`, `writer` the file and its editor |
| `RuleParse` | `parse_rule`, `get_amp`, `inet_addr` | a step is a clause of the grammar: `p` is the word at the code's `p`, `line` the words cut off so far, `rule` is `*rule`; what `atoi` and the cuts inside a word see are tables over words |
| `Machine` | the system under both drivers: calls that fail, and the stop of the system | `failed` are the kinds of calls that have failed so far, `crashed` |
| `HookNdis` | `DriverEntry` and `hook_ndis` of `ndis_hk` | `hk` is a program counter, `fn` the index of the loop, `exports` where each export leads, `old` and `old_fn` what `fix_export` returned and where it is stored, `hash` is `g_av_hash` |
| `LogQueue` | `ndis_flt/log.c`, all of it, without saying when it is called | `data`, `head`, `tail`, `event`, `exit` are `g_queue`; `logger` and `closer` are program counters, `signal` the producers between unlock and `KeSetEvent`; `memory` is what `g_queue.data` points to, `logFile` is `g_log_file` |
| `DriverLife` | the life of both drivers: `HookNdis`, then `DriverEntry` and `OnUnload` of `ndis_flt` with `LogQueue`, its thread and its producers | `main` is where the main thread is, `fileobj`, `iface`, `attached`, `rulesInit`, `rulesExit`, `reloader` what it has; `locals` are the handles and pointers of `log_description`, `held` what is really open or allocated |
| `DropOldest` | what the log promises: a bounded buffer that forgets its oldest entry and counts it | the abstract specification that the log implements in `DriverLife` |
| `PacketJudge` | how `filter_packet` finds the headers of a frame | `pc` is the header it is about to read, `buffer` the current buffer, by its end, and `pointer` the code's pointer, in bytes of the frame; `dgram` is the datagram with what the rules say of its two headers, `through` the fragments that were passed on |
| `FilterStack` | `ndis_hk/filter.c` and the RST of `packet.c` | `upper`, `lower` are the pointers; `calls` is per processor the stack of `process_packet` calls; `work` the work items |
| `SendPackets` | the send handlers | `owner` says who may touch a packet; `array`, `i`, `n_allow`, `kept` are the locals of `new_SendPacketsHandler` |
| `SendPromise` | what the send hooks promise the protocol: a call gives back what was denied and sends the rest together, or gives all back if something was denied | the abstract specification that `SendPackets` implements |
| `OwnPackets` | `send_out_packet`, `new_ReceiveHandler` and the two completions with their shared pools | `locals` are the pointers that the cleanup looks at, `memory` what is really allocated |
| `HookedFn` | registration, open, close, hash and adapter names | blocks of memory are numbers used once; `bindAv` and `protAv` are the hash, `list` the adapters of a protocol, `stub` and `block` the code that NDIS jumps to |
| `FwHookDrv` | the hook driver | `first`, `last`, `next`, `rule`, `live` are the list, one write a step; `at` is `aux` of each running callback; `request` is what the dispatch routine is in the middle of |
| `FwApp` | `TDriver` and the window's commands, composed with `FwHookDrv` | `service` is the service manager's view, `handle`, `running`, `registered`, `initialized`, `removable` the fields of `TDriver`, `rules` the document |
| `RuleProofs`, `PacketJudgeProofs`, `FilterStackProofs`, `SendPacketsProofs`, `OwnPacketsProofs`, `HookedFnProofs`, `DriverLifeProofs`, `FwAppProofs` | theorems about these modules | - |
| `MC...` | instances for TLC | - |

Every module has an action for each operation; the alternatives of an operation (failures, verdicts) are
disjuncts. Where a spin lock protects a loop, the loop is still a step for each node, so that the lock and not
the granularity of the model keeps it safe. A variable that the code does not have is marked so in its comment
(`order`, `denied`, `forgotten`, `disturbed`, ...). Operators whose name ends in `_bug` stand before the operator
they would replace: each is a plausible mistake in the lines of that operator, and a check that the property
named with it in `PROJECT.json` notices it. No run uses them.

## Runs

| run | question | bounds | why enough |
|---|---|---|---|
| `chain_safety` | is the chain safe under every interleaving and failure? | 2 processors, 3 versions of the file with rules that hit, miss and are rejected, all faults | one walk to be disturbed and one to compete for the lock; two reloads after the first load; each fault leaves its loop at every point |
| `chain_live` | is an edit applied, does the unload end? | 1 processor, 3 versions, no faults | an edit that races a reload needs two edits |
| `chain_first_poll` (violation) | is every edit applied? | 1 edit | - |
| `life` | does a start that fails, or an unload, leave anything or stop the system? are the exports put back? does the ring implement `DropOldest`, and is everything written? do start and unload end? | 4 exports; 17 kinds of calls, of which any 2 fail, each as often as it can; 2 adapters, 2 cards; 3 slots, 2 producers, 5 messages | a failure on the way and another one on the way back; the second adapter and the second card are what a cleanup by stale pointers would get wrong; the ring holds two entries, so that the fifth message drops an entry that itself carries a count |
| `stack` | does every packet see every filter, and go on once? | 2 filters, 2 processors, 2 packets | a filter between both ends and another filter, attached at both sides; one packet under way while another waits |
| `send` | do the handlers implement `SendPromise`, and is a denied packet held back? | 2 processors, arrays of up to 3 packets, one of them sent twice | a packet comes back inside the loop and is sent by the other processor |
| `send_count` (violation) | does the miniport get an array and its length? | the same | - |
| `own_packets` | is everything freed once and not early? | 3 calls, pools of 3 | the calls starve each other at every allocation |
| `hooked_fn` | is what NDIS and the hash reach allocated, and nothing lost unknowingly? | 3 protocols, 2 of them hooked, 3 bindings, 2 names, 4 blocks | one name opened by two protocols, one context opened again after each way to fail, all before and after returning |
| `fw` | is the program's belief true, is what is unloaded gone, is an undisturbed answer right? | 2 nodes, 3 rules, 3 packets, 1 processor, documents of up to 2 rules, a file of 3, all failures but one | a node to be first and one to be last, used again after it was freed; a rule for each branch of the match; callbacks do not write shared state, so that one beside the program's thread shows each race |
| `judge` | are the right bytes put to the rules, and is a denied datagram kept out, however it comes? | up to 3 fragments of 1480 bytes; headers of 0, 20 and 24 bytes; 7 lengths of the last frame, 6 places for a cut, up to 2 cuts in a frame | 370, the offset of the third fragment, has the bit that is taken for `IP_DF`; lengths and cuts at each end of a header, one byte before it and behind it |
| `rule_parse` | is a documented line taken, and does its rule match what it says? what else is taken? | at each clause every keyword, a wrong one and the empty word; 13 addresses, 18 numbers, 6 sets of flags; 2 directions, packets that differ from four given ones in one field | each edge that the parser compares with, and one beyond; two numbers with text behind them; a packet on either side of each comparison |

Bounds by name: `MaxVersion` (edits of the file), `MaxMsg` (messages), `MaxSends` (sends of each packet),
`MaxBlocks` (allocations of `ndis_hk`), `MaxFaults` (kinds of calls that fail in one run), `MaxAdapters`,
`Cards`, `PoolSize` (100 in the code), `Size` (`LOG_QUEUE_SIZE`), `MaxRules` (`MAX_RULES`, 15 in the code),
`Nodes` (blocks for rules),
`MaxFragments`, `MaxCuts` (ends of buffers in a frame), `Between` (one word between `type` and the point).
Deadlock is not checked: each of these systems may stop,
when the driver is unloaded, the bounded input is used up or the machine has crashed. In `fw` the nodes are symmetric: no
definition tells one from another.

What the properties say:

* `RuleChain`: `WalkSafe` (no freed rule is read), `OneVersion` (one read of one version, in order), `NoLeak`,
  `Quiesced` (`filter_free` is alone and leaves nothing), `AnswersFirstMatch` (the loops answer as the first
  match does), `PolledEditApplied`, `UnloadEnds`.
* `DriverLife`: `LeavesNothing` (a driver that is unloaded, or whose start failed, has left the stack, ended its
  threads, closed its files and keys and freed its memory), `CrashesOnlyAfter` (the system stops only after one of
  eight calls has failed whose failure the code ignores), `HooksUndone`, `LifeGoesOn` (a start or an unload ends).
  The eight are named in `CrashNeeds`; without any one of them the run would fail.
* `LogQueue`: `KeepsNewest` (the ring holds the last messages without a gap), `DropsOldest` (refinement of
  `DropOldest`, with the skip counts), `EventuallyWritten`.
* `PacketJudge`: `DeniedStaysOut` (all fragments of a datagram get through only if both tables allow it),
  `JudgesItsHeaders` (a table sees a whole header of the datagram, or what `Misread` names; what is stopped is
  denied, or has a header that is not in one buffer; the chain is read past its end only behind one of the first
  two headers).
* `RuleParse`: `MeansWhatItSays` (from the text to the comparison: the rule of a documented line matches exactly
  the packets that the line says), `TakesEveryRule` (no documented line is refused), `LaxOnlyInPlaces` (what is
  taken beyond the document has the shape of a rule, but for what is listed there, and only a line that is
  `allow` or `deny` alone is read past its end).
* `FilterStack`: `Linked` (both directions agree), `SeenByAll` (path of every packet is the list at its entry, a
  RST goes back the way of its segment), `CalledWhileAttached`, `OneOutcome` (never the original and the copy, no
  second RST, no lost change), `Decided`.
* `SendPackets`: `KeepsPromise` (refinement of `SendPromise`: an allowed packet comes back unsent only from a call
  that denied another one and has given up, each send is answered once), `HoldsPending` (a handler looks only at
  packets that it owns), `DeniedNeverSent` (and the new array has the allowed packets in their order), `ComesBack`.
* `OwnPackets`: `FreedOnce` (once, and not while somebody uses it), `Owned`, `IndicatedOnce` (filtered and
  indicated once, and only when it has arrived, but for a transfer that was pending), `PoolsRefill`.
* `HookedFn`: `NothingFreedIsReached`, `OneAdapter` (the last open of a context wins), `IndexIsName`,
  `Accounted` (a leak is one of the known ones).
* `FwApp`: `ListIsLive` (between requests the list is the allocated nodes and ends at `last`),
  `NothingAfterUnload`, `KnowsTheDriver` (the window says "started" only when the driver was told so, and an
  unload that returns success means that driver and service are gone), `AnswersFirstMatch` (with return
  traffic).

Each module with variables also has a type invariant, `TypeOK`, or `RuleTypeOK` in `RuleParse` (there for the width
of every field of a rule). It is proved for all of them but `DriverLife`, where only the log's is.

## Fairness

* `RuleChain`: the threads that the system schedules and a processor inside `filter_packet` go on. For taking the
  spin lock fairness is strong: the lock is not fair, but it is held for a moment and packets come with gaps.
  Nobody has to edit, to send a packet or to unload.
* `DriverLife`: the load of `ndis_hk`, the main thread, the reload thread and the log thread go on as long as
  the system has not stopped, and a producer inside `log_str_dispatch` leaves it. No fairness for logging or
  unloading.
* `FilterStack`, `SendPackets`, `OwnPackets`: a handler at raised IRQL runs to its end, the worker threads run,
  and a miniport completes what it was given, as NDIS demands.
* `HookedFn`, `FwApp`, `RuleParse` and `PacketJudge` have no liveness property: parser and judge are calls that end,
  NDIS promises nothing about when protocols open and close, and a user nothing about when he clicks.

## What is proved

Every theorem is about the specification itself, for every value of its constants that its named assumptions
allow, and follows the same argument: none of the properties is inductive, so each proof module defines an `IInv`,
the lemmas show that `Init` implies it and every step keeps it, `Invariance` concludes `Spec => []IInv`, and each
property follows from `IInv`.

**`RuleProofs`** has two parts. **The chain**, for any processors and packets, any contents of the file, any number
of edits and any failures: `TypeCorrect`, `NoUseAfterFree` (`WalkSafe`), `NothingLeaks` (`NoLeak`), `NeverMixed`
(`OneVersion`), `CleanUnload` (`Quiesced`) and `FirstMatch` (`AnswersFirstMatch`). `WalkSafe` depends on who holds
the lock, on which loaders can be at work together and on what has been freed so far. `IInv` says so part by part:
`PcOK` (labels), `LockOK` (the holder of the lock is the thread in a critical section, so there is one), `PhaseOK`
(the main thread and the reload thread never load together, packets come only between attach and detach), `ChainOK`
(what a load in progress has put into the chain, and that it is older than the line it is at), `LiveOK` (allocated
is the chain, less what a clear has passed) and `WalkOK` (the rules a walk has passed did not match).

**The parser**, for any words and any tables that read them, from `WordsAssumption`, `NumberAssumption`,
`AddressAssumption`, `PartsAssumption` and `PortsAssumption` (a keyword is no number, address or set of flags, a
numeral is written in one way, what is cut off a word is a word, ports are numbers): `RuleTypes` (`RuleTypeOK`),
`NoRuleRefused` (`TakesEveryRule`), `OnlyTheseAreLax` (`LaxOnlyInPlaces`) and `RuleMeansWhatItSays`
(`MeansWhatItSays`). The properties speak of forms, sequences glued together from optional parts; the parser knows
one word and what comes next. `LineInv` stands between: how many words have passed, where `from` is (`FromAt`), at
which place each clause is (`PlaceOK`), and what each word was taken for and what it has made of the rule
(`LineRead`); `DocWord` and `RejectRight` add that a clause refuses no documented word. `FormOf` and `FormMade`
turn a form into places and back (`FormLine`), so that a line which is rejected is shown at the one place where it
fails, and one which is taken place by place. The rest is what the fields mean: `MaskOfIs` (the mask of length `n`
is the `n` highest bits, by the least length for which it would not be), `BitIn` and `NetMatch` (a packet's address
agrees under the mask exactly when it lies in the network of the words), `PortsMean`, `FlagsMean` and
`OptionMeans`; `Marked` shows that a keyword stands at its own place only, so that what `Says` looks for by keyword
is what was read by place.

**`PacketJudgeProofs`**, for any number of fragments, any lengths and any chain of buffers, from
`LayoutAssumption`: `TypesHold`, `HeadersJudged` (`JudgesItsHeaders`) and `DeniedIncomplete` (`DeniedStaysOut`). The code
knows only what is left of the current buffer; `IInv` says where in the frame that is: before each header the
pointer is at the place that the frame itself gives it, and no buffer ends between the pointer and the end of the
current one (`CursorOK`). So a header is in one buffer exactly when what is left is enough (`InOneBuffer`). And
only the first fragment decides: if it is through, both tables allowed it (`FirstOK`).

**`FilterStackProofs`**, for any filters, processors and packets, from `NamesAssumption` (the names of the
filters, of the two ends and `NULL` differ): `TypesHold`, `ListLinked` (`Linked`), `PassedByAll` (`SeenByAll`),
`NoDetachedIsCalled` (`CalledWhileAttached`) and `OutcomeUnique` (`OneOutcome`). `IInv` says that the pointers are
those of `order`, that only the processor that holds the lock has frames, at most a packet and the RST that answers
it (`CallOK`), and that each frame is on its route (`OnRoute`): the filters that it has yet to meet are attached, and
following the pointers onward from where it is leads through them to the end. A RST enters in the middle of the
list; it has a route because that of its segment can be followed back (`Route`). What has left or is queued has been
all its way, and no two copies are of one packet (`CopiesOK`).

**`SendPacketsProofs`**, for any processors, packets and verdicts, from `CpusAssumption` (an owner is told from
a processor) and `MaxSendsAssumption`: `TypesHold`, `AnsweredOnce` (`OwedOnce`: sends equal
completions plus what is out), `HoldsWhatItOwns` (`HoldsPending`), `DeniedAreHeldBack` (`DeniedNeverSent`) and
`PromiseIsKept` (`KeepsPromise`). A handler knows
how many packets are allowed only because it counted them while nobody else could write their status: `IInv` has
for each processor that it owns exactly the packets it has yet to deal with (`Holds`), that those it has kept
are none of the ones it has yet to look at (`ArraysOK`), that `n_allow` is the number of allowed packets among
those seen and those to come (`CountOK`), that the status field says what the filters said (`VerdictsOK`), and that
what is kept comes from the packets already seen, in their order (`OrderOK`). The refinement is proved step by
step: `Decide` is `GiveUp` of the promise or a stutter, and `GiveUp` needs a denied packet, which `CountOK` and
`VerdictsOK` supply; `SendAll` and `SendKept` are `Forward`, which takes all that the handler still owns (`Holds`).

**`OwnPacketsProofs`**, for any number of calls and pools of any size, from `PoolAssumption`: `TypesHold`,
`FreesOnce` (`FreedOnce`), `NothingLost` (`Owned`) and `IndicatesOnce` (`IndicatedOnce`). `IInv` says who has
the parts of a call: its pointers while the miniport has nothing; the miniport while it has the packet, whatever
the pointers still name until the call has seen `NDIS_STATUS_PENDING`; nobody when the completion has run, also
before the call returns.

**`HookedFnProofs`**, for any protocols, bindings, names and number of blocks, from `HookedAssumption`,
`ContextAssumption` and `BlocksAssumption` (`NULL` is no context and no block): `TypesHold`, `NothingFreed`
(`NothingFreedIsReached`), `OneAdapterEach` (`OneAdapter`), `IndexKept` (`IndexIsName`) and `NoOtherLeak`
(`Accounted`). A context can have several adapters in the list of its protocol, when opens have failed and could not
be undone; the code takes the first one. `IInv` says why that is the right one: blocks are used once and put at the
head, so every list is decreasing (`ListOK`, with `FreshOK` for the blocks not used yet), and the adapter of the
last open is the greatest of its context (`Current`, `BindingOK`). `ProtocolOK` relates NDIS's view of a protocol to
the hash, and `OwnedOK` says block by block what leads to it, unless it is one of those the code forgets
(`ForgottenOK`).

**`FwAppProofs`**, for any nodes, rules, packets, processors and faults, from the named assumptions of `FwHookDrv`
and `FwApp` (there is a rule and a packet, packets have the fields of an IP header, files hold rules; the marks for
"null", "never written" and "idle" are not nodes): `TypesHold`, `ListKept` (`ListIsLive`), `DriverKnown`
(`KnowsTheDriver`), the action property `FirstMatchAnswers` (`AnswersFirstMatch`) and `NothingLeftAfterUnload`
(`NothingAfterUnload`). The last one assumes `"unregister" \notin Faults`, that the IP driver accepts the removal of
the callback: the code does not look at the answer, and with that fault the property is false (see Findings).
`ListInv` says that there is a sequence of all allocated nodes that the pointers run through, also in the middle of
`AddFilterToList`, when the last node points nowhere, and that a callback that nobody has disturbed is at a place of
that sequence before which no rule answers its packet. `ProgramInv` says where the program, the service manager and
the driver can be at once, `HookInv` that the IP driver calls only what is registered. `MatchesIsAnswers` shows that
the comparisons of `FilterPacket`, which look at both directions in turn, mean what `Answers` says.

**`DriverLifeProofs`**, for any number of exports, adapters, cards, producers and faults and a ring of any size,
from `HookFnAssumption`, `NullAssumption`, `SizeAssumption`, `MaxMsgAssumption`, `MaxFaultsAssumption` and
`BoundsAssumption`: `LogTypesHold`, `HooksAreUndone` (`HooksUndone`), `CrashesOnlyThen` (`CrashesOnlyAfter`),
`NothingIsLeft` (`LeavesNothing`) and `RingKeepsNewest` (`KeepsNewest`). `HkInv` follows the loop over the
exports in both directions: as long as no write and no search has failed, an export that leads to the hook is
one whose old value is stored or about to be. `MainInv` says what the main thread has at each step and why (for
instance that the interface is missing at the first call only when `iface` has failed), `HeldInv` that the
pointers of `log_description` name what is held, `LogInv` how the thread, the ring and the file stand to
`close_log`. A missing initialisation is always excused by a member of `failed`, which is what
`CrashesOnlyAfter` needs. For the ring the lemmas of the last part do away with the remainders (`OnCircle`,
`RoomOnCircle`, `TakeOnCircle`), and a put into a full ring is a drop followed by a put into one with room.
`LogDropsOldest` (`DropsOldest`) is the refinement: the log of both drivers' life implements `DropOldest`, with the
counts of lost messages. Those counts, and the messages in the file, are recursive functions on the positions of a
sequence. The library's induction takes an operator, which no prover here can fill in, so `NatIsInductive` shows
induction for sets of numbers (an injection of a finite set into itself is onto); from it `Recursion` has that such a
function exists, `SameRecursion` that it is the only one, and `TotalAppend`, `TotalTail`, `WrittenAppend`,
`SkipLinesAppend`, `EntriesAppend` and `EntriesTail` what an append or a tail does to it. Then `PutDropsOldest` maps
a put to the abstract `Put`, `TakeGets` a take to `Get`, and every other step, also one that writes a line that the
abstract queue has already given away, to a stutter.

**Only model-checked:** all liveness (`PolledEditApplied`, `UnloadEnds`, `EventuallyWritten`, `LifeGoesOn`,
`Decided`, `ComesBack`, `PoolsRefill`), which is out of the prover's reach. Every invariant, action property and
refinement of the runs that pass is also proved. What the proofs take as given is in the named assumptions; those
on the tables of `RuleParse` stand for `atoi` and the cuts inside a word, and TLC evaluates them on the tables of
the instance.

## Findings

* `chain_first_poll`: `reload_thread`'s first poll only remembers the write time, so an edit between the load at
  start and that poll is never applied, although `ndis_fw.conf:5` promises 5 to 10 seconds.
* `send_count`: `new_SendPacketsHandler` hands the shorter array with the count of the old one. In `SendPackets`
  the miniport then either stops the system or ignores the entries; entries that happen to be stale packets are
  not modelled.

Met on the way and recorded as hazards:

* With `"share"` in `Faults` of `RuleChain_live.cfg` `PolledEditApplied` fails, as a reload that meets an open
  editor empties the chain and is not tried again (it supposes that the file system shows the new write time
  while the editor still has the file open).
* With `"unregister"` in `Faults` of `FwApp.cfg` `NothingAfterUnload` fails, as nobody looks at whether the IP
  driver has removed the callback; and `removable` keeps a service that another program started from being
  deleted, but not its driver from being stopped.
* `AddFilterToList` links a node before its `next` is written, and the callback takes no lock (`Stray`).
* The members of `CrashNeeds`: after a failure of `open_log` `filter_free` sets an event that nobody
  initialised, and after one with the file already open `close_log` frees a ring that is not there; after a
  failure of `get_iface` `DriverEntry` calls through an interface that is zeros; after a failure before
  `init_av` `OnUnload` of `ndis_hk` walks the hash through NULL; and `find_system_dll` reads through NULL when
  it has no memory, which `DriverEntry` catches and `OnUnload` does not.
* A write to the export table that fails is not noticed, and `fix_export` writes the table before `hook_ndis`
  stores the old value: between the two the export leads to a hook that has nothing to call on. `HooksUndone`
  excepts the first; no property speaks of the second, as nothing in the code promises that the two are one
  step.
* `new_TransferDataHandler` swaps the offsets of source and destination.
* `new_TransferDataCompleteHandler` does not look at `Status`: a frame whose transfer has failed is filtered and
  indicated. `IndicatedOnce` excepts it.
* `packet.c:113` takes the offset from `ip_off` in the order of the host and `IP_DF` in that of the network,
  where it is bit 6 of the offset. The comment above it says "check we've got the first fragment (doesn't work with
  another!)", but a later fragment with that bit, as the third one of a datagram in Ethernet frames (370), is
  judged as if its payload were a header. `Misread` of `PacketJudge` excepts it. So is a header length below 5.
* A frame that ends with its Ethernet header, or with an IP header that the table allows, is read past the end of
  its chain. And a header that two buffers share is not put together: the frame is stopped.
* A datagram that `ip` rules allow is stopped all the same when it is not TCP, UDP or ICMP (`packet.c:352`).

And where the parser differs from `ndis_fw.conf`, told by `Documented`, `OneSetFlag` and `LaxOnlyInPlaces` of
`RuleParse`:

* `[<if>]` is `if <n>` in the code, as in the rules further down in the file.
* `S+F+` asks for any of the flags that are to be set, the document for all of them: `MeansWhatItSays` excepts it.
* The document calls the addresses of ICMP rules similar to those of UDP, but their ports are ignored or refused.
* `ipproto 0` is refused and `300.0.0.1` is taken for `0.0.0.0`. A code above 255 is cut to a byte, and words
  between `type` and the word with the point are skipped.
* A line that is only `allow` or `deny` is read through NULL (`flt_rule.c:92`).

## Assumptions about the outside

NDIS gives a binding one open block, keeps a context for one open at a time and lets a protocol deregister only
when its adapters are closed. A spin lock excludes. The IP driver returns from the removal of a callback when no
callback runs. `NtUnloadDriver` returns when `DrvUnload` has, and the requests of one program do not overlap.
Freed or unwritten memory is either fatal or gives any answer. To set an event that was never initialised may stop
the system or not. The producers of the log are in truth serialised by the lock of the filter stack, which
`DriverLife` does not use: it allows more orders than the code has.

## Not modelled

* The format of the export table in memory, and how `fix_export` finds a name in it: `HookNdis` has for each name
  where it leads. `memtrack.c` (debug builds), `time.c` (pure conversions), the dialogs and views.
* What is lost with a load of `ndis_hk` that fails (pools, device), and the entries still queued when the log is
  closed, which `close_log` does not promise to write.
* `get_adapter_list` but for its size and its failure, and `free_av` but for the table that it walks.
* The unlocked walks of the adapter lists in the receive handlers, and the dangling `g_tcpip_pchars` when TCP/IP
  deregisters: both are hazards without a property, as no lock or order in the code could make one hold.
* The contents of packets, and so those of the RST and its checksums; `ip_len`, which the judge does not look at
  either. `PacketJudge` has one verdict for each header of a datagram (a reload in between is in `RuleChain`) and
  no empty buffers.
* The texts, archives and links beside the sources.

## Plan

Done, in this order, the most important first: the rule chain with its proofs, the log with its abstract
specification, the filter stack, the send path, the own packets, the bookkeeping of the hooks, the second sample,
the rule parser, the life of both drivers with the patching of `ndis.sys`, the headers and fragments of the packet
judge; the proofs about the send path, the own packets, the life of the drivers, the packet judge, the filter stack,
the hooked functions and the second sample; the promise of the send path and that the handlers implement it; that
the log implements the bounded buffer, and the proofs about the rule parser.

Next, models:

1. The walks of the receive handlers over a list that a close changes, and `new_TransferDataHandler`.
2. The checksum of the RST (`in_cksum`): two folds are enough for the words of its headers.

Next, proofs:

1. `OwnPackets`: an abstract specification (a packet of `ndis_hk` is sent or freed, a frame is indicated or not) and
   its refinement.
2. `FilterStack`: that what a packet goes through is a serial order of the calls, as the lock promises.
