---------------------------- MODULE RuleProofs ----------------------------
(***************************************************************************)
(* Safety of the rules of ndis_flt: of the chain that the walks read and   *)
(* the reload thread replaces (RuleChain), and of the parser that makes a  *)
(* rule of a line of the file (RuleParse).                                 *)
(*                                                                         *)
(* RuleChain, for any number of processors, any rules file and any number  *)
(* of edits.  The inductive invariant IInv says, part by part, who holds   *)
(* the lock, which loaders can be at work together, what the chain         *)
(* consists of while a load is on its way, which of its nodes are          *)
(* allocated while they are being freed, and how far a walk has come.      *)
(*                                                                         *)
(* RuleParse, for any words and any tables that read them.  The inductive  *)
(* invariant LineInv says at which place of the line each clause is, what  *)
(* the words before it were taken for, and what they have made of the      *)
(* rule; it follows that a documented line passes every clause, and that   *)
(* the rule that comes out compares as the line says.                      *)
(***************************************************************************)
EXTENDS RuleChain, RuleParse, FiniteSetTheorems, SequenceTheorems, WellFoundedInduction, TLAPS

MainLabels == {"reload", "clear", "read", "lines", "create", "created",
               "attached", "unload", "join", "free", "gone"}
ReloaderLabels == {"none", "wait", "poll", "reload", "clear", "read", "lines",
                   "update", "exited"}

(* The labels of each kind of thread. *)
PcOK ==
  /\ pc["main"] \in MainLabels
  /\ pc["reloader"] \in ReloaderLabels
  /\ \A c \in Cpus : pc[c] \in {"idle", "acquire", "walk"}

(* The holder of the lock is the thread inside a critical section. *)
LockOK == \A t \in Threads : pc[t] \in {"clear", "walk"} <=> guard = t

(* The two loaders are never at work together, and packets come only while *)
(* the filter is attached.                                                 *)
PhaseOK ==
  /\ exit => pc["main"] \in {"join", "free", "clear", "gone"}
  /\ pc["main"] \in {"join", "free", "gone"} => exit
  /\ pc["main"] \in {"reload", "read", "lines", "create"} => pc["reloader"] = "none"
  /\ pc["main"] \in {"free", "clear", "gone"} => pc["reloader"] \in {"none", "exited"}
  /\ pc["main"] = "clear" /\ ~exit => pc["reloader"] = "none"
  /\ \A c \in Cpus : pc[c] # "idle" => pc["main"] = "attached"

(* What is in the chain, and how a load in progress bounds it. *)
ChainOK ==
  /\ \A i \in DOMAIN chain : chain[i].line \in RuleLines(chain[i].ver)
  /\ OneVersion
  /\ \A t \in Loaders : pc[t] = "read" => chain = <<>>
  /\ \A t \in Loaders : pc[t] = "lines" =>
       \A i \in DOMAIN chain :
         chain[i].gen = gen /\ chain[i].ver = buf[t] /\ chain[i].line < pos[t]
  /\ pc["main"] = "gone" => chain = <<>>

(* The allocated nodes: the chain, less what clear_flt_chain has freed. *)
LiveOK ==
  /\ guard \notin Loaders => live = ChainNodes
  /\ \A t \in Loaders : guard = t =>
       live = {chain[i] : i \in {j \in DOMAIN chain : pos[t] <= j}}

(* The rules a walk has passed did not match. *)
WalkOK ==
  \A c \in Cpus : pc[c] = "walk" =>
    \A j \in DOMAIN chain : j < pos[c] =>
      ~RuleMatches(RuleOf(chain[j]), table[c], pkt[c])

IInv == TypeOK /\ PcOK /\ LockOK /\ PhaseOK /\ ChainOK /\ LiveOK /\ WalkOK
(* Every step keeps the types. *)
LEMMA TypeStep ==
  ASSUME IInv, [Next]_vars
  PROVE  TypeOK'
PROOF
<1>. USE DEF IInv, Loaders, Threads, Goto,
             chainVars, loadVars, watchVars, fileVars, packetVars
<1>1. ASSUME NEW t \in Loaders, ClearStart(t) PROVE TypeOK'
  BY <1>1 DEF ClearStart, TypeOK
<1>2. ASSUME NEW t \in Loaders, ClearNode(t) PROVE TypeOK'
  BY <1>2 DEF ClearNode, TypeOK
<1>3. ASSUME NEW t \in Loaders, ClearEnd(t) PROVE TypeOK'
  BY <1>3 DEF ClearEnd, TypeOK, Emptied
<1>4. ASSUME NEW t \in Loaders, ReadFail(t) PROVE TypeOK'
  BY <1>4 DEF ReadFail, TypeOK, Return
<1>5. ASSUME NEW t \in Loaders, ReadFile(t) PROVE TypeOK'
  BY <1>5 DEF ReadFile, TypeOK
<1>6. ASSUME NEW t \in Loaders, SkipLine(t) PROVE TypeOK'
  BY <1>6 DEF SkipLine, TypeOK
<1>7. ASSUME NEW t \in Loaders, AddRule(t) PROVE TypeOK'
  <2>. DEFINE n == [gen |-> gen, ver |-> buf[t], line |-> pos[t]]
  <2>1. n \in Nodes
    BY <1>7 DEF TypeOK, Nodes
  <2>2. \/ chain' = Append(chain, n) /\ live' = live \cup {n}
        \/ chain' = chain /\ live' = live
    BY <1>7 DEF AddRule
  <2>. HIDE DEF n
  <2>3. chain \in Seq(Nodes) /\ live \subseteq Nodes
    BY DEF TypeOK
  <2>4. Append(chain, n) \in Seq(Nodes)
    BY <2>1, <2>3
  <2>5. chain' \in Seq(Nodes) /\ live' \subseteq Nodes
    BY <2>1, <2>2, <2>3, <2>4
  <2>. QED
    BY <2>5, <1>7 DEF AddRule, TypeOK
<1>8. ASSUME NEW t \in Loaders, LoadDone(t) PROVE TypeOK'
  BY <1>8 DEF LoadDone, TypeOK, Return
<1>9. ASSUME CreateThread PROVE TypeOK'
  BY <1>9 DEF CreateThread, TypeOK
<1>10. ASSUME CreateFail PROVE TypeOK'
  BY <1>10 DEF CreateFail, TypeOK
<1>11. ASSUME EntryFail PROVE TypeOK'
  BY <1>11 DEF EntryFail, TypeOK
<1>12. ASSUME Attach PROVE TypeOK'
  BY <1>12 DEF Attach, TypeOK
<1>13. ASSUME Detach PROVE TypeOK'
  BY <1>13 DEF Detach, TypeOK
<1>14. ASSUME SetExit PROVE TypeOK'
  BY <1>14 DEF SetExit, TypeOK
<1>15. ASSUME Join PROVE TypeOK'
  BY <1>15 DEF Join, TypeOK
<1>16. ASSUME Wake PROVE TypeOK'
  BY <1>16 DEF Wake, TypeOK, WakeTo
<1>17. ASSUME PollFail PROVE TypeOK'
  BY <1>17 DEF PollFail, TypeOK
<1>18. ASSUME Poll PROVE TypeOK'
  BY <1>18 DEF Poll, TypeOK
<1>19. ASSUME Update PROVE TypeOK'
  BY <1>19 DEF Update, TypeOK, Remembered
<1>20. ASSUME Replace PROVE TypeOK'
  BY VersionAssumption, <1>20 DEF Replace, TypeOK, Versions
<1>21. ASSUME OpenForEdit PROVE TypeOK'
  BY <1>21 DEF OpenForEdit, TypeOK
<1>22. ASSUME WriteFile PROVE TypeOK'
  BY VersionAssumption, <1>22 DEF WriteFile, TypeOK, Versions
<1>23. ASSUME CloseFile PROVE TypeOK'
  BY <1>23 DEF CloseFile, TypeOK
<1>24. ASSUME NEW c \in Cpus, Receive(c) PROVE TypeOK'
  BY <1>24 DEF Receive, TypeOK, Tables
<1>25. ASSUME NEW c \in Cpus, WalkStart(c) PROVE TypeOK'
  BY <1>25 DEF WalkStart, TypeOK, FirstRule
<1>26. ASSUME NEW c \in Cpus, WalkOn(c) PROVE TypeOK'
  BY <1>26 DEF WalkOn, TypeOK
<1>27. ASSUME NEW c \in Cpus, WalkHit(c) PROVE TypeOK'
  <2>1. RuleOf(chain[pos[c]]).result \in Verdicts
    <3>1. pos[c] \in DOMAIN chain
      BY <1>27 DEF WalkHit, TypeOK
    <3>2. chain[pos[c]] \in Nodes /\ chain[pos[c]].line \in RuleLines(chain[pos[c]].ver)
      BY <3>1 DEF ChainOK, TypeOK
    <3>. QED
      BY <3>2, ContentAssumption DEF RuleOf, RuleLines, Nodes
  <2>2. /\ result' \in [Cpus -> Verdicts \cup {"unknown"}]
        /\ table' \in [Cpus -> Tables]
        /\ pc' = [pc EXCEPT ![c] = "acquire"] \/ pc' = [pc EXCEPT ![c] = "idle"]
    BY <2>1, <1>27 DEF WalkHit, Answer, NoTable, Tables, TypeOK
  <2>3. guard' = "free" /\ UNCHANGED <<chainVars, pos, loadVars, watchVars, fileVars, pkt>>
    BY <1>27 DEF WalkHit, Answer
  <2>. QED
    BY <2>2, <2>3 DEF TypeOK
<1>28. ASSUME NEW c \in Cpus, WalkEnd(c) PROVE TypeOK'
  <2>1. "allow" \in Verdicts
    BY DEF Verdicts
  <2>2. /\ result' \in [Cpus -> Verdicts \cup {"unknown"}]
        /\ table' \in [Cpus -> Tables]
        /\ pc' = [pc EXCEPT ![c] = "acquire"] \/ pc' = [pc EXCEPT ![c] = "idle"]
    BY <2>1, <1>28 DEF WalkEnd, Answer, NoTable, Tables, TypeOK
  <2>3. guard' = "free" /\ UNCHANGED <<chainVars, pos, loadVars, watchVars, fileVars, pkt>>
    BY <1>28 DEF WalkEnd, Answer
  <2>. QED
    BY <2>2, <2>3 DEF TypeOK
<1>29. ASSUME UNCHANGED vars PROVE TypeOK'
  BY <1>29 DEF vars, TypeOK
<1>. QED
  BY <1>1, <1>2, <1>3, <1>4, <1>5, <1>6, <1>7, <1>8, <1>9, <1>10, <1>11, <1>12, <1>13, <1>14, <1>15, <1>16, <1>17, <1>18, <1>19, <1>20, <1>21, <1>22, <1>23, <1>24, <1>25, <1>26, <1>27, <1>28, <1>29 DEF Next, Load, Main, Watch, Edit, Walk

(* Every step keeps each kind of thread to its own labels. *)
LEMMA LabelStep ==
  ASSUME IInv, [Next]_vars
  PROVE  PcOK'
PROOF
<1>. USE CpusAssumption DEF IInv, Loaders, Threads, Goto, MainLabels, ReloaderLabels
<1>1. ASSUME NEW t \in Loaders, ClearStart(t) PROVE PcOK'
  BY <1>1 DEF ClearStart, TypeOK, PcOK
<1>2. ASSUME NEW t \in Loaders, ClearNode(t) PROVE PcOK'
  BY <1>2 DEF ClearNode, TypeOK, PcOK
<1>3. ASSUME NEW t \in Loaders, ClearEnd(t) PROVE PcOK'
  BY <1>3 DEF ClearEnd, TypeOK, PcOK
<1>4. ASSUME NEW t \in Loaders, ReadFail(t) PROVE PcOK'
  BY <1>4 DEF ReadFail, TypeOK, PcOK, Return
<1>5. ASSUME NEW t \in Loaders, ReadFile(t) PROVE PcOK'
  BY <1>5 DEF ReadFile, TypeOK, PcOK
<1>6. ASSUME NEW t \in Loaders, SkipLine(t) PROVE PcOK'
  BY <1>6 DEF SkipLine, TypeOK, PcOK
<1>7. ASSUME NEW t \in Loaders, AddRule(t) PROVE PcOK'
  BY <1>7 DEF AddRule, TypeOK, PcOK
<1>8. ASSUME NEW t \in Loaders, LoadDone(t) PROVE PcOK'
  BY <1>8 DEF LoadDone, TypeOK, PcOK, Return
<1>9. ASSUME CreateThread PROVE PcOK'
  BY <1>9 DEF CreateThread, TypeOK, PcOK
<1>10. ASSUME CreateFail PROVE PcOK'
  BY <1>10 DEF CreateFail, TypeOK, PcOK
<1>11. ASSUME EntryFail PROVE PcOK'
  BY <1>11 DEF EntryFail, TypeOK, PcOK
<1>12. ASSUME Attach PROVE PcOK'
  BY <1>12 DEF Attach, TypeOK, PcOK
<1>13. ASSUME Detach PROVE PcOK'
  BY <1>13 DEF Detach, TypeOK, PcOK
<1>14. ASSUME SetExit PROVE PcOK'
  BY <1>14 DEF SetExit, TypeOK, PcOK
<1>15. ASSUME Join PROVE PcOK'
  BY <1>15 DEF Join, TypeOK, PcOK
<1>16. ASSUME Wake PROVE PcOK'
  BY <1>16 DEF Wake, TypeOK, PcOK, WakeTo
<1>17. ASSUME PollFail PROVE PcOK'
  BY <1>17 DEF PollFail, TypeOK, PcOK
<1>18. ASSUME Poll PROVE PcOK'
  BY <1>18 DEF Poll, TypeOK, PcOK
<1>19. ASSUME Update PROVE PcOK'
  BY <1>19 DEF Update, TypeOK, PcOK
<1>20. ASSUME Replace PROVE PcOK'
  BY <1>20 DEF Replace, TypeOK, PcOK
<1>21. ASSUME OpenForEdit PROVE PcOK'
  BY <1>21 DEF OpenForEdit, TypeOK, PcOK
<1>22. ASSUME WriteFile PROVE PcOK'
  BY <1>22 DEF WriteFile, TypeOK, PcOK
<1>23. ASSUME CloseFile PROVE PcOK'
  BY <1>23 DEF CloseFile, TypeOK, PcOK
<1>24. ASSUME NEW c \in Cpus, Receive(c) PROVE PcOK'
  BY <1>24 DEF Receive, TypeOK, PcOK
<1>25. ASSUME NEW c \in Cpus, WalkStart(c) PROVE PcOK'
  BY <1>25 DEF WalkStart, TypeOK, PcOK
<1>26. ASSUME NEW c \in Cpus, WalkOn(c) PROVE PcOK'
  BY <1>26 DEF WalkOn, TypeOK, PcOK
<1>27. ASSUME NEW c \in Cpus, WalkHit(c) PROVE PcOK'
  BY <1>27 DEF WalkHit, TypeOK, PcOK, Answer
<1>28. ASSUME NEW c \in Cpus, WalkEnd(c) PROVE PcOK'
  BY <1>28 DEF WalkEnd, TypeOK, PcOK, Answer
<1>29. ASSUME UNCHANGED vars PROVE PcOK'
  BY <1>29 DEF vars, PcOK
<1>. QED
  BY <1>1, <1>2, <1>3, <1>4, <1>5, <1>6, <1>7, <1>8, <1>9, <1>10, <1>11, <1>12, <1>13, <1>14, <1>15, <1>16, <1>17, <1>18, <1>19, <1>20, <1>21, <1>22, <1>23, <1>24, <1>25, <1>26, <1>27, <1>28, <1>29 DEF Next, Load, Main, Watch, Edit, Walk


(* Every step keeps the lock with the thread inside the critical section. *)
LEMMA LockStep ==
  ASSUME IInv, [Next]_vars
  PROVE  LockOK'
PROOF
<1>. USE CpusAssumption DEF IInv, Loaders, Threads, Goto
<1>1. ASSUME NEW t \in Loaders, ClearStart(t) PROVE LockOK'
  BY <1>1 DEF ClearStart, PcOK, LockOK, TypeOK, CanClear
<1>2. ASSUME NEW t \in Loaders, ClearNode(t) PROVE LockOK'
  BY <1>2 DEF ClearNode, PcOK, LockOK, TypeOK
<1>3. ASSUME NEW t \in Loaders, ClearEnd(t) PROVE LockOK'
  BY <1>3 DEF ClearEnd, PcOK, LockOK, TypeOK
<1>4. ASSUME NEW t \in Loaders, ReadFail(t) PROVE LockOK'
  BY <1>4 DEF ReadFail, PcOK, LockOK, TypeOK, Return
<1>5. ASSUME NEW t \in Loaders, ReadFile(t) PROVE LockOK'
  BY <1>5 DEF ReadFile, PcOK, LockOK, TypeOK
<1>6. ASSUME NEW t \in Loaders, SkipLine(t) PROVE LockOK'
  BY <1>6 DEF SkipLine, PcOK, LockOK, TypeOK
<1>7. ASSUME NEW t \in Loaders, AddRule(t) PROVE LockOK'
  BY <1>7 DEF AddRule, PcOK, LockOK, TypeOK
<1>8. ASSUME NEW t \in Loaders, LoadDone(t) PROVE LockOK'
  BY <1>8 DEF LoadDone, PcOK, LockOK, TypeOK, Return
<1>9. ASSUME CreateThread PROVE LockOK'
  BY <1>9 DEF CreateThread, PcOK, LockOK, TypeOK, PhaseOK
<1>10. ASSUME CreateFail PROVE LockOK'
  BY <1>10 DEF CreateFail, PcOK, LockOK, TypeOK
<1>11. ASSUME EntryFail PROVE LockOK'
  BY <1>11 DEF EntryFail, PcOK, LockOK, TypeOK
<1>12. ASSUME Attach PROVE LockOK'
  BY <1>12 DEF Attach, PcOK, LockOK, TypeOK
<1>13. ASSUME Detach PROVE LockOK'
  BY <1>13 DEF Detach, PcOK, LockOK, TypeOK
<1>14. ASSUME SetExit PROVE LockOK'
  BY <1>14 DEF SetExit, PcOK, LockOK, TypeOK
<1>15. ASSUME Join PROVE LockOK'
  BY <1>15 DEF Join, PcOK, LockOK, TypeOK
<1>16. ASSUME Wake PROVE LockOK'
  BY <1>16 DEF Wake, PcOK, LockOK, TypeOK, WakeTo
<1>17. ASSUME PollFail PROVE LockOK'
  BY <1>17 DEF PollFail, PcOK, LockOK, TypeOK
<1>18. ASSUME Poll PROVE LockOK'
  BY <1>18 DEF Poll, PcOK, LockOK, TypeOK
<1>19. ASSUME Update PROVE LockOK'
  BY <1>19 DEF Update, PcOK, LockOK, TypeOK
<1>20. ASSUME Replace PROVE LockOK'
  BY <1>20 DEF Replace, PcOK, LockOK, TypeOK
<1>21. ASSUME OpenForEdit PROVE LockOK'
  BY <1>21 DEF OpenForEdit, PcOK, LockOK, TypeOK
<1>22. ASSUME WriteFile PROVE LockOK'
  BY <1>22 DEF WriteFile, PcOK, LockOK, TypeOK
<1>23. ASSUME CloseFile PROVE LockOK'
  BY <1>23 DEF CloseFile, PcOK, LockOK, TypeOK
<1>24. ASSUME NEW c \in Cpus, Receive(c) PROVE LockOK'
  BY <1>24 DEF Receive, PcOK, LockOK, TypeOK
<1>25. ASSUME NEW c \in Cpus, WalkStart(c) PROVE LockOK'
  BY <1>25 DEF WalkStart, PcOK, LockOK, TypeOK
<1>26. ASSUME NEW c \in Cpus, WalkOn(c) PROVE LockOK'
  BY <1>26 DEF WalkOn, PcOK, LockOK, TypeOK
<1>27. ASSUME NEW c \in Cpus, WalkHit(c) PROVE LockOK'
  <2>1. \/ pc' = [pc EXCEPT ![c] = "acquire"]
        \/ pc' = [pc EXCEPT ![c] = "idle"]
    BY <1>27 DEF WalkHit, Answer
  <2>2. guard' = "free" /\ pc[c] = "walk"
    BY <1>27 DEF WalkHit, Answer
  <2>3. guard = c
    BY <2>2 DEF LockOK, Threads
  <2>4. ASSUME NEW t \in Threads PROVE pc'[t] \notin {"clear", "walk"}
    <3>1. CASE t = c
      BY <2>1, <3>1 DEF TypeOK
    <3>2. CASE t # c
      BY <2>1, <2>3, <3>2 DEF LockOK, TypeOK
    <3>. QED
      BY <3>1, <3>2
  <2>. QED
    BY <2>2, <2>4, CpusAssumption DEF LockOK, Threads, Loaders
<1>28. ASSUME NEW c \in Cpus, WalkEnd(c) PROVE LockOK'
  <2>1. \/ pc' = [pc EXCEPT ![c] = "acquire"]
        \/ pc' = [pc EXCEPT ![c] = "idle"]
    BY <1>28 DEF WalkEnd, Answer
  <2>2. guard' = "free" /\ pc[c] = "walk"
    BY <1>28 DEF WalkEnd, Answer
  <2>3. guard = c
    BY <2>2 DEF LockOK, Threads
  <2>4. ASSUME NEW t \in Threads PROVE pc'[t] \notin {"clear", "walk"}
    <3>1. CASE t = c
      BY <2>1, <3>1 DEF TypeOK
    <3>2. CASE t # c
      BY <2>1, <2>3, <3>2 DEF LockOK, TypeOK
    <3>. QED
      BY <3>1, <3>2
  <2>. QED
    BY <2>2, <2>4, CpusAssumption DEF LockOK, Threads, Loaders
<1>29. ASSUME UNCHANGED vars PROVE LockOK'
  BY <1>29 DEF vars, LockOK
<1>. QED
  BY <1>1, <1>2, <1>3, <1>4, <1>5, <1>6, <1>7, <1>8, <1>9, <1>10, <1>11, <1>12, <1>13, <1>14, <1>15, <1>16, <1>17, <1>18, <1>19, <1>20, <1>21, <1>22, <1>23, <1>24, <1>25, <1>26, <1>27, <1>28, <1>29 DEF Next, Load, Main, Watch, Edit, Walk

(* Every step keeps the loaders apart, and the packets to the attached     *)
(* filter.                                                                 *)
LEMMA PhaseStep ==
  ASSUME IInv, [Next]_vars
  PROVE  PhaseOK'
PROOF
<1>. USE CpusAssumption DEF IInv, Loaders, Threads, Goto, MainLabels, ReloaderLabels, loadVars
<1>1. ASSUME NEW t \in Loaders, ClearStart(t) PROVE PhaseOK'
  BY <1>1 DEF ClearStart, PcOK, PhaseOK, TypeOK
<1>2. ASSUME NEW t \in Loaders, ClearNode(t) PROVE PhaseOK'
  BY <1>2 DEF ClearNode, PcOK, PhaseOK, TypeOK
<1>3. ASSUME NEW t \in Loaders, ClearEnd(t) PROVE PhaseOK'
  BY <1>3 DEF ClearEnd, PcOK, PhaseOK, TypeOK
<1>4. ASSUME NEW t \in Loaders, ReadFail(t) PROVE PhaseOK'
  BY <1>4 DEF ReadFail, PcOK, PhaseOK, TypeOK, Return
<1>5. ASSUME NEW t \in Loaders, ReadFile(t) PROVE PhaseOK'
  BY <1>5 DEF ReadFile, PcOK, PhaseOK, TypeOK
<1>6. ASSUME NEW t \in Loaders, SkipLine(t) PROVE PhaseOK'
  BY <1>6 DEF SkipLine, PcOK, PhaseOK, TypeOK
<1>7. ASSUME NEW t \in Loaders, AddRule(t) PROVE PhaseOK'
  BY <1>7 DEF AddRule, PcOK, PhaseOK, TypeOK
<1>8. ASSUME NEW t \in Loaders, LoadDone(t) PROVE PhaseOK'
  BY <1>8 DEF LoadDone, PcOK, PhaseOK, TypeOK, Return
<1>9. ASSUME CreateThread PROVE PhaseOK'
  BY <1>9 DEF CreateThread, PcOK, PhaseOK, TypeOK
<1>10. ASSUME CreateFail PROVE PhaseOK'
  BY <1>10 DEF CreateFail, PcOK, PhaseOK, TypeOK
<1>11. ASSUME EntryFail PROVE PhaseOK'
  BY <1>11 DEF EntryFail, PcOK, PhaseOK, TypeOK
<1>12. ASSUME Attach PROVE PhaseOK'
  BY <1>12 DEF Attach, PcOK, PhaseOK, TypeOK, HkGuardFree
<1>13. ASSUME Detach PROVE PhaseOK'
  BY <1>13 DEF Detach, PcOK, PhaseOK, TypeOK, HkGuardFree
<1>14. ASSUME SetExit PROVE PhaseOK'
  BY <1>14 DEF SetExit, PcOK, PhaseOK, TypeOK
<1>15. ASSUME Join PROVE PhaseOK'
  BY <1>15 DEF Join, PcOK, PhaseOK, TypeOK, Joined
<1>16. ASSUME Wake PROVE PhaseOK'
  BY <1>16 DEF Wake, PcOK, PhaseOK, TypeOK, WakeTo
<1>17. ASSUME PollFail PROVE PhaseOK'
  BY <1>17 DEF PollFail, PcOK, PhaseOK, TypeOK
<1>18. ASSUME Poll PROVE PhaseOK'
  BY <1>18 DEF Poll, PcOK, PhaseOK, TypeOK
<1>19. ASSUME Update PROVE PhaseOK'
  BY <1>19 DEF Update, PcOK, PhaseOK, TypeOK
<1>20. ASSUME Replace PROVE PhaseOK'
  BY <1>20 DEF Replace, PcOK, PhaseOK, TypeOK
<1>21. ASSUME OpenForEdit PROVE PhaseOK'
  BY <1>21 DEF OpenForEdit, PcOK, PhaseOK, TypeOK
<1>22. ASSUME WriteFile PROVE PhaseOK'
  BY <1>22 DEF WriteFile, PcOK, PhaseOK, TypeOK
<1>23. ASSUME CloseFile PROVE PhaseOK'
  BY <1>23 DEF CloseFile, PcOK, PhaseOK, TypeOK
<1>24. ASSUME NEW c \in Cpus, Receive(c) PROVE PhaseOK'
  BY <1>24 DEF Receive, PcOK, PhaseOK, TypeOK
<1>25. ASSUME NEW c \in Cpus, WalkStart(c) PROVE PhaseOK'
  BY <1>25 DEF WalkStart, PcOK, PhaseOK, TypeOK
<1>26. ASSUME NEW c \in Cpus, WalkOn(c) PROVE PhaseOK'
  BY <1>26 DEF WalkOn, PcOK, PhaseOK, TypeOK
<1>27. ASSUME NEW c \in Cpus, WalkHit(c) PROVE PhaseOK'
  BY <1>27 DEF WalkHit, PcOK, PhaseOK, TypeOK, Answer
<1>28. ASSUME NEW c \in Cpus, WalkEnd(c) PROVE PhaseOK'
  BY <1>28 DEF WalkEnd, PcOK, PhaseOK, TypeOK, Answer
<1>29. ASSUME UNCHANGED vars PROVE PhaseOK'
  BY <1>29 DEF vars, PhaseOK, loadVars
<1>. QED
  BY <1>1, <1>2, <1>3, <1>4, <1>5, <1>6, <1>7, <1>8, <1>9, <1>10, <1>11, <1>12, <1>13, <1>14, <1>15, <1>16, <1>17, <1>18, <1>19, <1>20, <1>21, <1>22, <1>23, <1>24, <1>25, <1>26, <1>27, <1>28, <1>29 DEF Next, Load, Main, Watch, Edit, Walk


(* Every step keeps the chain one read of the file, in order. *)
LEMMA ChainStep ==
  ASSUME IInv, [Next]_vars
  PROVE  ChainOK'
PROOF
<1>. USE CpusAssumption DEF IInv, Loaders, Threads, Goto, chainVars, loadVars
<1>0. \A i \in DOMAIN chain : chain[i] \in Nodes
  BY DEF TypeOK
<1>1. ASSUME NEW t \in Loaders, ClearStart(t) PROVE ChainOK'
  BY <1>1 DEF ClearStart, PcOK, PhaseOK, ChainOK, OneVersion, TypeOK
<1>2. ASSUME NEW t \in Loaders, ClearNode(t) PROVE ChainOK'
  BY <1>2 DEF ClearNode, PcOK, PhaseOK, ChainOK, OneVersion, TypeOK
<1>3. ASSUME NEW t \in Loaders, ClearEnd(t) PROVE ChainOK'
  BY <1>3 DEF ClearEnd, PcOK, PhaseOK, ChainOK, OneVersion, TypeOK, Emptied
<1>4. ASSUME NEW t \in Loaders, ReadFail(t) PROVE ChainOK'
  BY <1>4 DEF ReadFail, PcOK, PhaseOK, ChainOK, OneVersion, TypeOK, Return
<1>5. ASSUME NEW t \in Loaders, ReadFile(t) PROVE ChainOK'
  BY <1>5 DEF ReadFile, PcOK, PhaseOK, ChainOK, OneVersion, TypeOK
<1>6. ASSUME NEW t \in Loaders, SkipLine(t) PROVE ChainOK'
  <2>1. \A i \in DOMAIN chain : chain[i].line < pos[t] => chain[i].line < pos[t] + 1
    BY <1>0 DEF TypeOK, Nodes
  <2>. QED
    BY <2>1, <1>6 DEF SkipLine, PcOK, PhaseOK, ChainOK, OneVersion, TypeOK
<1>7. ASSUME NEW t \in Loaders, AddRule(t) PROVE ChainOK'
  <2>. DEFINE n == [gen |-> gen, ver |-> buf[t], line |-> pos[t]]
  <2>1. CASE UNCHANGED chain
    <3>1. \A i \in DOMAIN chain : chain[i].line < pos[t] => chain[i].line < pos[t] + 1
      BY <1>0 DEF TypeOK, Nodes
    <3>. QED
      BY <3>1, <2>1, <1>7 DEF AddRule, ChainOK, OneVersion, PcOK, PhaseOK, TypeOK
  <2>2. CASE chain' = Append(chain, n)
    <3>1. chain \in Seq(Nodes)
      BY DEF TypeOK
    <3>2. /\ DOMAIN chain' = DOMAIN chain \cup {Len(chain) + 1}
          /\ \A i \in DOMAIN chain : chain'[i] = chain[i] /\ i < Len(chain) + 1
          /\ chain'[Len(chain) + 1] = n
      BY <3>1, <2>2
    <3>3. n.line \in RuleLines(n.ver)
      BY <1>7, ContentAssumption DEF AddRule, LineAt, RuleLines, TypeOK
    <3>4. \A i \in DOMAIN chain :
            chain[i].gen = gen /\ chain[i].ver = buf[t] /\ chain[i].line < pos[t]
      BY <1>7 DEF AddRule, ChainOK
    <3>5. \A i \in DOMAIN chain' : chain'[i].line \in RuleLines(chain'[i].ver)
      BY <3>2, <3>3 DEF ChainOK
    <3>6. OneVersion'
      <4>. SUFFICES ASSUME NEW i \in DOMAIN chain', NEW j \in DOMAIN chain', i < j
                    PROVE  /\ chain'[i].gen = chain'[j].gen /\ chain'[i].ver = chain'[j].ver
                           /\ chain'[i].line < chain'[j].line
        BY DEF OneVersion
      <4>1. i \in DOMAIN chain
        BY <3>1, <3>2
      <4>2. CASE j \in DOMAIN chain
        BY <4>1, <4>2, <3>2 DEF ChainOK, OneVersion
      <4>3. CASE j = Len(chain) + 1
        BY <4>1, <4>3, <3>2, <3>4
      <4>. QED
        BY <4>2, <4>3, <3>2
    <3>7. \A i \in DOMAIN chain' :
            chain'[i].gen = gen /\ chain'[i].ver = buf[t] /\ chain'[i].line < pos[t] + 1
      BY <1>0, <3>2, <3>4 DEF TypeOK, Nodes
    <3>8. /\ pos'[t] = pos[t] + 1 /\ pc[t] = "lines"
          /\ UNCHANGED <<gen, pc, buf>>
      BY <1>7 DEF AddRule, TypeOK
    <3>9. pc["main"] # "gone" /\ \A l \in Loaders : pc[l] \in {"read", "lines"} => l = t
      BY <3>8 DEF PcOK, PhaseOK
    <3>. QED
      BY <3>5, <3>6, <3>7, <3>8, <3>9 DEF ChainOK
  <2>. QED
    BY <1>7, <2>1, <2>2 DEF AddRule
<1>8. ASSUME NEW t \in Loaders, LoadDone(t) PROVE ChainOK'
  BY <1>8 DEF LoadDone, PcOK, PhaseOK, ChainOK, OneVersion, TypeOK, Return
<1>9. ASSUME CreateThread PROVE ChainOK'
  BY <1>9 DEF CreateThread, PcOK, PhaseOK, ChainOK, OneVersion, TypeOK
<1>10. ASSUME CreateFail PROVE ChainOK'
  BY <1>10 DEF CreateFail, PcOK, PhaseOK, ChainOK, OneVersion, TypeOK
<1>11. ASSUME EntryFail PROVE ChainOK'
  BY <1>11 DEF EntryFail, PcOK, PhaseOK, ChainOK, OneVersion, TypeOK
<1>12. ASSUME Attach PROVE ChainOK'
  BY <1>12 DEF Attach, PcOK, PhaseOK, ChainOK, OneVersion, TypeOK
<1>13. ASSUME Detach PROVE ChainOK'
  BY <1>13 DEF Detach, PcOK, PhaseOK, ChainOK, OneVersion, TypeOK
<1>14. ASSUME SetExit PROVE ChainOK'
  BY <1>14 DEF SetExit, PcOK, PhaseOK, ChainOK, OneVersion, TypeOK
<1>15. ASSUME Join PROVE ChainOK'
  BY <1>15 DEF Join, PcOK, PhaseOK, ChainOK, OneVersion, TypeOK, Joined
<1>16. ASSUME Wake PROVE ChainOK'
  BY <1>16 DEF Wake, PcOK, PhaseOK, ChainOK, OneVersion, TypeOK, WakeTo
<1>17. ASSUME PollFail PROVE ChainOK'
  BY <1>17 DEF PollFail, PcOK, PhaseOK, ChainOK, OneVersion, TypeOK
<1>18. ASSUME Poll PROVE ChainOK'
  BY <1>18 DEF Poll, PcOK, PhaseOK, ChainOK, OneVersion, TypeOK
<1>19. ASSUME Update PROVE ChainOK'
  BY <1>19 DEF Update, PcOK, PhaseOK, ChainOK, OneVersion, TypeOK
<1>20. ASSUME Replace PROVE ChainOK'
  BY <1>20 DEF Replace, PcOK, PhaseOK, ChainOK, OneVersion, TypeOK
<1>21. ASSUME OpenForEdit PROVE ChainOK'
  BY <1>21 DEF OpenForEdit, PcOK, PhaseOK, ChainOK, OneVersion, TypeOK
<1>22. ASSUME WriteFile PROVE ChainOK'
  BY <1>22 DEF WriteFile, PcOK, PhaseOK, ChainOK, OneVersion, TypeOK
<1>23. ASSUME CloseFile PROVE ChainOK'
  BY <1>23 DEF CloseFile, PcOK, PhaseOK, ChainOK, OneVersion, TypeOK
<1>24. ASSUME NEW c \in Cpus, Receive(c) PROVE ChainOK'
  BY <1>24 DEF Receive, PcOK, PhaseOK, ChainOK, OneVersion, TypeOK
<1>25. ASSUME NEW c \in Cpus, WalkStart(c) PROVE ChainOK'
  BY <1>25 DEF WalkStart, PcOK, PhaseOK, ChainOK, OneVersion, TypeOK
<1>26. ASSUME NEW c \in Cpus, WalkOn(c) PROVE ChainOK'
  BY <1>26 DEF WalkOn, PcOK, PhaseOK, ChainOK, OneVersion, TypeOK
<1>27. ASSUME NEW c \in Cpus, WalkHit(c) PROVE ChainOK'
  <2>1. \/ pc' = [pc EXCEPT ![c] = "acquire"]
        \/ pc' = [pc EXCEPT ![c] = "idle"]
    BY <1>27 DEF WalkHit, Answer
  <2>2. UNCHANGED <<chain, gen, buf, pos>>
    BY <1>27 DEF WalkHit, Answer
  <2>. QED
    BY <2>1, <2>2 DEF PcOK, ChainOK, OneVersion, TypeOK
<1>28. ASSUME NEW c \in Cpus, WalkEnd(c) PROVE ChainOK'
  <2>1. \/ pc' = [pc EXCEPT ![c] = "acquire"]
        \/ pc' = [pc EXCEPT ![c] = "idle"]
    BY <1>28 DEF WalkEnd, Answer
  <2>2. UNCHANGED <<chain, gen, buf, pos>>
    BY <1>28 DEF WalkEnd, Answer
  <2>. QED
    BY <2>1, <2>2 DEF PcOK, ChainOK, OneVersion, TypeOK
<1>29. ASSUME UNCHANGED vars PROVE ChainOK'
  BY <1>29 DEF vars, ChainOK, OneVersion
<1>. QED
  BY <1>1, <1>2, <1>3, <1>4, <1>5, <1>6, <1>7, <1>8, <1>9, <1>10, <1>11, <1>12, <1>13, <1>14, <1>15, <1>16, <1>17, <1>18, <1>19, <1>20, <1>21, <1>22, <1>23, <1>24, <1>25, <1>26, <1>27, <1>28, <1>29 DEF Next, Load, Main, Watch, Edit, Walk


(* Every step keeps the allocated rules those the chain and its loader     *)
(* account for.                                                            *)
LEMMA LiveStep ==
  ASSUME IInv, [Next]_vars
  PROVE  LiveOK'
PROOF
<1>. USE CpusAssumption DEF IInv, Loaders, Threads, Goto, chainVars
<1>0. \A i \in DOMAIN chain : chain[i] \in Nodes
  BY DEF TypeOK
<1>1. ASSUME NEW t \in Loaders, ClearStart(t) PROVE LiveOK'
  BY <1>1 DEF ClearStart, LockOK, LiveOK, ChainNodes, TypeOK, CanClear
<1>2. ASSUME NEW t \in Loaders, ClearNode(t) PROVE LiveOK'
  <2>1. guard = t /\ pos[t] \in DOMAIN chain
    BY <1>2 DEF ClearNode, ToFree, LockOK, TypeOK
  <2>2. live = {chain[i] : i \in {j \in DOMAIN chain : pos[t] <= j}}
    BY <2>1 DEF LiveOK
  <2>3. \A j \in DOMAIN chain : pos[t] + 1 <= j <=> pos[t] <= j /\ j # pos[t]
    BY DEF TypeOK
  <2>4. \A i, j \in DOMAIN chain : i < j => chain[i] # chain[j]
    BY <1>0 DEF ChainOK, OneVersion, Nodes
  <2>5. \A j \in DOMAIN chain : j # pos[t] => chain[j] # chain[pos[t]]
    <3>1. \A j \in DOMAIN chain : j # pos[t] => j < pos[t] \/ pos[t] < j
      BY <2>1 DEF TypeOK
    <3>. QED
      BY <2>1, <2>4, <3>1
  <2>6. live' = {chain[i] : i \in {j \in DOMAIN chain : pos[t] + 1 <= j}}
    BY <2>2, <2>3, <2>5, <1>2 DEF ClearNode
  <2>7. pos'[t] = pos[t] + 1 /\ UNCHANGED <<chain, guard>>
    BY <1>2 DEF ClearNode, TypeOK
  <2>. QED
    BY <2>1, <2>6, <2>7 DEF LiveOK
<1>3. ASSUME NEW t \in Loaders, ClearEnd(t) PROVE LiveOK'
  <2>1. guard = t /\ \A j \in DOMAIN chain : ~(pos[t] <= j)
    BY <1>3 DEF ClearEnd, ToFree, LockOK, TypeOK
  <2>2. live = {}
    BY <2>1 DEF LiveOK
  <2>. QED
    BY <2>2, <1>3 DEF ClearEnd, Emptied, LiveOK, ChainNodes
<1>4. ASSUME NEW t \in Loaders, ReadFail(t) PROVE LiveOK'
  BY <1>4 DEF ReadFail, LockOK, LiveOK, ChainNodes, TypeOK
<1>5. ASSUME NEW t \in Loaders, ReadFile(t) PROVE LiveOK'
  BY <1>5 DEF ReadFile, LockOK, LiveOK, ChainNodes, TypeOK
<1>6. ASSUME NEW t \in Loaders, SkipLine(t) PROVE LiveOK'
  BY <1>6 DEF SkipLine, LockOK, LiveOK, ChainNodes, TypeOK
<1>7. ASSUME NEW t \in Loaders, AddRule(t) PROVE LiveOK'
  <2>. DEFINE n == [gen |-> gen, ver |-> buf[t], line |-> pos[t]]
  <2>1. guard = "free" /\ guard' = "free" /\ live = ChainNodes
    BY <1>7 DEF AddRule, LiveOK
  <2>2. CASE UNCHANGED <<chain, live>>
    BY <2>1, <2>2 DEF LiveOK, ChainNodes
  <2>3. CASE chain' = Append(chain, n) /\ live' = live \cup {n}
    <3>1. chain \in Seq(Nodes)
      BY DEF TypeOK
    <3>2. /\ DOMAIN chain' = DOMAIN chain \cup {Len(chain) + 1}
          /\ \A i \in DOMAIN chain : chain'[i] = chain[i]
          /\ chain'[Len(chain) + 1] = n
      BY <3>1, <2>3
    <3>. HIDE DEF n
    <3>3. ChainNodes' = ChainNodes \cup {n}
      BY <3>2 DEF ChainNodes
    <3>. QED
      BY <3>3, <2>1, <2>3 DEF LiveOK
  <2>. QED
    BY <1>7, <2>2, <2>3 DEF AddRule
<1>8. ASSUME NEW t \in Loaders, LoadDone(t) PROVE LiveOK'
  BY <1>8 DEF LoadDone, LockOK, LiveOK, ChainNodes, TypeOK
<1>9. ASSUME CreateThread PROVE LiveOK'
  BY <1>9 DEF CreateThread, LockOK, LiveOK, ChainNodes, TypeOK
<1>10. ASSUME CreateFail PROVE LiveOK'
  BY <1>10 DEF CreateFail, LockOK, LiveOK, ChainNodes, TypeOK
<1>11. ASSUME EntryFail PROVE LiveOK'
  BY <1>11 DEF EntryFail, LockOK, LiveOK, ChainNodes, TypeOK
<1>12. ASSUME Attach PROVE LiveOK'
  BY <1>12 DEF Attach, LockOK, LiveOK, ChainNodes, TypeOK
<1>13. ASSUME Detach PROVE LiveOK'
  BY <1>13 DEF Detach, LockOK, LiveOK, ChainNodes, TypeOK
<1>14. ASSUME SetExit PROVE LiveOK'
  BY <1>14 DEF SetExit, LockOK, LiveOK, ChainNodes, TypeOK
<1>15. ASSUME Join PROVE LiveOK'
  BY <1>15 DEF Join, LockOK, LiveOK, ChainNodes, TypeOK
<1>16. ASSUME Wake PROVE LiveOK'
  BY <1>16 DEF Wake, LockOK, LiveOK, ChainNodes, TypeOK
<1>17. ASSUME PollFail PROVE LiveOK'
  BY <1>17 DEF PollFail, LockOK, LiveOK, ChainNodes, TypeOK
<1>18. ASSUME Poll PROVE LiveOK'
  BY <1>18 DEF Poll, LockOK, LiveOK, ChainNodes, TypeOK
<1>19. ASSUME Update PROVE LiveOK'
  BY <1>19 DEF Update, LockOK, LiveOK, ChainNodes, TypeOK
<1>20. ASSUME Replace PROVE LiveOK'
  BY <1>20 DEF Replace, LockOK, LiveOK, ChainNodes, TypeOK
<1>21. ASSUME OpenForEdit PROVE LiveOK'
  BY <1>21 DEF OpenForEdit, LockOK, LiveOK, ChainNodes, TypeOK
<1>22. ASSUME WriteFile PROVE LiveOK'
  BY <1>22 DEF WriteFile, LockOK, LiveOK, ChainNodes, TypeOK
<1>23. ASSUME CloseFile PROVE LiveOK'
  BY <1>23 DEF CloseFile, LockOK, LiveOK, ChainNodes, TypeOK
<1>24. ASSUME NEW c \in Cpus, Receive(c) PROVE LiveOK'
  BY <1>24 DEF Receive, LockOK, LiveOK, ChainNodes, TypeOK
<1>25. ASSUME NEW c \in Cpus, WalkStart(c) PROVE LiveOK'
  BY <1>25 DEF WalkStart, LockOK, LiveOK, ChainNodes, TypeOK
<1>26. ASSUME NEW c \in Cpus, WalkOn(c) PROVE LiveOK'
  BY <1>26 DEF WalkOn, LockOK, LiveOK, ChainNodes, TypeOK
<1>27. ASSUME NEW c \in Cpus, WalkHit(c) PROVE LiveOK'
  <2>1. guard' = "free" /\ pc[c] = "walk" /\ UNCHANGED <<chain, live>>
    BY <1>27 DEF WalkHit, Answer
  <2>. QED
    BY <2>1 DEF LockOK, LiveOK, ChainNodes
<1>28. ASSUME NEW c \in Cpus, WalkEnd(c) PROVE LiveOK'
  <2>1. guard' = "free" /\ pc[c] = "walk" /\ UNCHANGED <<chain, live>>
    BY <1>28 DEF WalkEnd, Answer
  <2>. QED
    BY <2>1 DEF LockOK, LiveOK, ChainNodes
<1>29. ASSUME UNCHANGED vars PROVE LiveOK'
  BY <1>29 DEF vars, LiveOK, ChainNodes
<1>. QED
  BY <1>1, <1>2, <1>3, <1>4, <1>5, <1>6, <1>7, <1>8, <1>9, <1>10, <1>11, <1>12, <1>13, <1>14, <1>15, <1>16, <1>17, <1>18, <1>19, <1>20, <1>21, <1>22, <1>23, <1>24, <1>25, <1>26, <1>27, <1>28, <1>29 DEF Next, Load, Main, Watch, Edit, Walk

(* Every step keeps, for each walk, that the rules it has passed did not   *)
(* match.                                                                  *)
LEMMA WalkStep ==
  ASSUME IInv, [Next]_vars
  PROVE  WalkOK'
PROOF
<1>. USE CpusAssumption DEF IInv, Loaders, Threads, Goto, chainVars, packetVars, RuleOf
<1>1. ASSUME NEW t \in Loaders, ClearStart(t) PROVE WalkOK'
  BY <1>1 DEF ClearStart, LockOK, WalkOK, TypeOK
<1>2. ASSUME NEW t \in Loaders, ClearNode(t) PROVE WalkOK'
  BY <1>2 DEF ClearNode, LockOK, WalkOK, TypeOK
<1>3. ASSUME NEW t \in Loaders, ClearEnd(t) PROVE WalkOK'
  BY <1>3 DEF ClearEnd, LockOK, WalkOK, TypeOK
<1>4. ASSUME NEW t \in Loaders, ReadFail(t) PROVE WalkOK'
  BY <1>4 DEF ReadFail, LockOK, WalkOK, TypeOK, Return
<1>5. ASSUME NEW t \in Loaders, ReadFile(t) PROVE WalkOK'
  BY <1>5 DEF ReadFile, LockOK, WalkOK, TypeOK
<1>6. ASSUME NEW t \in Loaders, SkipLine(t) PROVE WalkOK'
  BY <1>6 DEF SkipLine, LockOK, WalkOK, TypeOK
<1>7. ASSUME NEW t \in Loaders, AddRule(t) PROVE WalkOK'
  BY <1>7 DEF AddRule, LockOK, WalkOK, TypeOK
<1>8. ASSUME NEW t \in Loaders, LoadDone(t) PROVE WalkOK'
  BY <1>8 DEF LoadDone, LockOK, WalkOK, TypeOK, Return
<1>9. ASSUME CreateThread PROVE WalkOK'
  BY <1>9 DEF CreateThread, LockOK, WalkOK, TypeOK
<1>10. ASSUME CreateFail PROVE WalkOK'
  BY <1>10 DEF CreateFail, LockOK, WalkOK, TypeOK
<1>11. ASSUME EntryFail PROVE WalkOK'
  BY <1>11 DEF EntryFail, LockOK, WalkOK, TypeOK
<1>12. ASSUME Attach PROVE WalkOK'
  BY <1>12 DEF Attach, LockOK, WalkOK, TypeOK
<1>13. ASSUME Detach PROVE WalkOK'
  BY <1>13 DEF Detach, LockOK, WalkOK, TypeOK
<1>14. ASSUME SetExit PROVE WalkOK'
  BY <1>14 DEF SetExit, LockOK, WalkOK, TypeOK
<1>15. ASSUME Join PROVE WalkOK'
  BY <1>15 DEF Join, LockOK, WalkOK, TypeOK
<1>16. ASSUME Wake PROVE WalkOK'
  BY <1>16 DEF Wake, LockOK, WalkOK, TypeOK
<1>17. ASSUME PollFail PROVE WalkOK'
  BY <1>17 DEF PollFail, LockOK, WalkOK, TypeOK
<1>18. ASSUME Poll PROVE WalkOK'
  BY <1>18 DEF Poll, LockOK, WalkOK, TypeOK
<1>19. ASSUME Update PROVE WalkOK'
  BY <1>19 DEF Update, LockOK, WalkOK, TypeOK
<1>20. ASSUME Replace PROVE WalkOK'
  BY <1>20 DEF Replace, LockOK, WalkOK, TypeOK
<1>21. ASSUME OpenForEdit PROVE WalkOK'
  BY <1>21 DEF OpenForEdit, LockOK, WalkOK, TypeOK
<1>22. ASSUME WriteFile PROVE WalkOK'
  BY <1>22 DEF WriteFile, LockOK, WalkOK, TypeOK
<1>23. ASSUME CloseFile PROVE WalkOK'
  BY <1>23 DEF CloseFile, LockOK, WalkOK, TypeOK
<1>24. ASSUME NEW c \in Cpus, Receive(c) PROVE WalkOK'
  BY <1>24 DEF Receive, LockOK, WalkOK, TypeOK
<1>25. ASSUME NEW c \in Cpus, WalkStart(c) PROVE WalkOK'
  BY <1>25 DEF WalkStart, LockOK, WalkOK, TypeOK, FirstRule
<1>26. ASSUME NEW c \in Cpus, WalkOn(c) PROVE WalkOK'
  BY <1>26 DEF WalkOn, LockOK, WalkOK, TypeOK, Hit
<1>27. ASSUME NEW c \in Cpus, WalkHit(c) PROVE WalkOK'
  <2>1. \/ pc' = [pc EXCEPT ![c] = "acquire"]
        \/ pc' = [pc EXCEPT ![c] = "idle"]
    BY <1>27 DEF WalkHit, Answer
  <2>2. /\ table' = table \/ table' = [table EXCEPT ![c] = pkt[c].proto]
        /\ UNCHANGED <<chain, pos, pkt>>
    BY <1>27 DEF WalkHit, Answer
  <2>. QED
    BY <2>1, <2>2 DEF WalkOK, TypeOK
<1>28. ASSUME NEW c \in Cpus, WalkEnd(c) PROVE WalkOK'
  <2>1. \/ pc' = [pc EXCEPT ![c] = "acquire"]
        \/ pc' = [pc EXCEPT ![c] = "idle"]
    BY <1>28 DEF WalkEnd, Answer
  <2>2. /\ table' = table \/ table' = [table EXCEPT ![c] = pkt[c].proto]
        /\ UNCHANGED <<chain, pos, pkt>>
    BY <1>28 DEF WalkEnd, Answer
  <2>. QED
    BY <2>1, <2>2 DEF WalkOK, TypeOK
<1>29. ASSUME UNCHANGED vars PROVE WalkOK'
  BY <1>29 DEF vars, WalkOK
<1>. QED
  BY <1>1, <1>2, <1>3, <1>4, <1>5, <1>6, <1>7, <1>8, <1>9, <1>10, <1>11, <1>12, <1>13, <1>14, <1>15, <1>16, <1>17, <1>18, <1>19, <1>20, <1>21, <1>22, <1>23, <1>24, <1>25, <1>26, <1>27, <1>28, <1>29 DEF Next, Load, Main, Watch, Edit, Walk



(* The invariant holds before driver_init. *)
LEMMA InitOK == Init => IInv
<1>. SUFFICES ASSUME Init PROVE IInv
  OBVIOUS
<1>. USE CpusAssumption DEF Init, Loaders, Threads
<1>1. TypeOK
  <2>1. (CHOOSE q \in Packets : TRUE) \in Packets
    BY PacketsAssumption
  <2>2. pc \in [Threads -> {"reload", "none", "idle"}]
    OBVIOUS
  <2>3. chain \in Seq(Nodes) /\ 0 \in Versions
    BY VersionAssumption DEF Versions
  <2>4. guard \in Threads \cup {"free"} /\ live \subseteq Nodes
    OBVIOUS
  <2>5. /\ pos \in [Threads -> Nat \ {0}] /\ buf \in [Loaders -> Versions]
        /\ info \in Versions /\ seen \in Versions /\ ver \in Versions
    BY <2>3
  <2>6. /\ pkt \in [Cpus -> Packets] /\ table \in [Cpus -> Tables]
        /\ result \in [Cpus -> Verdicts \cup {"unknown"}]
    BY <2>1 DEF Tables, Verdicts
  <2>. QED
    BY <2>2, <2>3, <2>4, <2>5, <2>6 DEF TypeOK
<1>2. PcOK /\ PhaseOK /\ LockOK
  BY DEF PcOK, PhaseOK, LockOK, MainLabels, ReloaderLabels
<1>3. ChainOK /\ LiveOK /\ WalkOK
  BY DEF ChainOK, OneVersion, LiveOK, ChainNodes, WalkOK
<1>. QED
  BY <1>1, <1>2, <1>3 DEF IInv

(* The inductive invariant of the chain. *)
THEOREM Invariance == Spec => []IInv
<1>1. IInv /\ [Next]_vars => IInv'
  BY TypeStep, LabelStep, LockStep, PhaseStep, ChainStep, LiveStep, WalkStep DEF IInv
<1>. QED
  BY InitOK, <1>1, PTL DEF Spec

(* Type correctness of filter.c's chain, threads and walks. *)
THEOREM TypeCorrect == Spec => []TypeOK
BY Invariance, PTL DEF IInv

(* No walk reads a freed rule: while a processor walks it holds the lock,  *)
(* no loader does, and then every node of the chain is allocated.          *)
THEOREM NoUseAfterFree == Spec => []WalkSafe
<1>1. ASSUME IInv, NEW c \in Cpus, pc[c] = "walk", pos[c] <= Len(chain)
      PROVE  chain[pos[c]] \in live
  <2>1. live = ChainNodes
    BY <1>1, CpusAssumption DEF IInv, LockOK, LiveOK, Threads, Loaders
  <2>2. pos[c] \in DOMAIN chain
    BY <1>1 DEF IInv, TypeOK, Threads
  <2>. QED
    BY <2>1, <2>2 DEF ChainNodes
<1>2. IInv => WalkSafe
  BY <1>1 DEF WalkSafe
<1>. QED
  BY Invariance, <1>2, PTL

(* No reload leaks a rule. *)
THEOREM NothingLeaks == Spec => []NoLeak
<1>1. IInv => NoLeak
  BY CpusAssumption DEF IInv, LiveOK, NoLeak, Loaders
<1>. QED
  BY Invariance, <1>1, PTL

(* The rules in force always come, in order, from one version of the file. *)
THEOREM NeverMixed == Spec => []OneVersion
BY Invariance, PTL DEF IInv, ChainOK

(* Nobody is inside the filter when filter_free clears the chain, and      *)
(* every rule is freed when it returns.                                    *)
THEOREM CleanUnload == Spec => []Quiesced
<1>1. ASSUME IInv PROVE Quiesced
  <2>1. pc["main"] = "gone" => live = {}
    BY <1>1, CpusAssumption DEF IInv, LiveOK, ChainOK, ChainNodes, LockOK, PhaseOK,
         TypeOK, Threads, Loaders
  <2>. QED
    BY <1>1, <2>1 DEF IInv, PhaseOK, Quiesced
<1>. QED
  BY Invariance, <1>1, PTL

(* A walk that ends answers what the first matching rule says, or allow:   *)
(* the rules it has passed did not match (WalkOK), and the lock keeps the  *)
(* chain as it was.                                                        *)
THEOREM FirstMatch == Spec => AnswersFirstMatch
<1>. DEFINE Expected(c) ==
       LET v == Verdict(Rules, table[c], pkt[c])
       IN  IF table[c] = "ip" /\ v = "allow" /\ pkt[c].proto \notin Transports
           THEN "unknown" ELSE v
<1>1. ASSUME IInv, NEW c \in Cpus, WalkHit(c)
      PROVE  result'[c] = Expected(c)
  <2>1. pos[c] \in DOMAIN chain /\ Rules[pos[c]] = RuleOf(chain[pos[c]])
    BY <1>1 DEF WalkHit, IInv, TypeOK, Threads, Rules
  <2>2. \A j \in DOMAIN chain : j < pos[c] => ~RuleMatches(Rules[j], table[c], pkt[c])
    BY <1>1 DEF WalkHit, IInv, WalkOK, Rules
  <2>. DEFINE hits == {i \in DOMAIN Rules : RuleMatches(Rules[i], table[c], pkt[c])}
  <2>3. DOMAIN Rules = DOMAIN chain /\ DOMAIN chain \subseteq Nat
    BY <1>1 DEF Rules, IInv, TypeOK
  <2>4. pos[c] \in hits /\ \A j \in hits : pos[c] <= j
    BY <2>1, <2>2, <2>3, <1>1 DEF WalkHit, Hit
  <2>5. (CHOOSE i \in hits : \A j \in hits : i <= j) = pos[c]
    <3>1. \A i \in hits : (\A j \in hits : i <= j) => i = pos[c]
      BY <2>4, <2>3
    <3>. QED
      BY <2>4, <3>1
  <2>6. Verdict(Rules, table[c], pkt[c]) = RuleOf(chain[pos[c]]).result
    BY <2>1, <2>4, <2>5 DEF Verdict
  <2>. QED
    BY <2>6, <1>1 DEF WalkHit, Answer, NoTable, IInv, TypeOK
<1>2. ASSUME IInv, NEW c \in Cpus, WalkEnd(c)
      PROVE  result'[c] = Expected(c)
  <2>1. \A j \in DOMAIN chain : ~RuleMatches(Rules[j], table[c], pkt[c])
    BY <1>2 DEF WalkEnd, IInv, WalkOK, Rules, TypeOK, Threads
  <2>2. Verdict(Rules, table[c], pkt[c]) = "allow"
    BY <2>1 DEF Verdict, Rules
  <2>. QED
    BY <2>2, <1>2 DEF WalkEnd, Answer, NoTable, IInv, TypeOK
<1>3. ASSUME IInv, [Next]_vars, NEW c \in Cpus, pc[c] = "walk", pc'[c] # "walk"
      PROVE  WalkHit(c) \/ WalkEnd(c)
  <2>. USE <1>3, CpusAssumption DEF Loaders, Threads, Goto, IInv, TypeOK
  <2>1. ASSUME NEW t \in Loaders, Load(t) PROVE FALSE
    BY <2>1 DEF Load, ClearStart, ClearNode, ClearEnd, ReadFail, ReadFile, SkipLine, AddRule,
         LoadDone, Return
  <2>2. ASSUME Main \/ Watch \/ Edit \/ UNCHANGED vars PROVE FALSE
    BY <2>2 DEF Main, CreateThread, CreateFail, EntryFail, Attach, Detach, SetExit, Join, Watch,
         Wake, PollFail, Poll, Update, Edit, Replace, OpenForEdit, WriteFile, CloseFile, vars
  <2>3. ASSUME NEW d \in Cpus, Receive(d) \/ WalkStart(d) \/ WalkOn(d) PROVE FALSE
    BY <2>3 DEF Receive, WalkStart, WalkOn
  <2>4. ASSUME NEW d \in Cpus, WalkHit(d) \/ WalkEnd(d) PROVE d = c
    <3>1. pc' = [pc EXCEPT ![d] = "acquire"] \/ pc' = [pc EXCEPT ![d] = "idle"]
      BY <2>4 DEF WalkHit, WalkEnd, Answer
    <3>. QED
      BY <3>1
  <2>. QED
    BY <2>1, <2>2, <2>3, <2>4 DEF Next, Walk
<1>4. IInv /\ [Next]_vars =>
        [\A c \in Cpus : pc[c] = "walk" /\ pc'[c] # "walk" => result'[c] = Expected(c)]_vars
  BY <1>1, <1>2, <1>3
<1>. QED
  BY Invariance, <1>4, PTL DEF Spec, AnswersFirstMatch

-----------------------------------------------------------------------------
(***************************************************************************)
(* The parser of a line of the file.                                       *)
(***************************************************************************)
(* How many words of the line have passed, and where "from" is, or will be. *)
Passed == IF p = NULL \/ clause = "code" THEN Len(line) ELSE Len(line) - 1
FromAt == IF Len(line) >= 4 /\ line[4] = "if" THEN 6 ELSE 4

LastOK == p # NULL /\ clause # "code" => Len(line) > 0 /\ p = line[Len(line)]

PlaceOK ==
  /\ clause = "verdict" => Passed = 0
  /\ clause = "proto" => Passed = 1
  /\ clause = "direction" => Passed = 2
  /\ clause = "iface" => Passed = 3
  /\ clause = "ifarg" => Passed = 4 /\ FromAt = 6
  /\ clause = "from" => Passed = FromAt - 1
  /\ clause = "src" => Passed = FromAt
  /\ clause = "to" => Passed = FromAt + 1
  /\ clause = "dst" => Passed = FromAt + 2
  /\ clause = "option" => Passed = FromAt + 3
  /\ clause = "ipproto" => Passed = FromAt + 4 /\ rule.kind = "ip"
  /\ clause = "flags" => Passed = FromAt + 4 /\ rule.kind = "tcp"
  /\ clause = "type" => Passed = FromAt + 4 /\ rule.kind = "icmp"
  /\ clause = "code" => /\ Passed \in FromAt + 5 .. FromAt + 7 /\ rule.kind = "icmp"
                        /\ line[Passed] \in DOMAIN Dotted /\ p = Dotted[line[Passed]][2]
  /\ clause = "nolog" /\ Passed = FromAt + 3 => ~Looked
  /\ clause \in {"nolog", "accepted"} => Passed \in {FromAt + 3} \cup FromAt + 5 .. FromAt + 7
  /\ clause = "accepted" => p \in {NULL, "nolog"}

(* What the first n words, l, have made of the rule r; "from" is at f. *)
HeadRead(l, n, f, r) ==
  /\ n >= 1 => l[1] \in Verdicts /\ r.result = l[1]
  /\ n >= 2 => r.kind = l[2]
  /\ n >= 3 => l[3] \in Directions /\ r.direction = l[3]
  /\ IF n >= 5 /\ f = 6 THEN Atoi(l[5]) \in 1..MaxIface /\ r.iface = Atoi(l[5])
                        ELSE r.iface = 0

SrcIs(w, r) ==
  /\ AmpOK(w, r.kind)
  /\ r.src = AmpAddr(w) /\ r.srcMask = AmpMask(w)
  /\ r.srcPort1 = PortOf(r.kind, Parts(w).port) /\ r.srcPort2 = PortOf(r.kind, Parts(w).port2)
DstIs(w, r) ==
  /\ AmpOK(w, r.kind)
  /\ r.dst = AmpAddr(w) /\ r.dstMask = AmpMask(w)
  /\ r.dstPort1 = PortOf(r.kind, Parts(w).port) /\ r.dstPort2 = PortOf(r.kind, Parts(w).port2)
NoDst(r) == r.dst = {} /\ r.dstMask = {} /\ r.dstPort1 = 0 /\ r.dstPort2 = 0

AddrsRead(l, n, f, r) ==
  /\ n >= f => l[f] = "from"
  /\ n >= f + 1 => SrcIs(l[f + 1], r)
  /\ n >= f + 2 => l[f + 2] = "to"
  /\ IF n >= f + 3 THEN DstIs(l[f + 3], r) ELSE NoDst(r)

KeyOf(k) == CASE k = "ip" -> "ipproto" [] k = "tcp" -> "flags" [] k = "icmp" -> "type" [] k = "udp" -> "nolog"
NoOptions(r) == /\ ~r.useProto /\ ~r.useType /\ ~r.useCode
                /\ r.flagsSet = {} /\ r.flagsUnset = {}

(* The code behind the point is read in a step of its own: c is the clause. *)
TypeIs(l, n, f, r, c) ==
  LET w == l[f + 5] IN
  /\ r.useType /\ r.type = Atoi(TypeOf(w))
  /\ n = f + 5 =>
       /\ InRange(TypeOf(w), NULL, 255)
       /\ w \notin DOMAIN Dotted => ~r.useCode
       /\ w \in DOMAIN Dotted /\ c # "code" =>
            /\ Atoi(Dotted[w][2]) # 0 \/ Dotted[w][2] = "0"
            /\ r.useCode /\ r.code = UChar(Atoi(Dotted[w][2]))
  /\ n > f + 5 => w \notin DOMAIN Dotted /\ l[n] \in DOMAIN Dotted

OptionRead(l, n, f, r, c) ==
  /\ n <= f + 4 => NoOptions(r)
  /\ n >= f + 4 => r.kind # "udp" /\ l[f + 4] = KeyOf(r.kind)
  /\ n >= f + 5 /\ r.kind = "ip" =>
       n = f + 5 /\ Atoi(l[f + 5]) \in 1..255 /\ r.useProto /\ r.proto = Atoi(l[f + 5])
  /\ n >= f + 5 /\ r.kind = "tcp" =>
       /\ n = f + 5 /\ FlagsOK(l[f + 5])
       /\ r.flagsSet = With(l[f + 5], "+") /\ r.flagsUnset = With(l[f + 5], "-")
  /\ n >= f + 5 /\ r.kind = "icmp" => TypeIs(l, n, f, r, c)

LineRead(l, n, f, r, c) == HeadRead(l, n, f, r) /\ AddrsRead(l, n, f, r) /\ OptionRead(l, n, f, r, c)

LogOK == rule.log = (clause # "accepted" \/ p = NULL)

LineOK == LastOK /\ PlaceOK /\ LineRead(line, Passed, FromAt, rule, clause) /\ LogOK

Crashed == clause = "crashed" => \E v \in Verdicts : line = <<v>>

LineInv == /\ RuleTypeOK
           /\ clause \in Clauses \cup {"accepted"} => LineOK
           /\ TakesEveryRule /\ Crashed
-----------------------------------------------------------------------------
(* The tables. *)
LEMMA LeastOf ==
  ASSUME NEW S, S \subseteq Nat, S # {}
  PROVE  \E x \in S : \A y \in S : x <= y
PROOF
<1>1. PICK x \in S : \A y \in S : ~ (<<y, x>> \in OpToRel(<, Nat))
  BY WFMin, NatLessThanWellFounded
<1>2. \A y \in S : x <= y
  <2>1. ASSUME NEW y \in S, y < x PROVE FALSE
    <3>1. <<y, x>> \in Nat \X Nat /\ <<y, x>>[1] < <<y, x>>[2]
      BY <2>1
    <3>2. <<y, x>> \in OpToRel(<, Nat)
      BY <3>1, Zenon DEF OpToRel
    <3>. QED
      BY <1>1, <3>2
  <2>. QED
    BY <2>1
<1>. QED
  BY <1>2

(* mask |= mask >> 1, n - 1 times from the top bit, is the n highest bits. *)
LEMMA MaskOfIs == \A n \in 0..32 : MaskOf[n] = (32 - n)..31
PROOF
<1>. DEFINE Def(m) == m = [n \in 0..32 |-> CASE n = 0 -> {} [] n = 1 -> {31} [] OTHER -> MaskStep(m[n - 1])]
            high == [n \in 0..32 |-> (32 - n)..31]
<1>1. Def(high)
  <2>1. ASSUME NEW n \in 0..32, n # 0, n # 1 PROVE MaskStep(high[n - 1]) = (32 - n)..31
    <3>1. high[n - 1] = (33 - n)..31
      BY <2>1
    <3>2. MaskStep((33 - n)..31) = (32 - n)..31
      BY <2>1 DEF MaskStep
    <3>. QED
      BY <3>1, <3>2
  <2>4. \A n \in 0..32 : high[n] = (32 - n)..31
    OBVIOUS
  <2>5. 32..31 = {} /\ 31..31 = {31}
    OBVIOUS
  <2>6. high[0] = {} /\ high[1] = {31}
    BY <2>4, <2>5
  <2>. HIDE DEF high
  <2>2. \A n \in 0..32 : high[n] = CASE n = 0 -> {} [] n = 1 -> {31} [] OTHER -> MaskStep(high[n - 1])
    <3>. SUFFICES ASSUME NEW n \in 0..32
                  PROVE  high[n] = CASE n = 0 -> {} [] n = 1 -> {31} [] OTHER -> MaskStep(high[n - 1])
      OBVIOUS
    <3>1. CASE n = 0
      BY <2>6, <3>1
    <3>2. CASE n = 1
      BY <2>6, <3>2
    <3>3. CASE n # 0 /\ n # 1
      BY <2>1, <2>4, <3>3
    <3>. QED
      BY <3>1, <3>2, <3>3
  <2>3. high = [n \in 0..32 |-> high[n]]
    BY DEF high
  <2>. QED
    BY <2>2, <2>3
<1>. HIDE DEF high
<1>2. Def(CHOOSE m : Def(m))
  BY <1>1, Zenon
<1>3. MaskOf = (CHOOSE m : Def(m))
  BY Zenon DEF MaskOf
<1>4. Def(MaskOf)
  <2>. HIDE DEF Def
  <2>. QED
    BY <1>2, <1>3, Zenon
<1>5. /\ MaskOf[0] = {} /\ MaskOf[1] = {31}
      /\ \A n \in 2..32 : MaskOf[n] = MaskStep(MaskOf[n - 1])
  BY <1>4
<1>. DEFINE Wrong == {n \in 0..32 : MaskOf[n] # (32 - n)..31}
<1>6. SUFFICES ASSUME Wrong # {} PROVE FALSE
  OBVIOUS
<1>12. Wrong \subseteq Nat
  <2>1. Wrong \subseteq 0..32
    BY Zenon
  <2>2. 0..32 \subseteq Nat
    OBVIOUS
  <2>. QED
    BY <2>1, <2>2, Zenon
<1>7. PICK n \in Wrong : \A k \in Wrong : n <= k
  BY <1>6, <1>12, LeastOf
<1>13. n \in 0..32 /\ MaskOf[n] # (32 - n)..31
  BY <1>7
<1>14. \A k \in 0..32 : k < n => MaskOf[k] = (32 - k)..31
  <2>1. ASSUME NEW k \in 0..32, k < n, MaskOf[k] # (32 - k)..31 PROVE FALSE
    <3>1. k \in Wrong
      BY <2>1
    <3>. HIDE DEF Wrong
    <3>. QED
      BY <1>7, <1>13, <2>1, <3>1
  <2>. QED
    BY <2>1
<1>. HIDE DEF Wrong
<1>8. n \in 2..32
  <2>1. 32..31 = {} /\ 31..31 = {31} /\ 32 - 0 = 32 /\ 32 - 1 = 31
    OBVIOUS
  <2>2. n # 0
    BY <1>5, <1>13, <2>1, Zenon
  <2>3. n # 1
    BY <1>5, <1>13, <2>1, Zenon
  <2>. QED
    BY <1>13, <2>2, <2>3
<1>9. MaskOf[n - 1] = (33 - n)..31
  <2>1. n - 1 \in 0..32 /\ n - 1 < n /\ 32 - (n - 1) = 33 - n
    BY <1>8
  <2>. QED
    BY <1>14, <2>1
<1>10. MaskOf[n] = MaskStep(MaskOf[n - 1])
  BY <1>5, <1>8, Zenon
<1>11. MaskStep((33 - n)..31) = (32 - n)..31
  BY <1>8 DEF MaskStep
<1>. QED
  BY <1>9, <1>10, <1>11, <1>13, Zenon

(* atoi returns an integer for every word. *)
LEMMA AtoiInt == \A w : Atoi(w) \in Int
PROOF
  BY NumberAssumption DEF Atoi

(* The word "0" reads as 0. *)
LEMMA AtoiZero == Atoi("0") = 0
PROOF
  BY NumberAssumption DEF Atoi

(* A number that passes its range check lies in the range. *)
LEMMA InRangeIs ==
  ASSUME NEW w, NEW behind, NEW top \in Nat, InRange(w, behind, top)
  PROVE  Atoi(w) \in 0..top
PROOF
  BY AtoiInt, AtoiZero DEF InRange

(* An octet of an address sets bits of the address only. *)
LEMMA OctetBitsIn == \A k \in 1..4, n \in Int : OctetBits(k, n) \subseteq Bits
PROOF
  BY DEF OctetBits, Bits

(* inet_addr returns bits of an address for every host. *)
LEMMA InetAddrIn == \A host : InetAddr(host) \subseteq Bits
PROOF
<1>. TAKE host
<1>1. \A k \in 1..4 : OctetBits(k, Atoi(host[k])) \subseteq Bits
  BY AtoiInt, OctetBitsIn
<1>. QED
  BY <1>1 DEF InetAddr

(* The highest port is a number. *)
LEMMA MaxPortNat == MaxPort \in Nat
PROOF
  BY DEF MaxPort

(* A port that parse_amp_str stores fits 16 bits. *)
LEMMA PortOfIn ==
  ASSUME NEW k, NEW piece, k \in PortKinds => piece = NULL \/ InRange(piece, NULL, MaxPort)
  PROVE  PortOf(k, piece) \in 0..MaxPort
PROOF
<1>1. CASE k \in PortKinds /\ piece # NULL
  <2>1. Atoi(piece) \in 0..MaxPort
    BY <1>1, InRangeIs, MaxPortNat
  <2>. QED
    BY <1>1, <2>1 DEF PortOf
<1>2. CASE ~(k \in PortKinds /\ piece # NULL)
  BY <1>2, MaxPortNat DEF PortOf
<1>. QED
  BY <1>1, <1>2

(* Nothing but what Address has passes get_amp. *)
LEMMA AmpFields ==
  ASSUME NEW w, NEW kind, AmpOK(w, kind)
  PROVE  /\ w \in DOMAIN Address /\ Parts(w) = Address[w]
         /\ Address[w].host = <<"any">> \/ Len(Address[w].host) >= 4
         /\ AmpAddr(w) \in SUBSET Bits /\ AmpMask(w) \in SUBSET Bits
         /\ PortOf(kind, Parts(w).port) \in 0..MaxPort /\ PortOf(kind, Parts(w).port2) \in 0..MaxPort
PROOF
<1>. DEFINE a == Parts(w)
<1>1. w \in DOMAIN Address /\ Parts(w) = Address[w]
  <2>1. ASSUME w \notin DOMAIN Address PROVE FALSE
    <3>1. a = [host |-> <<w>>, mask |-> NULL, port |-> NULL, port2 |-> NULL]
      BY <2>1 DEF Parts
    <3>2. a.host = <<w>> /\ w # "any"
      BY <2>1, <3>1, AddressAssumption
    <3>3. <<w>>[1] # <<"any">>[1]
      BY <3>2
    <3>4. a.host # <<"any">>
      BY <3>2, <3>3
    <3>6. Len(<<w>>) >= 4
      BY <3>2, <3>4 DEF AmpOK, HostOK
    <3>. QED
      BY <3>6
  <2>2. w \in DOMAIN Address
    BY <2>1
  <2>. QED
    BY <2>2 DEF Parts
<1>2. a.host = <<"any">> \/ Len(a.host) >= 4
  BY DEF AmpOK, HostOK
<1>3. AmpAddr(w) \in SUBSET Bits
  BY InetAddrIn DEF AmpAddr
<1>4. AmpMask(w) \in SUBSET Bits
  <2>1. CASE a.host # <<"any">> /\ a.mask # NULL
    <3>1. \E behind : InRange(a.mask, behind, 32)
      BY <2>1 DEF AmpOK
    <3>2. Atoi(a.mask) \in 0..32
      BY <3>1, InRangeIs
    <3>3. MaskOf[Atoi(a.mask)] = (32 - Atoi(a.mask))..31
      BY <3>2, MaskOfIs
    <3>4. AmpMask(w) = (32 - Atoi(a.mask))..31
      BY <2>1, <3>3 DEF AmpMask
    <3>5. \A n \in 0..32 : (32 - n)..31 \in SUBSET Bits
      BY DEF Bits
    <3>. QED
      BY <3>2, <3>4, <3>5
  <2>2. CASE a.host = <<"any">> \/ a.mask = NULL
    BY <2>2 DEF AmpMask
  <2>. QED
    BY <2>1, <2>2
<1>6. /\ kind \in PortKinds => (a.port = NULL \/ InRange(a.port, NULL, MaxPort))
      /\ kind \in PortKinds => (a.port2 = NULL \/ InRange(a.port2, NULL, MaxPort))
  BY DEF AmpOK
<1>7. PortOf(kind, a.port) \in 0..MaxPort /\ PortOf(kind, a.port2) \in 0..MaxPort
  <2>. HIDE DEF a
  <2>3. PortOf(kind, a.port) \in 0..MaxPort
    BY <1>6, PortOfIn
  <2>4. PortOf(kind, a.port2) \in 0..MaxPort
    BY <1>6, PortOfIn
  <2>. QED
    BY <2>3, <2>4
<1>. HIDE DEF a
<1>. QED
  BY <1>1, <1>2, <1>3, <1>4, <1>7 DEF a
-----------------------------------------------------------------------------
(* The types. *)
LEMMA InitTypes == ParseInit => RuleTypeOK
PROOF
<1>. SUFFICES ASSUME ParseInit PROVE RuleTypeOK
  OBVIOUS
<1>1. clause = "verdict" /\ p \in Words /\ line = <<p>>
  BY WordsAssumption DEF ParseInit, Clauses
<1>2. line \in Seq(Words)
  BY <1>1
<1>3. rule \in FltRules
  BY MaxPortNat DEF ParseInit, NoRule, FltRules, Kinds, Tables, Directions, MaxIface
<1>. QED
  BY <1>1, <1>2, <1>3 DEF RuleTypeOK, Clauses

(* The next word. *)
LEMMA NextWordTypes ==
  ASSUME RuleTypeOK, NEW c \in Clauses \ {"code"}, NextWord(c)
  PROVE  clause' = c /\ p' \in Words \cup {NULL} /\ line' \in Seq(Words)
PROOF
<1>1. PICK w \in Tried[c] \cup {NULL} :
        clause' = c /\ p' = w /\ line' = IF w = NULL THEN line ELSE Append(line, w)
  BY DEF NextWord
<1>2. w \in Words \cup {NULL} /\ line \in Seq(Words)
  BY WordsAssumption DEF RuleTypeOK
<1>. QED
  BY <1>1, <1>2

(* What a type text stands for up to the first point. *)
LEMMA ToPointIs ==
  ASSUME RuleTypeOK, p # NULL, NEW s \in ToPoint
  PROVE  /\ s \in Seq(Words) /\ Len(s) \in 0..2
         /\ Pointed(s) \in DOMAIN Dotted
         /\ Len(s) = 0 => Pointed(s) = p
         /\ (Len(s) # 0 => p \notin DOMAIN Dotted /\ Pointed(s) = s[Len(s)])
         /\ (Len(s) = 2 => s[1] \notin DOMAIN Dotted)
PROOF
<1>1. CASE p \in DOMAIN Dotted
  <2>1. s = <<>>
    BY <1>1 DEF ToPoint
  <2>. QED
    BY <1>1, <2>1 DEF Pointed
<1>2. CASE p \notin DOMAIN Dotted
  <2>1. PICK x \in Between, d \in DOMAIN Dotted : s = Append(x, d)
    BY <1>2 DEF ToPoint
  <2>2. d \in Words
    BY WordsAssumption
  <2>3. CASE x = <<>>
    <3>1. s = <<d>>
      BY <2>1, <2>3
    <3>. QED
      BY <1>2, <2>2, <3>1 DEF Pointed
  <2>4. CASE x # <<>>
    <3>1. PICK w \in Tried["nolog"] \ DOMAIN Dotted : x = <<w>>
      BY <2>1, <2>4 DEF Between
    <3>2. w \in Words
      BY <3>1, WordsAssumption DEF Clauses
    <3>3. s = <<w, d>>
      <4>1. s = Append(<<w>>, d) /\ <<w>> \in Seq(Words) /\ Len(<<w>>) = 1
        BY <2>1, <3>1, <3>2
      <4>2. s \in Seq(Words) /\ Len(s) = 2 /\ s[1] = w /\ s[2] = d
        BY <2>2, <3>2, <4>1, AppendProperties
      <4>3. \A x1, y1 : Len(<<x1, y1>>) = 2
        OBVIOUS
      <4>. QED
        BY <2>2, <3>2, <4>2, SeqEqual
    <3>. QED
      BY <1>2, <2>2, <3>1, <3>2, <3>3 DEF Pointed
  <2>. QED
    BY <2>3, <2>4
<1>. QED
  BY <1>1, <1>2

(* Every way to give a line up: nothing is stored any more. *)
LEMMA GivenUp ==
  ASSUME Reject
  PROVE  /\ clause \in Clauses /\ p # NULL
         /\ clause' = "rejected" /\ UNCHANGED <<p, rule>>
         /\ line' = line \/ (clause = "type" /\ \E s \in ToPoint : line' = line \o s)
PROOF
<1>1. ASSUME NEW c, NEW ok, Unless(c, ok)
      PROVE  clause = c /\ p # NULL /\ ~ok /\ clause' = "rejected" /\ UNCHANGED <<p, line, rule>>
  BY <1>1 DEF Unless, Returns
<1>. DEFINE Quiet(c) == clause = c /\ p # NULL /\ clause' = "rejected" /\ UNCHANGED <<p, line, rule>>
<1>2. BadType => Quiet("type") \/
        (/\ clause = "type" /\ p # NULL /\ clause' = "rejected" /\ UNCHANGED <<p, rule>>
         /\ \E s \in ToPoint : line' = line \o s)
  BY DEF BadType, Unless, Returns, Expect
<1>3. Reject => BadType \/ \E c \in Clauses : Quiet(c)
  BY DEF Reject, Unless, Returns, BadIf, BadOption, Clauses
<1>4. "type" \in Clauses
  BY DEF Clauses
<1>. QED
  BY <1>2, <1>3, <1>4

(* A rule with one more field stored is a rule. *)
LEMMA OneStored ==
  ASSUME NEW r \in FltRules
  PROVE  /\ \A v \in Kinds : [r EXCEPT !.kind = v] \in FltRules
         /\ \A v \in Verdicts : [r EXCEPT !.result = v] \in FltRules
         /\ \A v \in Directions : [r EXCEPT !.direction = v] \in FltRules
         /\ \A v \in 0..MaxIface : [r EXCEPT !.iface = v] \in FltRules
         /\ \A v \in BOOLEAN : [r EXCEPT !.log = v] \in FltRules
         /\ \A v \in SUBSET Bits : [r EXCEPT !.src = v] \in FltRules
         /\ \A v \in SUBSET Bits : [r EXCEPT !.srcMask = v] \in FltRules
         /\ \A v \in SUBSET Bits : [r EXCEPT !.dst = v] \in FltRules
         /\ \A v \in SUBSET Bits : [r EXCEPT !.dstMask = v] \in FltRules
         /\ \A v \in 0..MaxPort : [r EXCEPT !.srcPort1 = v] \in FltRules
         /\ \A v \in 0..MaxPort : [r EXCEPT !.srcPort2 = v] \in FltRules
         /\ \A v \in 0..MaxPort : [r EXCEPT !.dstPort1 = v] \in FltRules
         /\ \A v \in 0..MaxPort : [r EXCEPT !.dstPort2 = v] \in FltRules
         /\ \A v \in SUBSET FlagNames : [r EXCEPT !.flagsSet = v] \in FltRules
         /\ \A v \in SUBSET FlagNames : [r EXCEPT !.flagsUnset = v] \in FltRules
         /\ \A v \in BOOLEAN : [r EXCEPT !.useProto = v] \in FltRules
         /\ \A v \in 0..255 : [r EXCEPT !.proto = v] \in FltRules
         /\ \A v \in BOOLEAN : [r EXCEPT !.useType = v] \in FltRules
         /\ \A v \in 0..255 : [r EXCEPT !.type = v] \in FltRules
         /\ \A v \in BOOLEAN : [r EXCEPT !.useCode = v] \in FltRules
         /\ \A v \in 0..255 : [r EXCEPT !.code = v] \in FltRules
PROOF
<1>1. \A v \in Kinds : [r EXCEPT !.kind = v] \in FltRules
  BY DEF FltRules
<1>2. \A v \in Verdicts : [r EXCEPT !.result = v] \in FltRules
  BY DEF FltRules
<1>3. \A v \in Directions : [r EXCEPT !.direction = v] \in FltRules
  BY DEF FltRules
<1>4. \A v \in 0..MaxIface : [r EXCEPT !.iface = v] \in FltRules
  BY DEF FltRules
<1>5. \A v \in BOOLEAN : [r EXCEPT !.log = v] \in FltRules
  BY DEF FltRules
<1>6. \A v \in SUBSET Bits : [r EXCEPT !.src = v] \in FltRules
  BY DEF FltRules
<1>7. \A v \in SUBSET Bits : [r EXCEPT !.srcMask = v] \in FltRules
  BY DEF FltRules
<1>8. \A v \in SUBSET Bits : [r EXCEPT !.dst = v] \in FltRules
  BY DEF FltRules
<1>9. \A v \in SUBSET Bits : [r EXCEPT !.dstMask = v] \in FltRules
  BY DEF FltRules
<1>10. \A v \in 0..MaxPort : [r EXCEPT !.srcPort1 = v] \in FltRules
  BY DEF FltRules
<1>11. \A v \in 0..MaxPort : [r EXCEPT !.srcPort2 = v] \in FltRules
  BY DEF FltRules
<1>12. \A v \in 0..MaxPort : [r EXCEPT !.dstPort1 = v] \in FltRules
  BY DEF FltRules
<1>13. \A v \in 0..MaxPort : [r EXCEPT !.dstPort2 = v] \in FltRules
  BY DEF FltRules
<1>14. \A v \in SUBSET FlagNames : [r EXCEPT !.flagsSet = v] \in FltRules
  BY DEF FltRules
<1>15. \A v \in SUBSET FlagNames : [r EXCEPT !.flagsUnset = v] \in FltRules
  BY DEF FltRules
<1>16. \A v \in BOOLEAN : [r EXCEPT !.useProto = v] \in FltRules
  BY DEF FltRules
<1>17. \A v \in 0..255 : [r EXCEPT !.proto = v] \in FltRules
  BY DEF FltRules
<1>18. \A v \in BOOLEAN : [r EXCEPT !.useType = v] \in FltRules
  BY DEF FltRules
<1>19. \A v \in 0..255 : [r EXCEPT !.type = v] \in FltRules
  BY DEF FltRules
<1>20. \A v \in BOOLEAN : [r EXCEPT !.useCode = v] \in FltRules
  BY DEF FltRules
<1>21. \A v \in 0..255 : [r EXCEPT !.code = v] \in FltRules
  BY DEF FltRules
<1>. QED
  BY <1>1, <1>2, <1>3, <1>4, <1>5, <1>6, <1>7, <1>8, <1>9, <1>10, <1>11, <1>12, <1>13, <1>14, <1>15, <1>16, <1>17, <1>18, <1>19, <1>20, <1>21

(* Every clause of parse_rule keeps the types. *)
LEMMA StepTypes ==
  ASSUME RuleTypeOK, [ParseNext]_parseVars
  PROVE  RuleTypeOK'
PROOF
<1>0. /\ clause \in Clauses \cup Returned /\ p \in Words \cup {NULL}
      /\ line \in Seq(Words) /\ rule \in FltRules
  BY DEF RuleTypeOK
<1>w. ASSUME NEW c \in Clauses \ {"code"}, NextWord(c), rule' \in FltRules
      PROVE  RuleTypeOK'
  <2>1. clause' = c /\ p' \in Words \cup {NULL} /\ line' \in Seq(Words)
    BY <1>w, NextWordTypes
  <2>. QED
    BY <1>w, <2>1 DEF RuleTypeOK
<1>c. {"verdict", "proto", "direction", "iface", "ifarg", "from", "src", "to", "dst", "option",
       "ipproto", "flags", "type", "nolog"} \subseteq Clauses \ {"code"}
  BY DEF Clauses
<1>1. CASE Filter
  <2>1. rule' \in FltRules
    BY <1>0, <1>1, OneStored DEF Filter, Expect
  <2>. QED
    BY <1>1, <1>c, <1>w, <2>1 DEF Filter
<1>2. CASE Proto
  <2>1. rule' \in FltRules
    BY <1>0, <1>2, OneStored DEF Proto, Expect
  <2>. QED
    BY <1>2, <1>c, <1>w, <2>1 DEF Proto
<1>3. CASE Direction
  <2>1. rule' \in FltRules
    BY <1>0, <1>3, OneStored DEF Direction, Expect
  <2>. QED
    BY <1>3, <1>c, <1>w, <2>1 DEF Direction
<1>4. CASE NoIf \/ NoOption
  <2>1. clause' \in Clauses /\ UNCHANGED <<p, line, rule>>
    BY <1>4 DEF NoIf, NoOption, Clauses
  <2>. QED
    BY <1>0, <2>1 DEF RuleTypeOK
<1>5. CASE If \/ From \/ To
  BY <1>0, <1>5, <1>c, <1>w DEF If, From, To
<1>6. CASE Option
  <2>1. Keyword \in Clauses \ {"code"}
    BY <1>0, <1>c DEF Keyword, FltRules, Kinds, Tables, Transports
  <2>. QED
    BY <1>0, <1>6, <1>w, <2>1 DEF Option
<1>7. CASE IfArg
  <2>1. rule' \in FltRules
    <3>1. Atoi(p) \in 0..MaxIface
      BY <1>7 DEF IfArg, Expect, MaxIface
    <3>. QED
      BY <1>0, <1>7, <3>1, OneStored DEF IfArg
  <2>. QED
    BY <1>7, <1>c, <1>w, <2>1 DEF IfArg
<1>8. CASE Src
  <2>1. /\ AmpAddr(p) \in SUBSET Bits /\ AmpMask(p) \in SUBSET Bits
        /\ Port1 \in 0..MaxPort /\ Port2 \in 0..MaxPort
    BY <1>8, AmpFields DEF Src, Expect, Port1, Port2
  <2>2. rule' \in FltRules
    <3>. DEFINE r1 == [rule EXCEPT !.src = AmpAddr(p)]
                r2 == [r1 EXCEPT !.srcMask = AmpMask(p)]
                r3 == [r2 EXCEPT !.srcPort1 = Port1]
                r4 == [r3 EXCEPT !.srcPort2 = Port2]
    <3>m1. r1 \in FltRules
      BY <1>0, <2>1, OneStored
    <3>m2. r2 \in FltRules
      BY <3>m1, <2>1, OneStored
    <3>m3. r3 \in FltRules
      BY <3>m2, <2>1, OneStored
    <3>m4. r4 \in FltRules
      BY <3>m3, <2>1, OneStored
    <3>e. rule' = r4
      BY <1>8 DEF Src
    <3>. QED
      BY <3>m4, <3>e
  <2>. QED
    BY <1>8, <1>c, <1>w, <2>2 DEF Src
<1>9. CASE Dst
  <2>1. CASE p = "any"
    BY <1>0, <1>9, <1>c, <1>w, <2>1 DEF Dst
  <2>2. CASE p # "any"
    <3>1. /\ AmpAddr(p) \in SUBSET Bits /\ AmpMask(p) \in SUBSET Bits
          /\ Port1 \in 0..MaxPort /\ Port2 \in 0..MaxPort
      BY <1>9, <2>2, AmpFields DEF Dst, Expect, Port1, Port2
    <3>2. rule' \in FltRules
      <4>. DEFINE r1 == [rule EXCEPT !.dst = AmpAddr(p)]
                  r2 == [r1 EXCEPT !.dstMask = AmpMask(p)]
                  r3 == [r2 EXCEPT !.dstPort1 = Port1]
                  r4 == [r3 EXCEPT !.dstPort2 = Port2]
      <4>m1. r1 \in FltRules
        BY <1>0, <3>1, OneStored
      <4>m2. r2 \in FltRules
        BY <4>m1, <3>1, OneStored
      <4>m3. r3 \in FltRules
        BY <4>m2, <3>1, OneStored
      <4>m4. r4 \in FltRules
        BY <4>m3, <3>1, OneStored
      <4>e. rule' = r4
        BY <1>9, <2>2 DEF Dst
      <4>. QED
        BY <4>m4, <4>e
    <3>. QED
      BY <1>9, <1>c, <1>w, <3>2 DEF Dst
  <2>. QED
    BY <2>1, <2>2
<1>10. CASE IpProto
  <2>1. rule' \in FltRules
    <3>1. Atoi(p) \in 0..255
      BY <1>10 DEF IpProto, Expect
    <3>. DEFINE r1 == [rule EXCEPT !.proto = Atoi(p)]
                r2 == [r1 EXCEPT !.useProto = TRUE]
    <3>m1. r1 \in FltRules
      BY <1>0, <3>1, OneStored
    <3>m2. r2 \in FltRules
      BY <3>m1, <3>1, OneStored
    <3>e. rule' = r2
      BY <1>10 DEF IpProto
    <3>. QED
      BY <3>m2, <3>e
  <2>. QED
    BY <1>10, <1>c, <1>w, <2>1 DEF IpProto
<1>11. CASE Flags
  <2>1. With(p, "+") \in SUBSET FlagNames /\ With(p, "-") \in SUBSET FlagNames
    BY DEF With
  <2>2. rule' \in FltRules
    <3>. DEFINE r1 == [rule EXCEPT !.flagsSet = With(p, "+")]
                r2 == [r1 EXCEPT !.flagsUnset = With(p, "-")]
    <3>m1. r1 \in FltRules
      BY <1>0, <2>1, OneStored
    <3>m2. r2 \in FltRules
      BY <3>m1, <2>1, OneStored
    <3>e. rule' = r2
      BY <1>11 DEF Flags
    <3>. QED
      BY <3>m2, <3>e
  <2>. QED
    BY <1>11, <1>c, <1>w, <2>2 DEF Flags
<1>12. CASE TypeAlone
  <2>1. rule' \in FltRules
    <3>1. Atoi(p) \in 0..255
      BY <1>12, InRangeIs DEF TypeAlone, Expect
    <3>. DEFINE r1 == [rule EXCEPT !.type = Atoi(p)]
                r2 == [r1 EXCEPT !.useType = TRUE]
    <3>m1. r1 \in FltRules
      BY <1>0, <3>1, OneStored
    <3>m2. r2 \in FltRules
      BY <3>m1, <3>1, OneStored
    <3>e. rule' = r2
      BY <1>12 DEF TypeAlone
    <3>. QED
      BY <3>m2, <3>e
  <2>. QED
    BY <1>12, <1>c, <1>w, <2>1 DEF TypeAlone
<1>13. CASE TypeAndCode
  <2>1. PICK s \in ToPoint :
          /\ p # NULL /\ InRange(TypeOf(p), BehindType(s), 255)
          /\ rule' = [rule EXCEPT !.type = Atoi(TypeOf(p)), !.useType = TRUE]
          /\ line' = line \o s /\ clause' = "code" /\ p' = Dotted[Pointed(s)][2]
    BY <1>13 DEF TypeAndCode, Expect
  <2>2. Atoi(TypeOf(p)) \in 0..255
    <3>1. \A w, b : InRange(w, b, 255) => Atoi(w) \in 0..255
      BY InRangeIs
    <3>. QED
      BY <2>1, <3>1
  <2>3. rule' \in FltRules
    <3>. DEFINE r1 == [rule EXCEPT !.type = Atoi(TypeOf(p))]
                r2 == [r1 EXCEPT !.useType = TRUE]
    <3>m1. r1 \in FltRules
      BY <1>0, <2>2, OneStored
    <3>m2. r2 \in FltRules
      BY <3>m1, <2>2, OneStored
    <3>e. rule' = r2
      BY <2>1
    <3>. QED
      BY <3>m2, <3>e
  <2>4. s \in Seq(Words) /\ Pointed(s) \in DOMAIN Dotted
    BY <2>1, ToPointIs
  <2>5. line' \in Seq(Words)
    BY <1>0, <2>1, <2>4, ConcatProperties
  <2>6. p' \in Words
    BY <2>1, <2>4, PartsAssumption
  <2>. QED
    BY <2>1, <2>3, <2>5, <2>6 DEF RuleTypeOK, Clauses
<1>14. CASE Code
  <2>1. UChar(Atoi(p)) \in 0..255
    BY AtoiInt DEF UChar
  <2>2. rule' \in FltRules
    <3>. DEFINE r1 == [rule EXCEPT !.code = UChar(Atoi(p))]
                r2 == [r1 EXCEPT !.useCode = TRUE]
    <3>m1. r1 \in FltRules
      BY <1>0, <2>1, OneStored
    <3>m2. r2 \in FltRules
      BY <3>m1, <2>1, OneStored
    <3>e. rule' = r2
      BY <1>14 DEF Code
    <3>. QED
      BY <3>m2, <3>e
  <2>. QED
    BY <1>14, <1>c, <1>w, <2>2 DEF Code
<1>15. CASE NoLog
  <2>1. clause' \in Returned /\ UNCHANGED p
    BY <1>15 DEF NoLog, Returned
  <2>2. line' \in Seq(Words)
    <3>1. Tried["nolog"] \subseteq Words
      BY WordsAssumption DEF Clauses
    <3>. QED
      BY <1>0, <1>15, <3>1 DEF NoLog
  <2>3. rule' \in FltRules
    BY <1>0, <1>15, OneStored DEF NoLog
  <2>. QED
    BY <1>0, <2>1, <2>2, <2>3 DEF RuleTypeOK
<1>16. CASE Ends
  BY <1>0, <1>16 DEF Ends, Returns, Returned, RuleTypeOK
<1>17. CASE Reject
  <2>1. /\ p # NULL /\ clause' = "rejected" /\ UNCHANGED <<p, rule>>
        /\ line' = line \/ \E s \in ToPoint : line' = line \o s
    BY <1>17, GivenUp
  <2>2. line' \in Seq(Words)
    <3>1. ASSUME NEW s \in ToPoint, line' = line \o s PROVE line' \in Seq(Words)
      <4>1. s \in Seq(Words)
        BY <2>1, ToPointIs
      <4>. QED
        BY <1>0, <3>1, <4>1, ConcatProperties
    <3>. QED
      BY <1>0, <2>1, <3>1
  <2>. QED
    BY <1>0, <2>1, <2>2 DEF RuleTypeOK, Returned
<1>18. CASE UNCHANGED parseVars
  BY <1>0, <1>18 DEF parseVars, RuleTypeOK
<1>. QED
  BY <1>1, <1>2, <1>3, <1>4, <1>5, <1>6, <1>7, <1>8, <1>9, <1>10, <1>11, <1>12, <1>13, <1>14,
     <1>15, <1>16, <1>17, <1>18 DEF ParseNext

(* What parse_rule stores has the width of its field, and its pointer      *)
(* stays in the line, for any words.                                       *)
THEOREM RuleTypes == ParseSpec => []RuleTypeOK
PROOF
<1>1. RuleTypeOK /\ [ParseNext]_parseVars => RuleTypeOK'
  BY StepTypes
<1>. QED
  BY <1>1, InitTypes, PTL DEF ParseSpec
-----------------------------------------------------------------------------
(* The forms of a rule, place by place. *)
LEMMA JoinedSeqs ==
  ASSUME NEW S, NEW a \in Seq(S), NEW b \in Seq(S), NEW q, q = a \o b,
         NEW m \in Nat, NEW k \in Nat, m = Len(a), k = Len(b)
  PROVE  /\ q \in Seq(S) /\ Len(q) = m + k
         /\ \A j \in 1..m : q[j] = a[j]
         /\ \A j \in 1..k : q[m + j] = b[j]
PROOF
<1>1. q \in Seq(S) /\ Len(q) = m + k
  OBVIOUS
<1>2. ASSUME NEW j \in 1..m PROVE q[j] = a[j]
  OBVIOUS
<1>3. ASSUME NEW j \in 1..k PROVE q[m + j] = b[j]
  OBVIOUS
<1>. QED
  BY <1>1, <1>2, <1>3

Five(q, x, i, y, o, n) == q = x \o i \o y \o o \o n
Places(q, mx, x, mi, i, my, y, mo, o, mn, n) ==
  /\ Len(q) = mx + mi + my + mo + mn
  /\ \A j \in 1..mx : q[j] = x[j]
  /\ \A j \in 1..mi : q[mx + j] = i[j]
  /\ \A j \in 1..my : q[mx + mi + j] = y[j]
  /\ \A j \in 1..mo : q[mx + mi + my + j] = o[j]
  /\ \A j \in 1..mn : q[mx + mi + my + mo + j] = n[j]

(* Five sequences after each other: the place of each. *)
LEMMA FiveParts ==
  ASSUME NEW S, NEW x \in Seq(S), NEW i \in Seq(S), NEW y \in Seq(S), NEW o \in Seq(S), NEW n \in Seq(S),
         NEW q, Five(q, x, i, y, o, n)
  PROVE  q \in Seq(S) /\ Places(q, Len(x), x, Len(i), i, Len(y), y, Len(o), o, Len(n), n)
PROOF
<1>0. PICK mx \in Nat, mi \in Nat, my \in Nat, mo \in Nat, mn \in Nat :
        mx = Len(x) /\ mi = Len(i) /\ my = Len(y) /\ mo = Len(o) /\ mn = Len(n)
  OBVIOUS
<1>1. x \o i \in Seq(S)
  BY ConcatProperties
<1>2. PICK a \in Seq(S) : a = x \o i
  BY <1>1
<1>3. a \o y \in Seq(S)
  BY ConcatProperties
<1>4. PICK b \in Seq(S) : b = a \o y
  BY <1>3
<1>5. b \o o \in Seq(S)
  BY ConcatProperties
<1>6. PICK c \in Seq(S) : c = b \o o
  BY <1>5
<1>7. q = c \o n
  BY <1>2, <1>4, <1>6 DEF Five
<1>8. PICK ma \in Nat : ma = mx + mi
  OBVIOUS
<1>9. PICK mb \in Nat : mb = ma + my
  OBVIOUS
<1>10. PICK mc \in Nat : mc = mb + mo
  OBVIOUS
<1>11. /\ ma = Len(a)
       /\ \A j \in 1..mx : a[j] = x[j]
       /\ \A j \in 1..mi : a[mx + j] = i[j]
  BY <1>0, <1>2, <1>8, JoinedSeqs
<1>12. /\ mb = Len(b)
       /\ \A j \in 1..ma : b[j] = a[j]
       /\ \A j \in 1..my : b[ma + j] = y[j]
  BY <1>0, <1>4, <1>9, <1>11, JoinedSeqs
<1>13. /\ mc = Len(c)
       /\ \A j \in 1..mb : c[j] = b[j]
       /\ \A j \in 1..mo : c[mb + j] = o[j]
  BY <1>0, <1>6, <1>10, <1>12, JoinedSeqs
<1>14. /\ q \in Seq(S) /\ Len(q) = mc + mn
       /\ \A j \in 1..mc : q[j] = c[j]
       /\ \A j \in 1..mn : q[mc + j] = n[j]
  BY <1>0, <1>7, <1>13, JoinedSeqs
<1>15. ASSUME NEW j \in 1..mx PROVE q[j] = x[j]
  <2>1. j \in 1..ma /\ j \in 1..mb /\ j \in 1..mc
    BY <1>8, <1>9, <1>10
  <2>. QED
    BY <1>11, <1>12, <1>13, <1>14, <2>1
<1>16. ASSUME NEW j \in 1..mi PROVE q[mx + j] = i[j]
  <2>1. mx + j \in 1..ma /\ mx + j \in 1..mb /\ mx + j \in 1..mc
    BY <1>8, <1>9, <1>10
  <2>. QED
    BY <1>11, <1>12, <1>13, <1>14, <2>1
<1>17. ASSUME NEW j \in 1..my PROVE q[mx + mi + j] = y[j]
  <2>1. ma + j \in 1..mb /\ ma + j \in 1..mc
    BY <1>8, <1>9, <1>10
  <2>. QED
    BY <1>8, <1>12, <1>13, <1>14, <2>1
<1>18. ASSUME NEW j \in 1..mo PROVE q[mx + mi + my + j] = o[j]
  <2>1. mb + j \in 1..mc
    BY <1>9, <1>10
  <2>. QED
    BY <1>8, <1>9, <1>13, <1>14, <2>1
<1>19. ASSUME NEW j \in 1..mn PROVE q[mx + mi + my + mo + j] = n[j]
  BY <1>8, <1>9, <1>10, <1>14
<1>20. Len(q) = mx + mi + my + mo + mn
  BY <1>8, <1>9, <1>10, <1>14
<1>21. Places(q, mx, x, mi, i, my, y, mo, o, mn, n)
  BY <1>15, <1>16, <1>17, <1>18, <1>19, <1>20 DEF Places
<1>. QED
  BY <1>0, <1>14, <1>21

(* The words at each place of a form; "from" is at f and the end at last.  *)
ArgsOf(k, proto, flags, type) ==
  CASE k = "ip" -> proto [] k = "tcp" -> flags [] k = "icmp" -> type [] k = "udp" -> {}

FormParts(form, k, f, last, index, addrs, args) ==
  /\ Len(form) = last /\ DOMAIN form = 1..last
  /\ form[1] = Verdicts /\ form[2] = {k} /\ form[3] = Directions
  /\ f = 6 => form[4] = {"if"} /\ form[5] = index
  /\ form[f] = {"from"} /\ form[f + 1] = addrs /\ form[f + 2] = {"to"} /\ form[f + 3] = addrs
  /\ last >= f + 5 => k # "udp" /\ form[f + 4] = {KeyOf(k)} /\ form[f + 5] = args
  /\ last \in {f + 4, f + 6} => form[last] = {"nolog"}

(* A form is known by its parts and their places. *)
LEMMA FormOfPlaces ==
  ASSUME NEW k, NEW index, NEW addrs, NEW args, NEW form,
         NEW x, NEW i, NEW y, NEW o, NEW n,
         NEW mi \in {0, 2}, NEW mo \in {0, 2}, NEW mn \in {0, 1},
         Places(form, 3, x, mi, i, 4, y, mo, o, mn, n), DOMAIN form = 1..Len(form),
         x[1] = Verdicts, x[2] = {k}, x[3] = Directions,
         mi = 2 => (i[1] = {"if"} /\ i[2] = index),
         y[1] = {"from"}, y[2] = addrs, y[3] = {"to"}, y[4] = addrs,
         mo = 2 => (k # "udp" /\ o[1] = {KeyOf(k)} /\ o[2] = args),
         mn = 1 => n[1] = {"nolog"}
  PROVE  FormParts(form, k, 4 + mi, 7 + mi + mo + mn, index, addrs, args)
PROOF
  BY DEF Places, FormParts

FormFrom(form, k, index, addrs, args, i, o, n) ==
  /\ i \in {<<>>, <<{"if"}, index>>} /\ n \in {<<>>, <<{"nolog"}>>}
  /\ o \in {<<>>, <<{KeyOf(k)}, args>>} /\ (o # <<>> => k # "udp")
  /\ form = <<Verdicts, {k}, Directions>> \o i \o <<{"from"}, addrs, {"to"}, addrs>> \o o \o n

(* A form has four shapes of options, at places that follow from them. *)
LEMMA FormShape ==
  ASSUME NEW k, NEW index, NEW addrs, NEW args, NEW form, NEW i, NEW o, NEW n,
         FormFrom(form, k, index, addrs, args, i, o, n)
  PROVE  \E mi \in {0, 2}, mo \in {0, 2}, mn \in {0, 1} :
           /\ (i = <<>> <=> mi = 0)
           /\ (o = <<>> <=> mo = 0)
           /\ (n = <<>> <=> mn = 0)
           /\ FormParts(form, k, 4 + mi, 7 + mi + mo + mn, index, addrs, args)
PROOF
<1>. DEFINE S == {Verdicts, {k}, Directions, {"if"}, index, {"from"}, addrs, {"to"}, {KeyOf(k)}, args, {"nolog"}}
<1>1. PICK x : x = <<Verdicts, {k}, Directions>>
  OBVIOUS
<1>2. PICK y : y = <<{"from"}, addrs, {"to"}, addrs>>
  OBVIOUS
<1>3. x \in Seq(S) /\ Len(x) = 3 /\ x[1] = Verdicts /\ x[2] = {k} /\ x[3] = Directions
  BY <1>1
<1>4. y \in Seq(S) /\ Len(y) = 4 /\ y[1] = {"from"} /\ y[2] = addrs /\ y[3] = {"to"} /\ y[4] = addrs
  BY <1>2
<1>a. \A a, b : a \in S /\ b \in S => /\ <<a, b>> \in Seq(S) /\ Len(<<a, b>>) = 2 /\ <<a, b>> # <<>>
                                     /\ <<a, b>>[1] = a /\ <<a, b>>[2] = b
  <2>. HIDE DEF S
  <2>. QED
    OBVIOUS
<1>5. PICK mi \in {0, 2} : /\ i \in Seq(S) /\ Len(i) = mi /\ (i = <<>> <=> mi = 0)
                           /\ (mi = 2 => i[1] = {"if"} /\ i[2] = index)
  <2>1. CASE i = <<>>
    BY <2>1
  <2>2. CASE i = <<{"if"}, index>>
    BY <1>a, <2>2 DEF FormFrom
  <2>. QED
    BY <2>1, <2>2 DEF FormFrom
<1>6. PICK mo \in {0, 2} : /\ o \in Seq(S) /\ Len(o) = mo /\ (o = <<>> <=> mo = 0)
                           /\ (mo = 2 => k # "udp" /\ o[1] = {KeyOf(k)} /\ o[2] = args)
  <2>1. CASE o = <<>>
    BY <2>1
  <2>2. CASE o = <<{KeyOf(k)}, args>>
    BY <1>a, <2>2 DEF FormFrom
  <2>. QED
    BY <2>1, <2>2 DEF FormFrom
<1>7. PICK mn \in {0, 1} : /\ n \in Seq(S) /\ Len(n) = mn /\ (n = <<>> <=> mn = 0)
                           /\ (mn = 1 => n[1] = {"nolog"})
  <2>1. CASE n = <<>>
    BY <2>1
  <2>2. CASE n = <<{"nolog"}>>
    BY <2>2
  <2>. QED
    BY <2>1, <2>2 DEF FormFrom
<1>8. Five(form, x, i, y, o, n)
  BY <1>1, <1>2 DEF Five, FormFrom
<1>. HIDE DEF S
<1>9. form \in Seq(S) /\ Places(form, Len(x), x, Len(i), i, Len(y), y, Len(o), o, Len(n), n)
  BY <1>3, <1>4, <1>5, <1>6, <1>7, <1>8, FiveParts
<1>10. Places(form, 3, x, mi, i, 4, y, mo, o, mn, n) /\ DOMAIN form = 1..Len(form)
  BY <1>3, <1>4, <1>5, <1>6, <1>7, <1>9
<1>11. FormParts(form, k, 4 + mi, 7 + mi + mo + mn, index, addrs, args)
  <2>1. /\ mi \in {0, 2} /\ mo \in {0, 2} /\ mn \in {0, 1}
        /\ x[1] = Verdicts /\ x[2] = {k} /\ x[3] = Directions
        /\ (mi = 2 => (i[1] = {"if"} /\ i[2] = index))
        /\ y[1] = {"from"} /\ y[2] = addrs /\ y[3] = {"to"} /\ y[4] = addrs
        /\ (mo = 2 => (k # "udp" /\ o[1] = {KeyOf(k)} /\ o[2] = args))
        /\ (mn = 1 => n[1] = {"nolog"})
    BY <1>3, <1>4, <1>5, <1>6, <1>7
  <2>. QED
    BY <1>10, <2>1 DEF Places, FormParts
<1>. QED
  BY <1>5, <1>6, <1>7, <1>11

Glued(x, I, y, O, N) == {x \o i \o y \o o \o n : i \in I, o \in O, n \in N}

(* The members of Glued. *)
LEMMA InGlued ==
  ASSUME NEW x, NEW I, NEW y, NEW O, NEW N, NEW q
  PROVE  q \in Glued(x, I, y, O, N) <=> \E i \in I, o \in O, n \in N : q = x \o i \o y \o o \o n
PROOF
  BY SMTT(30) DEF Glued

(* The forms of a kind of rule, as one product of parts. *)
LEMMA FormsAre ==
  ASSUME NEW k, NEW index, NEW addrs, NEW proto, NEW flags, NEW type
  PROVE  FormsOf(k, index, addrs, proto, flags, type) =
           Glued(<<Verdicts, {k}, Directions>>, {<<>>, <<{"if"}, index>>},
                     <<{"from"}, addrs, {"to"}, addrs>>, Options(k, proto, flags, type), {<<>>, <<{"nolog"}>>})
PROOF
  BY DEF FormsOf, Glued

(* Every form puts its parts at these places ... *)
LEMMA FormOf ==
  ASSUME NEW k \in Kinds, NEW index, NEW addrs, NEW proto, NEW flags, NEW type,
         NEW form \in FormsOf(k, index, addrs, proto, flags, type)
  PROVE  \E f \in {4, 6}, last \in 7..12 :
           last \in f + 3 .. f + 6 /\ FormParts(form, k, f, last, index, addrs, ArgsOf(k, proto, flags, type))
PROOF
<1>a. PICK x, y, I, N : /\ x = <<Verdicts, {k}, Directions>> /\ y = <<{"from"}, addrs, {"to"}, addrs>>
                        /\ I = {<<>>, <<{"if"}, index>>} /\ N = {<<>>, <<{"nolog"}>>}
  OBVIOUS
<1>b. form \in Glued(x, I, y, Options(k, proto, flags, type), N)
  BY <1>a, FormsAre
<1>c. PICK i \in I, o \in Options(k, proto, flags, type), n \in N : form = x \o i \o y \o o \o n
  BY <1>b DEF Glued
<1>1. /\ i \in {<<>>, <<{"if"}, index>>} /\ n \in {<<>>, <<{"nolog"}>>}
      /\ form = <<Verdicts, {k}, Directions>> \o i \o <<{"from"}, addrs, {"to"}, addrs>> \o o \o n
  BY <1>a, <1>c
<1>2. o = <<>> \/ (k # "udp" /\ o = <<{KeyOf(k)}, ArgsOf(k, proto, flags, type)>>)
  BY <1>c DEF Options, KeyOf, ArgsOf, Kinds, Tables, Transports
<1>3. FormFrom(form, k, index, addrs, ArgsOf(k, proto, flags, type), i, o, n)
  BY <1>1, <1>2 DEF FormFrom
<1>4. PICK mi \in {0, 2}, mo \in {0, 2}, mn \in {0, 1} :
        FormParts(form, k, 4 + mi, 7 + mi + mo + mn, index, addrs, ArgsOf(k, proto, flags, type))
  BY <1>3, FormShape
<1>5. PICK f \in {4, 6}, last \in 7..12 : f = 4 + mi /\ last = 7 + mi + mo + mn
  OBVIOUS
<1>. QED
  BY <1>4, <1>5

(* ... and for these places there is a form. *)
LEMMA FormMade ==
  ASSUME NEW k \in Kinds, NEW index, NEW addrs, NEW proto, NEW flags, NEW type,
         NEW f \in {4, 6}, NEW last \in f + 3 .. f + 6, last >= f + 5 => k # "udp"
  PROVE  \E form \in FormsOf(k, index, addrs, proto, flags, type) :
           FormParts(form, k, f, last, index, addrs, ArgsOf(k, proto, flags, type))
PROOF
<1>1. PICK i \in {<<>>, <<{"if"}, index>>} : i = <<>> <=> f = 4
  OBVIOUS
<1>2. PICK n \in {<<>>, <<{"nolog"}>>} : n = <<>> <=> last \in {f + 3, f + 5}
  OBVIOUS
<1>3. PICK o \in Options(k, proto, flags, type) :
        IF last >= f + 5 THEN o = <<{KeyOf(k)}, ArgsOf(k, proto, flags, type)>> ELSE o = <<>>
  BY DEF Options, KeyOf, ArgsOf, Kinds, Tables, Transports
<1>4. PICK form : form = <<Verdicts, {k}, Directions>> \o i \o <<{"from"}, addrs, {"to"}, addrs>> \o o \o n
  OBVIOUS
<1>5. form \in FormsOf(k, index, addrs, proto, flags, type)
  BY <1>1, <1>2, <1>3, <1>4, FormsAre, InGlued
<1>6. FormFrom(form, k, index, addrs, ArgsOf(k, proto, flags, type), i, o, n)
  BY <1>3, <1>4 DEF FormFrom
<1>7. PICK mi \in {0, 2}, mo \in {0, 2}, mn \in {0, 1} :
        /\ (i = <<>> <=> mi = 0)
        /\ (o = <<>> <=> mo = 0)
        /\ (n = <<>> <=> mn = 0)
        /\ FormParts(form, k, 4 + mi, 7 + mi + mo + mn, index, addrs, ArgsOf(k, proto, flags, type))
  BY <1>6, FormShape
<1>8. f = 4 + mi
  BY <1>1, <1>7
<1>9. o = <<>> <=> last < f + 5
  BY <1>3
<1>10. last = 7 + mi + mo + mn
  BY <1>2, <1>7, <1>8, <1>9
<1>. QED
  BY <1>5, <1>7, <1>8, <1>10

(* The words of the line at the places of such a form. *)
FormLine(l, m, k, f, last, index, addrs, args) ==
  /\ m <= last
  /\ (m >= 1 => l[1] \in Verdicts) /\ (m >= 2 => l[2] = k) /\ (m >= 3 => l[3] \in Directions)
  /\ (f = 6 => (m >= 4 => l[4] = "if") /\ (m >= 5 => l[5] \in index))
  /\ (m >= f => l[f] = "from") /\ (m >= f + 1 => l[f + 1] \in addrs)
  /\ (m >= f + 2 => l[f + 2] = "to") /\ (m >= f + 3 => l[f + 3] \in addrs)
  /\ (last >= f + 5 => /\ k # "udp"
                       /\ (m >= f + 4 => l[f + 4] = KeyOf(k))
                       /\ (m >= f + 5 => l[f + 5] \in args))
  /\ (last \in {f + 4, f + 6} /\ m = last => l[last] = "nolog")

(* A line of which every word fits a form has its words at the places of   *)
(* the form ...                                                            *)
LEMMA FitsLine ==
  ASSUME NEW l, NEW m \in Nat, DOMAIN l = 1..m, NEW form, NEW k, NEW f \in {4, 6}, NEW last \in f + 3 .. f + 6,
         NEW index, NEW addrs, NEW args, FormParts(form, k, f, last, index, addrs, args),
         \A i \in DOMAIN l : i \in DOMAIN form /\ l[i] \in form[i]
  PROVE  FormLine(l, m, k, f, last, index, addrs, args)
PROOF
<1>1. m <= last
  <2>1. m >= 1 => m \in 1..m
    OBVIOUS
  <2>2. \A i \in 1..m : i \in 1..last
    BY DEF FormParts
  <2>. QED
    BY <2>1, <2>2
<1>2. \A i \in 1..last : i <= m => l[i] \in form[i]
  OBVIOUS
<1>3. (last >= f + 5 => /\ k # "udp"
                       /\ (m >= f + 4 => l[f + 4] = KeyOf(k))
                       /\ (m >= f + 5 => l[f + 5] \in args))
  BY <1>1, <1>2 DEF FormParts
<1>4. last \in {f + 4, f + 6} /\ m = last => l[last] = "nolog"
  BY <1>1, <1>2 DEF FormParts
<1>5. (f = 6 => (m >= 4 => l[4] = "if") /\ (m >= 5 => l[5] \in index))
  BY <1>1, <1>2 DEF FormParts
<1>6. (m >= 1 => l[1] \in Verdicts) /\ (m >= 2 => l[2] = k) /\ (m >= 3 => l[3] \in Directions)
  BY <1>1, <1>2 DEF FormParts
<1>7. /\ (m >= f => l[f] = "from") /\ (m >= f + 1 => l[f + 1] \in addrs)
      /\ (m >= f + 2 => l[f + 2] = "to") /\ (m >= f + 3 => l[f + 3] \in addrs)
  BY <1>1, <1>2 DEF FormParts
<1>. QED
  BY <1>1, <1>3, <1>4, <1>5, <1>6, <1>7 DEF FormLine

(* ... and a line with its words at the places of a form fits it. *)
LEMMA LineFits ==
  ASSUME NEW l, NEW f \in {4, 6}, NEW m \in f + 3 .. f + 6, DOMAIN l = 1..m, NEW form, NEW k,
         NEW index, NEW addrs, NEW args, FormParts(form, k, f, m, index, addrs, args),
         FormLine(l, m, k, f, m, index, addrs, args)
  PROVE  \A i \in DOMAIN l : i \in DOMAIN form /\ l[i] \in form[i]
PROOF
<1>1. DOMAIN form = 1..m
  BY DEF FormParts
<1>2. ASSUME NEW i \in 1..m PROVE l[i] \in form[i]
  <2>1. CASE i \in 1..3
    BY <2>1 DEF FormParts, FormLine
  <2>2. CASE f = 6 /\ i \in {4, 5}
    BY <2>2 DEF FormParts, FormLine
  <2>3. CASE i \in f .. f + 3
    BY <2>3 DEF FormParts, FormLine
  <2>4. CASE i > f + 3
    BY <2>4 DEF FormParts, FormLine
  <2>. QED
    BY <1>2, <2>1, <2>2, <2>3, <2>4
<1>. QED
  BY <1>1, <1>2
-----------------------------------------------------------------------------
(* A line that begins as a documented one, or is one, place by place. *)
DocLine(l, k, f, last) ==
  FormLine(l, Len(l), k, f, last, Index, Addrs(k), ArgsOf(k, ProtoNums, FlagWords, TypeWords))

(* A line that begins as a documented one, by places. *)
LEMMA BeginsIs ==
  ASSUME NEW l \in Seq(Words), NEW form \in Forms,
         \A i \in DOMAIN l : i \in DOMAIN form /\ l[i] \in form[i]
  PROVE  \E k \in Kinds, f \in {4, 6}, last \in 7..12 :
           last \in f + 3 .. f + 6 /\ last = Len(form) /\ DocLine(l, k, f, last)
PROOF
<1>1. PICK k \in Kinds : form \in FormsOf(k, Index, Addrs(k), ProtoNums, FlagWords, TypeWords)
  BY DEF Forms
<1>2. PICK f \in {4, 6}, last \in 7..12 :
        /\ last \in f + 3 .. f + 6
        /\ FormParts(form, k, f, last, Index, Addrs(k), ArgsOf(k, ProtoNums, FlagWords, TypeWords))
  BY <1>1, FormOf
<1>3. Len(l) \in Nat /\ DOMAIN l = 1..Len(l)
  OBVIOUS
<1>4. DocLine(l, k, f, last)
  BY <1>2, <1>3, FitsLine DEF DocLine
<1>5. last = Len(form)
  BY <1>2 DEF FormParts
<1>. QED
  BY <1>2, <1>4, <1>5

LooseArgs(k) == ArgsOf(k, Loose(ProtoNums), FlagWords \cup {""}, Loose(TypeWords) \cup DOMAIN Dotted)

LooseRead(l, m, k, f) ==
  /\ k \in Kinds /\ f \in {4, 6} /\ m \in f + 3 .. f + 6 /\ DOMAIN l = 1..m
  /\ FormLine(l, m, k, f, m, Loose(Index), LooseAddr, LooseArgs(k))
IsLoose(l, m) ==
  \E form \in LooseForms : Len(form) = m /\ \A i \in DOMAIN l : i \in DOMAIN form /\ l[i] \in form[i]

(* Words that the clauses have read, at their places, make a rule of the   *)
(* loose forms.                                                            *)
LEMMA LooseIs ==
  ASSUME NEW l, NEW k, NEW f, NEW m, LooseRead(l, m, k, f)
  PROVE  IsLoose(l, m)
PROOF
<1>0. /\ k \in Kinds /\ f \in {4, 6} /\ m \in f + 3 .. f + 6 /\ DOMAIN l = 1..m
      /\ FormLine(l, m, k, f, m, Loose(Index), LooseAddr, LooseArgs(k))
  BY DEF LooseRead
<1>1. m >= f + 5 => k # "udp"
  BY <1>0 DEF FormLine
<1>2. PICK index, proto, flags, type :
        index = Loose(Index) /\ proto = Loose(ProtoNums) /\ flags = FlagWords \cup {""}
        /\ type = Loose(TypeWords) \cup DOMAIN Dotted
  OBVIOUS
<1>3. PICK form \in FormsOf(k, index, LooseAddr, proto, flags, type) :
        FormParts(form, k, f, m, index, LooseAddr, ArgsOf(k, proto, flags, type))
  BY <1>0, <1>1, FormMade
<1>4. ArgsOf(k, proto, flags, type) = LooseArgs(k)
  BY <1>2 DEF LooseArgs
<1>5. \A i \in DOMAIN l : i \in DOMAIN form /\ l[i] \in form[i]
  <2>1. FormLine(l, m, k, f, m, index, LooseAddr, ArgsOf(k, proto, flags, type))
    BY <1>0, <1>2, <1>4
  <2>. QED
    BY <1>0, <1>3, <2>1, LineFits
<1>6. Len(form) = m
  BY <1>3 DEF FormParts
<1>7. form \in LooseForms
  BY <1>0, <1>2, <1>3 DEF LooseForms
<1>. QED
  BY <1>5, <1>6, <1>7 DEF IsLoose
-----------------------------------------------------------------------------
(* A documented word passes. *)
LEMMA NumeralIs ==
  ASSUME NEW w \in Numerals
  PROVE  Atoi(w) = Number[w] /\ Number[w] \in Int /\ (Number[w] = 0 => w = "0") /\ (Number[w] = 255 => w = "255")
PROOF
  BY NumberAssumption DEF Atoi

(* A documented octet passes the check of an octet. *)
LEMMA ByteOK == \A w \in Byte : InRange(w, NULL, 255)
PROOF
  BY NumeralIs DEF Byte, InRange

(* An octet with all eight bits is 255. *)
LEMMA AllOnes ==
  ASSUME NEW n \in 0..255, NEW k \in 1..4, 8 * (4 - k) .. 8 * (4 - k) + 7 \subseteq OctetBits(k, n)
  PROVE  n = 255
PROOF
<1>1. \A j \in 0..7 : (n \div 2^j) % 2 = 1
  <2>1. ASSUME NEW j \in 0..7 PROVE (n \div 2^j) % 2 = 1
    <3>1. 8 * (4 - k) + j \in OctetBits(k, n)
      OBVIOUS
    <3>2. 8 * (4 - k) + j - 8 * (4 - k) = j
      OBVIOUS
    <3>. QED
      BY <3>1, <3>2 DEF OctetBits
  <2>. QED
    BY <2>1
<1>2. 2^0 = 1 /\ 2^1 = 2 /\ 2^2 = 4 /\ 2^3 = 8 /\ 2^4 = 16 /\ 2^5 = 32 /\ 2^6 = 64 /\ 2^7 = 128
  OBVIOUS
<1>3. /\ n % 2 = 1 /\ (n \div 2) % 2 = 1 /\ (n \div 4) % 2 = 1 /\ (n \div 8) % 2 = 1
      /\ (n \div 16) % 2 = 1 /\ (n \div 32) % 2 = 1 /\ (n \div 64) % 2 = 1 /\ (n \div 128) % 2 = 1
  BY <1>1, <1>2
<1>. QED
  BY <1>3

(* A documented octet is a number of one byte, and 255 is written in one   *)
(* way.                                                                    *)
LEMMA OctetIs ==
  ASSUME NEW w, Octet(w)
  PROVE  Atoi(w) \in 0..255 /\ (Atoi(w) = 255 => w = "255")
PROOF
  BY NumeralIs DEF Octet

(* Four octets are an address. *)
LEMMA HostIsOK ==
  ASSUME NEW host \in Seq(STRING), Len(host) = 4, \A k \in 1..4 : Octet(host[k])
  PROVE  HostOK(host, NULL)
PROOF
<1>1. ASSUME NEW k \in 1..4 PROVE Atoi(host[k]) \in 0..255 /\ (Atoi(host[k]) = 255 => host[k] = "255")
  <2>1. Octet(host[k])
    OBVIOUS
  <2>. QED
    BY <2>1, OctetIs
<1>2. ASSUME InetAddr(host) = Bits PROVE host = [k \in 1..4 |-> "255"]
  <2>1. ASSUME NEW k \in 1..4 PROVE host[k] = "255"
    <3>1. InetAddr(host) = UNION {OctetBits(j, Atoi(host[j])) : j \in 1..4}
      BY <1>1 DEF InetAddr
    <3>2. \A j \in 1..4 : \A b \in OctetBits(j, Atoi(host[j])) : b \in 8 * (4 - j) .. 8 * (4 - j) + 7
      BY DEF OctetBits
    <3>3. 8 * (4 - k) .. 8 * (4 - k) + 7 \subseteq OctetBits(k, Atoi(host[k]))
      <4>1. ASSUME NEW b \in 8 * (4 - k) .. 8 * (4 - k) + 7 PROVE b \in OctetBits(k, Atoi(host[k]))
        <5>1. b \in Bits
          BY DEF Bits
        <5>2. PICK j \in 1..4 : b \in OctetBits(j, Atoi(host[j]))
          BY <1>2, <3>1, <5>1
        <5>3. j = k
          BY <3>2, <5>2
        <5>. QED
          BY <5>2, <5>3
      <4>. QED
        BY <4>1
    <3>4. Atoi(host[k]) = 255
      BY ZenonT(40), <1>1, <3>3, AllOnes
    <3>. QED
      BY <1>1, <3>4
  <2>2. host = [k \in 1..4 |-> host[k]]
    OBVIOUS
  <2>. QED
    BY <2>1, <2>2
<1>. QED
  BY <1>2 DEF HostOK

(* parse_amp_str takes every documented address of the kind of rule. *)
LEMMA AddrOK ==
  ASSUME NEW k \in Kinds, NEW w \in Addrs(k)
  PROVE  AmpOK(w, k)
PROOF
<1>. DEFINE a == Address[w]
<1>1. w \in DOMAIN Address
  BY DEF Addrs, AnyAddr, IpAddr
<1>2. Parts(w) = a
  BY <1>1 DEF Parts
<1>3. a.host \in Seq(STRING) /\ (a.port = NULL => a.port2 = NULL)
  BY <1>1, AddressAssumption
<1>4. CASE w \in AnyAddr
  <2>1. a.host = <<"any">> /\ a.mask = NULL /\ a.port = NULL /\ a.port2 = NULL
    BY <1>3, <1>4 DEF AnyAddr
  <2>. HIDE DEF a
  <2>. QED
    BY <1>2, <2>1 DEF AmpOK
<1>5. CASE w \in IpAddr /\ (k \in PortKinds \/ a.port = NULL)
  <2>1. /\ Len(a.host) = 4 /\ \A j \in 1..4 : Octet(a.host[j])
        /\ a.mask = NULL \/ (a.mask \in Numerals /\ Number[a.mask] \in 0..32)
        /\ a.port = NULL \/ (a.port \in Numerals /\ Number[a.port] \in 1..MaxPort)
        /\ a.port2 = NULL \/ (a.port2 \in Numerals /\ Number[a.port2] \in Number[a.port]..MaxPort)
    BY <1>5 DEF IpAddr
  <2>. HIDE DEF a
  <2>2. HostOK(a.host, NULL)
    BY <1>3, <2>1, HostIsOK
  <2>3. a.mask = NULL \/ InRange(a.mask, NULL, 32)
    BY <2>1, NumeralIs DEF InRange
  <2>4. a.port = NULL \/ InRange(a.port, NULL, MaxPort)
    BY <2>1, NumeralIs DEF InRange
  <2>5. a.port2 = NULL \/ InRange(a.port2, NULL, MaxPort)
    <3>1. CASE a.port2 # NULL
      <4>1. a.port # NULL
        BY <1>3, <3>1
      <4>2. a.port2 \in Numerals /\ Number[a.port2] \in Number[a.port]..MaxPort /\ Number[a.port] \in 1..MaxPort
        BY <2>1, <3>1, <4>1
      <4>3. Number[a.port2] \in 1..MaxPort
        BY <4>2, MaxPortNat
      <4>. QED
        BY <4>2, <4>3, NumeralIs DEF InRange
    <3>. QED
      BY <3>1
  <2>6. k \in PortKinds \/ a.port = NULL
    BY <1>5 DEF a
  <2>. QED
    BY <1>2, <2>2, <2>3, <2>4, <2>5, <2>6 DEF AmpOK
<1>. QED
  BY <1>4, <1>5 DEF Addrs

(* "any" is no address, no mask and no port. *)
LEMMA AnyAmp ==
  ASSUME NEW k
  PROVE  /\ AmpOK("any", k) /\ AmpAddr("any") = {} /\ AmpMask("any") = {}
         /\ PortOf(k, Parts("any").port) = 0 /\ PortOf(k, Parts("any").port2) = 0
PROOF
<1>1. Parts("any") = [host |-> <<"any">>, mask |-> NULL, port |-> NULL, port2 |-> NULL]
  BY AddressAssumption DEF Parts
<1>2. PICK a : a = Parts("any")
  OBVIOUS
<1>3. a.host = <<"any">> /\ a.mask = NULL /\ a.port = NULL /\ a.port2 = NULL
  BY <1>1, <1>2
<1>. QED
  BY <1>2, <1>3 DEF AmpOK, AmpAddr, AmpMask, PortOf
-----------------------------------------------------------------------------
(* What was read of the first words does not depend on the others. *)
LEMMA SamePrefix ==
  ASSUME NEW l, NEW g, NEW n \in Nat, NEW f \in {4, 6}, NEW r, NEW c,
         \A i \in 1..n : g[i] = l[i], LineRead(l, n, f, r, c)
  PROVE  LineRead(g, n, f, r, c)
PROOF
<1>1. HeadRead(g, n, f, r)
  BY DEF LineRead, HeadRead
<1>2. AddrsRead(g, n, f, r)
  BY DEF LineRead, AddrsRead
<1>3. OptionRead(g, n, f, r, c)
  <2>1. n >= f + 5 => g[f + 5] = l[f + 5] /\ g[n] = l[n]
    OBVIOUS
  <2>2. n >= f + 4 => g[f + 4] = l[f + 4]
    OBVIOUS
  <2>3. n >= f + 5 => (TypeIs(l, n, f, r, c) <=> TypeIs(g, n, f, r, c))
    BY <2>1 DEF TypeIs
  <2>4. OptionRead(l, n, f, r, c)
    BY DEF LineRead
  <2>. QED
    BY <2>1, <2>2, <2>3, <2>4 DEF OptionRead
<1>. QED
  BY <1>1, <1>2, <1>3 DEF LineRead

(* Up to the third word the place of "from" does not matter. *)
LEMMA ShortPrefix ==
  ASSUME NEW l, NEW n \in 0..3, NEW f \in {4, 6}, NEW g \in {4, 6}, NEW r, NEW c,
         LineRead(l, n, f, r, c)
  PROVE  LineRead(l, n, g, r, c)
PROOF
<1>1. HeadRead(l, n, g, r)
  BY DEF LineRead, HeadRead
<1>2. AddrsRead(l, n, g, r)
  BY DEF LineRead, AddrsRead
<1>3. OptionRead(l, n, g, r, c)
  BY DEF LineRead, OptionRead
<1>. QED
  BY <1>1, <1>2, <1>3 DEF LineRead

(* The next word. *)
LEMMA WordFacts ==
  ASSUME RuleTypeOK, LastOK, p # NULL, clause # "code", NEW c \in Clauses \ {"code"}, NextWord(c),
         NEW m \in Nat, m = Len(line)
  PROVE  /\ m >= 1 /\ Passed = m - 1 /\ line[m] = p
         /\ clause' = c /\ Passed' = m /\ LastOK' /\ (\A i \in 1..m : line'[i] = line[i])
         /\ (m >= 4 => FromAt' = FromAt)
PROOF
<1>1. PICK w \in Tried[c] \cup {NULL} :
        clause' = c /\ p' = w /\ line' = IF w = NULL THEN line ELSE Append(line, w)
  BY DEF NextWord
<1>2. w \in Words \cup {NULL} /\ line \in Seq(Words)
  BY WordsAssumption DEF RuleTypeOK
<1>3. m >= 1 /\ Passed = m - 1 /\ line[m] = p
  BY DEF LastOK, Passed
<1>4. CASE w = NULL
  <2>1. line' = line /\ p' = NULL
    BY <1>1, <1>4
  <2>. QED
    BY <1>1, <1>3, <2>1 DEF Passed, LastOK, FromAt
<1>5. CASE w # NULL
  <2>0. w \in Words /\ line \in Seq(Words)
    BY <1>2, <1>5
  <2>1. PICK q \in Seq(Words) : q = Append(line, w)
    BY <2>0, AppendProperties
  <2>2. PICK k \in Nat : k = m + 1
    OBVIOUS
  <2>3. Len(q) = k /\ q[k] = w
    BY <1>2, <1>5, <2>1, <2>2
  <2>4. \A i \in 1..m : q[i] = line[i]
    BY <1>2, <1>5, <2>1
  <2>5. line' = q /\ p' = w
    BY <1>1, <1>5, <2>1
  <2>6. Passed' = m /\ LastOK'
    BY <1>1, <1>5, <2>2, <2>3, <2>5 DEF Passed, LastOK
  <2>7. m >= 4 => FromAt' = FromAt
    BY <2>2, <2>3, <2>4, <2>5 DEF FromAt
  <2>. QED
    BY <1>1, <1>3, <2>4, <2>5, <2>6, <2>7
<1>. QED
  BY <1>4, <1>5

(* A clause that takes its word reads one more. *)
LEMMA WordRead ==
  ASSUME RuleTypeOK, LastOK, p # NULL, clause # "code", NEW c \in Clauses \ {"code"}, NextWord(c),
         NEW m \in Nat, m = Len(line), LineRead(line, m, FromAt, rule', c)
  PROVE  LineRead(line', Passed', FromAt', rule', clause')
PROOF
<1>1. /\ clause' = c /\ Passed' = m /\ (\A i \in 1..m : line'[i] = line[i])
      /\ (m >= 4 => FromAt' = FromAt)
  BY WordFacts
<1>2. FromAt \in {4, 6} /\ FromAt' \in {4, 6}
  BY DEF FromAt
<1>3. LineRead(line', m, FromAt, rule', c)
  BY <1>1, <1>2, SamePrefix
<1>4. LineRead(line', m, FromAt', rule', c)
  <2>1. CASE m >= 4
    BY <1>1, <1>3, <2>1
  <2>2. CASE m < 4
    <3>1. m \in 0..3
      BY <2>2
    <3>. QED
      BY <1>2, <1>3, <3>1, ShortPrefix
  <2>. QED
    BY <2>1, <2>2
<1>. QED
  BY <1>1, <1>4
-----------------------------------------------------------------------------
(* One more word is read: l[n + 1] makes s of r. *)
SameHead(r, s)   == s.kind = r.kind /\ s.result = r.result /\ s.direction = r.direction /\ s.iface = r.iface
SameSrc(r, s)    == s.src = r.src /\ s.srcMask = r.srcMask /\ s.srcPort1 = r.srcPort1 /\ s.srcPort2 = r.srcPort2
SameDst(r, s)    == s.dst = r.dst /\ s.dstMask = r.dstMask /\ s.dstPort1 = r.dstPort1 /\ s.dstPort2 = r.dstPort2
SameOption(r, s) == /\ s.useProto = r.useProto /\ s.proto = r.proto
                    /\ s.flagsSet = r.flagsSet /\ s.flagsUnset = r.flagsUnset
                    /\ s.useType = r.useType /\ s.type = r.type /\ s.useCode = r.useCode /\ s.code = r.code

(* The first word, read by the verdict. *)
LEMMA ReadVerdict ==
  ASSUME NEW l, NEW f \in {4, 6}, NEW r, NEW s, NEW c, NEW d, LineRead(l, 0, f, r, c),
         l[1] \in Verdicts, s.result = l[1], s.iface = r.iface, SameDst(r, s), SameOption(r, s)
  PROVE  LineRead(l, 1, f, s, d)
PROOF
  BY DEF LineRead, HeadRead, AddrsRead, OptionRead, NoDst, NoOptions, SameDst, SameOption

(* The second word, read by the protocol. *)
LEMMA ReadKind ==
  ASSUME NEW l, NEW f \in {4, 6}, NEW r, NEW s, NEW c, NEW d, LineRead(l, 1, f, r, c),
         s.kind = l[2], s.result = r.result, s.iface = r.iface, SameDst(r, s), SameOption(r, s)
  PROVE  LineRead(l, 2, f, s, d)
PROOF
  BY DEF LineRead, HeadRead, AddrsRead, OptionRead, NoDst, NoOptions, SameDst, SameOption

(* The third word, read by the direction. *)
LEMMA ReadDirection ==
  ASSUME NEW l, NEW f \in {4, 6}, NEW r, NEW s, NEW c, NEW d, LineRead(l, 2, f, r, c),
         s.kind = r.kind, s.result = r.result, s.iface = r.iface, SameDst(r, s), SameOption(r, s),
         l[3] \in Directions, s.direction = l[3]
  PROVE  LineRead(l, 3, f, s, d)
PROOF
  BY DEF LineRead, HeadRead, AddrsRead, OptionRead, NoDst, NoOptions, SameDst, SameOption

(* The number of the interface. *)
LEMMA ReadIface ==
  ASSUME NEW l, NEW r, NEW s, NEW c, NEW d, LineRead(l, 4, 6, r, c),
         s.kind = r.kind, s.result = r.result, s.direction = r.direction, SameDst(r, s), SameOption(r, s),
         Atoi(l[5]) \in 1..MaxIface, s.iface = Atoi(l[5])
  PROVE  LineRead(l, 5, 6, s, d)
PROOF
  BY DEF LineRead, HeadRead, AddrsRead, OptionRead, NoDst, NoOptions, SameDst, SameOption

(* The word "if". *)
LEMMA ReadIf ==
  ASSUME NEW l, NEW r, NEW c, NEW d, LineRead(l, 3, 6, r, c)
  PROVE  LineRead(l, 4, 6, r, d)
PROOF
  BY DEF LineRead, HeadRead, AddrsRead, OptionRead

(* The word "from". *)
LEMMA ReadFrom ==
  ASSUME NEW l, NEW f \in {4, 6}, NEW n, n = f - 1, NEW r, NEW c, NEW d, LineRead(l, n, f, r, c), l[f] = "from"
  PROVE  LineRead(l, f, f, r, d)
PROOF
  BY DEF LineRead, HeadRead, AddrsRead, OptionRead

(* The word "to". *)
LEMMA ReadTo ==
  ASSUME NEW l, NEW f \in {4, 6}, NEW r, NEW c, NEW d, LineRead(l, f + 1, f, r, c), l[f + 2] = "to"
  PROVE  LineRead(l, f + 2, f, r, d)
PROOF
  BY DEF LineRead, HeadRead, AddrsRead, OptionRead

(* The keyword of the option. *)
LEMMA ReadOption ==
  ASSUME NEW l, NEW f \in {4, 6}, NEW r, NEW c, NEW d, LineRead(l, f + 3, f, r, c),
         r.kind # "udp", l[f + 4] = KeyOf(r.kind)
  PROVE  LineRead(l, f + 4, f, r, d)
PROOF
  BY DEF LineRead, HeadRead, AddrsRead, OptionRead

(* The address behind "from". *)
LEMMA ReadSrc ==
  ASSUME NEW l, NEW f \in {4, 6}, NEW r, NEW s, NEW c, NEW d, LineRead(l, f, f, r, c),
         SameHead(r, s), SameDst(r, s), SameOption(r, s), SrcIs(l[f + 1], s)
  PROVE  LineRead(l, f + 1, f, s, d)
PROOF
<1>1. HeadRead(l, f + 1, f, s)
  BY DEF LineRead, HeadRead, SameHead
<1>2. AddrsRead(l, f + 1, f, s)
  BY DEF LineRead, AddrsRead, NoDst, SameDst
<1>3. OptionRead(l, f + 1, f, s, d)
  BY DEF LineRead, OptionRead, NoOptions, SameOption
<1>. QED
  BY <1>1, <1>2, <1>3 DEF LineRead

(* The address behind "to". *)
LEMMA ReadDst ==
  ASSUME NEW l, NEW f \in {4, 6}, NEW r, NEW s, NEW c, NEW d, LineRead(l, f + 2, f, r, c),
         SameHead(r, s), SameSrc(r, s), SameOption(r, s), DstIs(l[f + 3], s)
  PROVE  LineRead(l, f + 3, f, s, d)
PROOF
<1>1. HeadRead(l, f + 3, f, s)
  BY DEF LineRead, HeadRead, SameHead
<1>2. AddrsRead(l, f + 3, f, s)
  BY DEF LineRead, AddrsRead, SrcIs, SameSrc, SameHead
<1>3. OptionRead(l, f + 3, f, s, d)
  BY DEF LineRead, OptionRead, NoOptions, SameOption
<1>. QED
  BY <1>1, <1>2, <1>3 DEF LineRead

(* The words behind the addresses leave head and addresses alone. *)
LEMMA ReadMore ==
  ASSUME NEW l, NEW f \in {4, 6}, NEW n \in f + 3 .. f + 7, NEW m \in f + 3 .. f + 7, NEW r, NEW s, NEW c, NEW d,
         LineRead(l, n, f, r, c), SameHead(r, s), SameSrc(r, s), SameDst(r, s),
         OptionRead(l, m, f, s, d)
  PROVE  LineRead(l, m, f, s, d)
PROOF
<1>1. HeadRead(l, m, f, s)
  BY DEF LineRead, HeadRead, SameHead
<1>2. AddrsRead(l, m, f, s)
  BY DEF LineRead, AddrsRead, SrcIs, SameSrc, DstIs, SameDst, SameHead
<1>. QED
  BY <1>1, <1>2 DEF LineRead
-----------------------------------------------------------------------------
(* A step that cuts the next word off is at the next place. *)
PlaceFor(c, m, f, k) ==
  /\ c \in {"proto", "direction", "iface", "ifarg", "from", "src", "to", "dst", "option",
            "ipproto", "flags", "type", "nolog"}
  /\ c = "proto" => m = 1
  /\ c = "direction" => m = 2
  /\ c = "iface" => m = 3
  /\ c = "ifarg" => m = 4 /\ f = 6
  /\ c = "from" => m = f - 1 /\ m >= 4
  /\ c = "src" => m = f
  /\ c = "to" => m = f + 1
  /\ c = "dst" => m = f + 2
  /\ c = "option" => m = f + 3
  /\ c = "ipproto" => m = f + 4 /\ k = "ip"
  /\ c = "flags" => m = f + 4 /\ k = "tcp"
  /\ c = "type" => m = f + 4 /\ k = "icmp"
  /\ c = "nolog" => m \in f + 5 .. f + 7

(* The next clause is at the place that the line has reached. *)
LEMMA PlaceReached ==
  ASSUME NEW c, NEW m \in Nat, PlaceFor(c, m, FromAt, rule'.kind), clause' = c, Passed' = m,
         m >= 4 => FromAt' = FromAt
  PROVE  PlaceOK'
PROOF
<1>1. FromAt \in {4, 6} /\ FromAt' \in {4, 6}
  BY DEF FromAt
<1>2. c \notin {"verdict", "code", "accepted"}
  BY DEF PlaceFor
<1>3. CASE m < 4
  <2>1. c \in {"proto", "direction", "iface"}
    BY <1>1, <1>3 DEF PlaceFor
  <2>. QED
    BY <2>1 DEF PlaceFor, PlaceOK
<1>4. CASE m >= 4
  <2>. DEFINE F == FromAt
  <2>1. FromAt' = F
    BY <1>4
  <2>2. F \in {4, 6}
    BY <1>1
  <2>3. PlaceFor(c, m, F, rule'.kind)
    OBVIOUS
  <2>. HIDE DEF F
  <2>4. CASE c = "nolog"
    BY <2>1, <2>2, <2>3, <2>4 DEF PlaceFor, PlaceOK
  <2>5. CASE c # "nolog"
    BY <1>2, <2>1, <2>2, <2>3, <2>5 DEF PlaceFor, PlaceOK
  <2>. QED
    BY <2>4, <2>5
<1>. QED
  BY <1>3, <1>4

(* A clause that takes its word and cuts the next one off keeps the        *)
(* invariant of the line, if the word was read and the next clause is the  *)
(* right one.                                                              *)
LEMMA ByWord ==
  ASSUME RuleTypeOK, LineOK, clause \in Clauses \ {"code"}, p # NULL,
         NEW c \in Clauses \ {"code"}, NextWord(c), rule'.log = rule.log,
         NEW m \in Nat, m = Len(line), LineRead(line, m, FromAt, rule', c),
         PlaceFor(c, m, FromAt, rule'.kind)
  PROVE  LineOK'
PROOF
<1>0. LastOK /\ clause # "code" /\ clause # "accepted"
  BY DEF LineOK, Clauses
<1>1. clause' = c /\ Passed' = m /\ LastOK' /\ (m >= 4 => FromAt' = FromAt)
  BY <1>0, WordFacts
<1>2. LineRead(line', Passed', FromAt', rule', clause')
  BY <1>0, WordRead
<1>3. PlaceOK'
  BY <1>1, PlaceReached
<1>4. LogOK'
  <2>1. c # "accepted"
    BY DEF Clauses
  <2>2. rule.log = TRUE
    BY <1>0 DEF LineOK, LogOK
  <2>. QED
    BY <1>1, <2>1, <2>2 DEF LogOK
<1>. QED
  BY <1>1, <1>2, <1>3, <1>4 DEF LineOK

(* Where the parser is: the word at p, the words before it and the place. *)
LEMMA AtWord ==
  ASSUME RuleTypeOK, LineOK, clause \in Clauses \ {"code"}, p # NULL, NEW m \in Nat, m = Len(line)
  PROVE  /\ m >= 1 /\ Passed = m - 1 /\ line[m] = p /\ FromAt \in {4, 6}
         /\ LineRead(line, m - 1, FromAt, rule, clause)
PROOF
<1>1. m >= 1 /\ Passed = m - 1 /\ line[m] = p
  BY DEF LineOK, LastOK, Passed
<1>. QED
  BY <1>1 DEF LineOK, FromAt

(* The clause of the verdict keeps the invariant of the line. *)
LEMMA FilterLine ==
  ASSUME RuleTypeOK, LineOK, Filter
  PROVE  LineOK'
PROOF
<1>1. clause = "verdict" /\ p # NULL /\ p \in Verdicts /\ rule' = [rule EXCEPT !.result = p] /\ NextWord("proto")
  BY DEF Filter, Expect
<1>2. PICK m \in Nat : m = Len(line)
  BY DEF RuleTypeOK
<1>3. /\ m >= 1 /\ Passed = m - 1 /\ line[m] = p /\ FromAt \in {4, 6}
      /\ LineRead(line, m - 1, FromAt, rule, clause)
  BY <1>1, <1>2, AtWord DEF Clauses
<1>4. m = 1
  BY <1>1, <1>3 DEF LineOK, PlaceOK
<1>5. rule'.result = p /\ rule'.iface = rule.iface /\ rule'.log = rule.log /\ SameDst(rule, rule') /\ SameOption(rule, rule')
  BY <1>1 DEF RuleTypeOK, FltRules, SameDst, SameOption
<1>6. LineRead(line, 1, FromAt, rule', "proto")
  <2>1. LineRead(line, 0, FromAt, rule, clause) /\ line[1] = p
    BY <1>3, <1>4
  <2>. QED
    BY <1>1, <1>3, <1>5, <2>1, ReadVerdict
<1>7. PlaceFor("proto", m, FromAt, rule'.kind)
  BY <1>4 DEF PlaceFor
<1>. QED
  BY <1>1, <1>2, <1>4, <1>5, <1>6, <1>7, ByWord DEF Clauses

(* The clause of the protocol keeps the invariant of the line. *)
LEMMA ProtoLine ==
  ASSUME RuleTypeOK, LineOK, Proto
  PROVE  LineOK'
PROOF
<1>1. clause = "proto" /\ p # NULL /\ p \in Kinds /\ rule' = [rule EXCEPT !.kind = p] /\ NextWord("direction")
  BY DEF Proto, Expect
<1>2. PICK m \in Nat : m = Len(line)
  BY DEF RuleTypeOK
<1>3. /\ m >= 1 /\ Passed = m - 1 /\ line[m] = p /\ FromAt \in {4, 6}
      /\ LineRead(line, m - 1, FromAt, rule, clause)
  BY <1>1, <1>2, AtWord DEF Clauses
<1>4. m = 2
  BY <1>1, <1>3 DEF LineOK, PlaceOK
<1>5. /\ rule'.kind = p /\ rule'.result = rule.result /\ rule'.iface = rule.iface /\ rule'.log = rule.log
      /\ SameDst(rule, rule') /\ SameOption(rule, rule')
  BY <1>1 DEF RuleTypeOK, FltRules, SameDst, SameOption
<1>6. LineRead(line, 2, FromAt, rule', "direction")
  <2>1. LineRead(line, 1, FromAt, rule, clause) /\ line[2] = p
    BY <1>3, <1>4
  <2>. QED
    BY <1>1, <1>3, <1>5, <2>1, ReadKind
<1>7. PlaceFor("direction", m, FromAt, rule'.kind)
  BY <1>4 DEF PlaceFor
<1>. QED
  BY <1>1, <1>2, <1>4, <1>5, <1>6, <1>7, ByWord DEF Clauses

(* The clause of the direction keeps the invariant of the line. *)
LEMMA DirectionLine ==
  ASSUME RuleTypeOK, LineOK, Direction
  PROVE  LineOK'
PROOF
<1>1. /\ clause = "direction" /\ p # NULL /\ p \in Directions
      /\ rule' = [rule EXCEPT !.direction = p] /\ NextWord("iface")
  BY DEF Direction, Expect
<1>2. PICK m \in Nat : m = Len(line)
  BY DEF RuleTypeOK
<1>3. /\ m >= 1 /\ Passed = m - 1 /\ line[m] = p /\ FromAt \in {4, 6}
      /\ LineRead(line, m - 1, FromAt, rule, clause)
  BY <1>1, <1>2, AtWord DEF Clauses
<1>4. m = 3
  BY <1>1, <1>3 DEF LineOK, PlaceOK
<1>5. /\ rule'.direction = p /\ rule'.kind = rule.kind /\ rule'.result = rule.result
      /\ rule'.iface = rule.iface /\ rule'.log = rule.log
      /\ SameDst(rule, rule') /\ SameOption(rule, rule')
  BY <1>1 DEF RuleTypeOK, FltRules, SameDst, SameOption
<1>6. LineRead(line, 3, FromAt, rule', "iface")
  <2>1. LineRead(line, 2, FromAt, rule, clause) /\ line[3] = p
    BY <1>3, <1>4
  <2>. QED
    BY <1>1, <1>3, <1>5, <2>1, ReadDirection
<1>7. PlaceFor("iface", m, FromAt, rule'.kind)
  BY <1>4 DEF PlaceFor
<1>. QED
  BY <1>1, <1>2, <1>4, <1>5, <1>6, <1>7, ByWord DEF Clauses

(* Without "if" the same word must be "from". *)
LEMMA NoIfLine ==
  ASSUME RuleTypeOK, LineOK, NoIf
  PROVE  LineOK'
PROOF
<1>1. clause = "iface" /\ p # NULL /\ Initial[p] # "i" /\ clause' = "from" /\ UNCHANGED <<p, line, rule>>
  BY DEF NoIf
<1>2. PICK m \in Nat : m = Len(line)
  BY DEF RuleTypeOK
<1>3. /\ m >= 1 /\ Passed = m - 1 /\ line[m] = p /\ FromAt \in {4, 6}
      /\ LineRead(line, m - 1, FromAt, rule, clause)
  BY <1>1, <1>2, AtWord DEF Clauses
<1>4. m = 4
  BY <1>1, <1>3 DEF LineOK, PlaceOK
<1>5. p # "if"
  BY <1>1, WordsAssumption
<1>6. FromAt = 4
  BY <1>2, <1>3, <1>4, <1>5 DEF FromAt
<1>7. Passed' = Passed /\ FromAt' = FromAt
  BY <1>1 DEF Passed, FromAt
<1>8. PlaceOK'
  BY <1>1, <1>3, <1>4, <1>6, <1>7 DEF PlaceOK
<1>9. LineRead(line', Passed', FromAt', rule', clause')
  <2>1. LineRead(line, Passed, FromAt, rule, clause) /\ Passed = 3
    BY <1>3, <1>4
  <2>2. LineRead(line, 3, 4, rule, "from")
    BY <1>6, <2>1 DEF LineRead, HeadRead, AddrsRead, OptionRead
  <2>. QED
    BY <1>1, <1>6, <1>7, <2>1, <2>2
<1>10. LastOK' /\ LogOK'
  BY <1>1 DEF LineOK, LastOK, LogOK
<1>. QED
  BY <1>8, <1>9, <1>10 DEF LineOK

(* The clause of the "if" keeps the invariant of the line. *)
LEMMA IfLine ==
  ASSUME RuleTypeOK, LineOK, If
  PROVE  LineOK'
PROOF
<1>1. clause = "iface" /\ p # NULL /\ p = "if" /\ NextWord("ifarg") /\ rule' = rule
  BY DEF If, Expect
<1>2. PICK m \in Nat : m = Len(line)
  BY DEF RuleTypeOK
<1>3. /\ m >= 1 /\ Passed = m - 1 /\ line[m] = p /\ FromAt \in {4, 6}
      /\ LineRead(line, m - 1, FromAt, rule, clause)
  BY <1>1, <1>2, AtWord DEF Clauses
<1>4. m = 4
  BY <1>1, <1>3 DEF LineOK, PlaceOK
<1>5. FromAt = 6
  BY <1>1, <1>2, <1>3, <1>4 DEF FromAt
<1>6. LineRead(line, 4, FromAt, rule', "ifarg")
  <2>1. LineRead(line, 3, 6, rule, clause)
    BY <1>3, <1>4, <1>5
  <2>. QED
    BY <1>1, <1>5, <2>1, ReadIf
<1>7. PlaceFor("ifarg", m, FromAt, rule'.kind)
  BY <1>4, <1>5 DEF PlaceFor
<1>. QED
  BY <1>1, <1>2, <1>4, <1>6, <1>7, ByWord DEF Clauses

(* The clause of the interface keeps the invariant of the line. *)
LEMMA IfArgLine ==
  ASSUME RuleTypeOK, LineOK, IfArg
  PROVE  LineOK'
PROOF
<1>1. /\ clause = "ifarg" /\ p # NULL /\ Atoi(p) \in 1..MaxIface
      /\ rule' = [rule EXCEPT !.iface = Atoi(p)] /\ NextWord("from")
  BY DEF IfArg, Expect
<1>2. PICK m \in Nat : m = Len(line)
  BY DEF RuleTypeOK
<1>3. /\ m >= 1 /\ Passed = m - 1 /\ line[m] = p /\ FromAt \in {4, 6}
      /\ LineRead(line, m - 1, FromAt, rule, clause)
  BY <1>1, <1>2, AtWord DEF Clauses
<1>4. m = 5 /\ FromAt = 6
  BY <1>1, <1>3 DEF LineOK, PlaceOK
<1>5. /\ rule'.iface = Atoi(p) /\ rule'.kind = rule.kind /\ rule'.result = rule.result
      /\ rule'.direction = rule.direction /\ rule'.log = rule.log
      /\ SameDst(rule, rule') /\ SameOption(rule, rule')
  BY <1>1 DEF RuleTypeOK, FltRules, SameDst, SameOption
<1>6. LineRead(line, 5, FromAt, rule', "from")
  <2>1. LineRead(line, 4, 6, rule, clause) /\ line[5] = p
    BY <1>3, <1>4
  <2>. QED
    BY <1>1, <1>4, <1>5, <2>1, ReadIface
<1>7. PlaceFor("from", m, FromAt, rule'.kind)
  BY <1>4 DEF PlaceFor
<1>. QED
  BY <1>1, <1>2, <1>4, <1>5, <1>6, <1>7, ByWord DEF Clauses

(* The clause of the "from" keeps the invariant of the line. *)
LEMMA FromLine ==
  ASSUME RuleTypeOK, LineOK, From
  PROVE  LineOK'
PROOF
<1>1. clause = "from" /\ p # NULL /\ p = "from" /\ NextWord("src") /\ rule' = rule
  BY DEF From, Expect
<1>2. PICK m \in Nat : m = Len(line)
  BY DEF RuleTypeOK
<1>3. /\ m >= 1 /\ Passed = m - 1 /\ line[m] = p /\ FromAt \in {4, 6}
      /\ LineRead(line, m - 1, FromAt, rule, clause)
  BY <1>1, <1>2, AtWord DEF Clauses
<1>4. m = FromAt
  BY <1>1, <1>3 DEF LineOK, PlaceOK
<1>6. LineRead(line, m, FromAt, rule', "src")
  <2>1. PICK f \in {4, 6} : f = FromAt
    BY <1>3
  <2>2. LineRead(line, m - 1, f, rule, clause) /\ line[f] = "from" /\ m - 1 = f - 1
    BY <1>1, <1>3, <1>4, <2>1
  <2>3. LineRead(line, f, f, rule, "src")
    BY <2>2, ReadFrom
  <2>. QED
    BY <1>1, <1>4, <2>1, <2>3
<1>7. PlaceFor("src", m, FromAt, rule'.kind)
  BY <1>4 DEF PlaceFor
<1>. QED
  BY <1>1, <1>2, <1>4, <1>6, <1>7, ByWord DEF Clauses

(* The clause of the "to" keeps the invariant of the line. *)
LEMMA ToLine ==
  ASSUME RuleTypeOK, LineOK, To
  PROVE  LineOK'
PROOF
<1>1. clause = "to" /\ p # NULL /\ p = "to" /\ NextWord("dst") /\ rule' = rule
  BY DEF To, Expect
<1>2. PICK m \in Nat : m = Len(line)
  BY DEF RuleTypeOK
<1>3. /\ m >= 1 /\ Passed = m - 1 /\ line[m] = p /\ FromAt \in {4, 6}
      /\ LineRead(line, m - 1, FromAt, rule, clause)
  BY <1>1, <1>2, AtWord DEF Clauses
<1>4. m = FromAt + 2
  BY <1>1, <1>3 DEF LineOK, PlaceOK
<1>6. LineRead(line, m, FromAt, rule', "dst")
  <2>1. PICK f \in {4, 6} : f = FromAt
    BY <1>3
  <2>2. m - 1 = f + 1 /\ m = f + 2
    BY <1>4, <2>1
  <2>3. LineRead(line, f + 1, f, rule, clause) /\ line[f + 2] = "to"
    BY <1>1, <1>3, <2>1, <2>2
  <2>4. LineRead(line, f + 2, f, rule, "dst")
    BY <2>3, ReadTo
  <2>. QED
    BY <1>1, <2>1, <2>2, <2>4
<1>7. PlaceFor("dst", m, FromAt, rule'.kind)
  BY <1>4 DEF PlaceFor
<1>. QED
  BY <1>1, <1>2, <1>6, <1>7, ByWord DEF Clauses

(* The clause of the source keeps the invariant of the line. *)
LEMMA SrcLine ==
  ASSUME RuleTypeOK, LineOK, Src
  PROVE  LineOK'
PROOF
<1>1. /\ clause = "src" /\ p # NULL /\ AmpOK(p, rule.kind) /\ NextWord("to")
      /\ rule' = [rule EXCEPT !.src = AmpAddr(p), !.srcMask = AmpMask(p),
                    !.srcPort1 = Port1, !.srcPort2 = Port2]
  BY DEF Src, Expect
<1>2. PICK m \in Nat : m = Len(line)
  BY DEF RuleTypeOK
<1>3. /\ m >= 1 /\ Passed = m - 1 /\ line[m] = p /\ FromAt \in {4, 6}
      /\ LineRead(line, m - 1, FromAt, rule, clause)
  BY <1>1, <1>2, AtWord DEF Clauses
<1>4. m = FromAt + 1
  BY <1>1, <1>3 DEF LineOK, PlaceOK
<1>5. /\ SameHead(rule, rule') /\ SameDst(rule, rule') /\ SameOption(rule, rule') /\ rule'.log = rule.log
      /\ rule'.src = AmpAddr(p) /\ rule'.srcMask = AmpMask(p)
      /\ rule'.srcPort1 = Port1 /\ rule'.srcPort2 = Port2
  BY <1>1 DEF RuleTypeOK, FltRules, SameHead, SameDst, SameOption
<1>6. SrcIs(p, rule')
  BY <1>1, <1>5 DEF SrcIs, SameHead, Port1, Port2
<1>7. LineRead(line, m, FromAt, rule', "to")
  <2>1. PICK f \in {4, 6} : f = FromAt
    BY <1>3
  <2>2. m - 1 = f /\ m = f + 1
    BY <1>4, <2>1
  <2>3. LineRead(line, f, f, rule, clause) /\ line[f + 1] = p
    BY <1>3, <2>1, <2>2
  <2>4. LineRead(line, f + 1, f, rule', "to")
    BY <1>5, <1>6, <2>3, ReadSrc
  <2>. QED
    BY <2>1, <2>2, <2>4
<1>8. PlaceFor("to", m, FromAt, rule'.kind)
  BY <1>4 DEF PlaceFor
<1>. QED
  BY <1>1, <1>2, <1>5, <1>7, <1>8, ByWord DEF Clauses

(* The clause of the destination keeps the invariant of the line. *)
LEMMA DstLine ==
  ASSUME RuleTypeOK, LineOK, Dst
  PROVE  LineOK'
PROOF
<1>1. /\ clause = "dst" /\ p # NULL /\ (p = "any" \/ AmpOK(p, rule.kind)) /\ NextWord("option")
      /\ rule' = IF p = "any" THEN rule
                  ELSE [rule EXCEPT !.dst = AmpAddr(p), !.dstMask = AmpMask(p),
                          !.dstPort1 = Port1, !.dstPort2 = Port2]
  BY DEF Dst, Expect
<1>2. PICK m \in Nat : m = Len(line)
  BY DEF RuleTypeOK
<1>3. /\ m >= 1 /\ Passed = m - 1 /\ line[m] = p /\ FromAt \in {4, 6}
      /\ LineRead(line, m - 1, FromAt, rule, clause)
  BY <1>1, <1>2, AtWord DEF Clauses
<1>4. m = FromAt + 3
  BY <1>1, <1>3 DEF LineOK, PlaceOK
<1>5. /\ SameHead(rule, rule') /\ SameSrc(rule, rule') /\ SameOption(rule, rule') /\ rule'.log = rule.log
      /\ DstIs(p, rule')
  <2>1. CASE p = "any"
    <3>1. rule' = rule
      BY <1>1, <2>1
    <3>2. NoDst(rule)
      BY <1>3, <1>4 DEF LineRead, AddrsRead
    <3>3. DstIs(p, rule)
      BY <2>1, <3>2, AnyAmp DEF DstIs, NoDst
    <3>. QED
      BY <3>1, <3>3 DEF SameHead, SameSrc, SameOption
  <2>2. CASE p # "any"
    <3>1. rule' = [rule EXCEPT !.dst = AmpAddr(p), !.dstMask = AmpMask(p),
                          !.dstPort1 = Port1, !.dstPort2 = Port2]
      BY <1>1, <2>2
    <3>2. /\ SameHead(rule, rule') /\ SameSrc(rule, rule') /\ SameOption(rule, rule') /\ rule'.log = rule.log
          /\ rule'.dst = AmpAddr(p) /\ rule'.dstMask = AmpMask(p)
          /\ rule'.dstPort1 = Port1 /\ rule'.dstPort2 = Port2
      BY <3>1 DEF RuleTypeOK, FltRules, SameHead, SameSrc, SameOption
    <3>. QED
      BY <1>1, <2>2, <3>2 DEF DstIs, SameHead, Port1, Port2
  <2>. QED
    BY <2>1, <2>2
<1>7. LineRead(line, m, FromAt, rule', "option")
  <2>1. PICK f \in {4, 6} : f = FromAt
    BY <1>3
  <2>2. m - 1 = f + 2 /\ m = f + 3
    BY <1>4, <2>1
  <2>3. LineRead(line, f + 2, f, rule, clause) /\ line[f + 3] = p
    BY <1>3, <2>1, <2>2
  <2>4. LineRead(line, f + 3, f, rule', "option")
    BY <1>5, <2>3, ReadDst
  <2>. QED
    BY <2>1, <2>2, <2>4
<1>8. PlaceFor("option", m, FromAt, rule'.kind)
  BY <1>4 DEF PlaceFor
<1>. QED
  BY <1>1, <1>2, <1>5, <1>7, <1>8, ByWord DEF Clauses

(* The argument of the option. *)
LEMMA ReadArgument ==
  ASSUME NEW l, NEW f \in {4, 6}, NEW r, NEW s, NEW c, NEW d,
         LineRead(l, f + 4, f, r, c), SameHead(r, s), SameSrc(r, s), SameDst(r, s),
         OptionRead(l, f + 5, f, s, d)
  PROVE  LineRead(l, f + 5, f, s, d)
PROOF
<1>1. PICK n \in f + 3 .. f + 7, m \in f + 3 .. f + 7 : n = f + 4 /\ m = f + 5
  OBVIOUS
<1>2. LineRead(l, n, f, r, c) /\ OptionRead(l, m, f, s, d)
  BY <1>1
<1>3. LineRead(l, m, f, s, d)
  BY <1>2, ReadMore
<1>. QED
  BY <1>1, <1>3

(* A line without an option keeps the invariant of the line. *)
LEMMA NoOptionLine ==
  ASSUME RuleTypeOK, LineOK, NoOption
  PROVE  LineOK'
PROOF
<1>1. clause = "option" /\ ~Looked /\ clause' = "nolog" /\ UNCHANGED <<p, line, rule>>
  BY DEF NoOption
<1>2. Passed = FromAt + 3 /\ FromAt \in {4, 6} /\ LineRead(line, Passed, FromAt, rule, clause)
  BY <1>1 DEF LineOK, PlaceOK, FromAt
<1>3. Passed' = Passed /\ FromAt' = FromAt
  BY <1>1 DEF Passed, FromAt
<1>4. ~Looked'
  BY <1>1 DEF Looked, Keyword
<1>5. PlaceOK'
  BY <1>1, <1>2, <1>3, <1>4 DEF PlaceOK
<1>6. LineRead(line, Passed, FromAt, rule, "nolog")
  BY <1>2 DEF LineRead, OptionRead
<1>7. LineRead(line', Passed', FromAt', rule', clause')
  BY <1>1, <1>3, <1>6
<1>8. LastOK' /\ LogOK'
  BY <1>1 DEF LineOK, LastOK, LogOK
<1>. QED
  BY <1>5, <1>7, <1>8 DEF LineOK

(* The clause of the keyword of the option keeps the invariant of the      *)
(* line.                                                                   *)
LEMMA OptionLine ==
  ASSUME RuleTypeOK, LineOK, Option
  PROVE  LineOK'
PROOF
<1>1. clause = "option" /\ p # NULL /\ Looked /\ p = Keyword /\ NextWord(Keyword) /\ rule' = rule
  BY DEF Option, Expect
<1>2. PICK m \in Nat : m = Len(line)
  BY DEF RuleTypeOK
<1>3. /\ m >= 1 /\ Passed = m - 1 /\ line[m] = p /\ FromAt \in {4, 6}
      /\ LineRead(line, m - 1, FromAt, rule, clause)
  BY <1>1, <1>2, AtWord DEF Clauses
<1>4. m = FromAt + 4
  BY <1>1, <1>3 DEF LineOK, PlaceOK
<1>5. rule.kind \in {"ip", "tcp", "icmp"} /\ Keyword = KeyOf(rule.kind)
  BY <1>1 DEF Looked, RuleTypeOK, FltRules, Kinds, Tables, Transports, Keyword, KeyOf
<1>6. LineRead(line, m, FromAt, rule', Keyword)
  <2>1. PICK f \in {4, 6} : f = FromAt
    BY <1>3
  <2>2. m - 1 = f + 3 /\ m = f + 4
    BY <1>4, <2>1
  <2>3. LineRead(line, f + 3, f, rule, clause) /\ line[f + 4] = KeyOf(rule.kind)
    BY <1>1, <1>3, <1>5, <2>1, <2>2
  <2>4. LineRead(line, f + 4, f, rule, Keyword)
    BY <1>5, <2>3, ReadOption
  <2>. QED
    BY <1>1, <2>1, <2>2, <2>4
<1>7. Keyword \in Clauses \ {"code"} /\ PlaceFor(Keyword, m, FromAt, rule'.kind)
  BY <1>1, <1>3, <1>4, <1>5 DEF PlaceFor, Clauses, KeyOf
<1>8. clause \in Clauses \ {"code"}
  BY <1>1 DEF Clauses
<1>. QED
  BY <1>1, <1>2, <1>6, <1>7, <1>8, ByWord

(* The clause of the protocol number keeps the invariant of the line. *)
LEMMA IpProtoLine ==
  ASSUME RuleTypeOK, LineOK, IpProto
  PROVE  LineOK'
PROOF
<1>1. /\ clause = "ipproto" /\ p # NULL /\ Atoi(p) \in 1..255 /\ NextWord("nolog")
      /\ rule' = [rule EXCEPT !.proto = Atoi(p), !.useProto = TRUE]
  BY DEF IpProto, Expect
<1>2. PICK m \in Nat : m = Len(line)
  BY DEF RuleTypeOK
<1>3. /\ m >= 1 /\ Passed = m - 1 /\ line[m] = p /\ FromAt \in {4, 6}
      /\ LineRead(line, m - 1, FromAt, rule, clause)
  BY <1>1, <1>2, AtWord DEF Clauses
<1>4. m = FromAt + 5 /\ rule.kind = "ip"
  BY <1>1, <1>3 DEF LineOK, PlaceOK
<1>5. /\ SameHead(rule, rule') /\ SameSrc(rule, rule') /\ SameDst(rule, rule') /\ rule'.log = rule.log
      /\ rule'.proto = Atoi(p) /\ rule'.useProto
  BY <1>1 DEF RuleTypeOK, FltRules, SameHead, SameSrc, SameDst
<1>7. LineRead(line, m, FromAt, rule', "nolog")
  <2>1. PICK f \in {4, 6} : f = FromAt
    BY <1>3
  <2>2. m - 1 = f + 4 /\ m = f + 5
    BY <1>4, <2>1
  <2>3. LineRead(line, f + 4, f, rule, clause) /\ line[f + 5] = p
    BY <1>3, <2>1, <2>2
  <2>4. OptionRead(line, f + 5, f, rule', "nolog")
    <3>1. line[f + 4] = KeyOf("ip") /\ rule'.kind = "ip"
      BY <1>4, <1>5, <2>3 DEF LineRead, OptionRead, SameHead
    <3>. QED
      BY <1>1, <1>5, <2>3, <3>1 DEF OptionRead
  <2>5. LineRead(line, f + 5, f, rule', "nolog")
    BY <1>5, <2>3, <2>4, ReadArgument
  <2>. QED
    BY <2>1, <2>2, <2>5
<1>8. PlaceFor("nolog", m, FromAt, rule'.kind)
  BY <1>3, <1>4 DEF PlaceFor
<1>. QED
  BY <1>1, <1>2, <1>5, <1>7, <1>8, ByWord DEF Clauses

(* The clause of the flags keeps the invariant of the line. *)
LEMMA FlagsLine ==
  ASSUME RuleTypeOK, LineOK, Flags
  PROVE  LineOK'
PROOF
<1>1. /\ clause = "flags" /\ p # NULL /\ FlagsOK(p) /\ NextWord("nolog")
      /\ rule' = [rule EXCEPT !.flagsSet = With(p, "+"), !.flagsUnset = With(p, "-")]
  BY DEF Flags, Expect
<1>2. PICK m \in Nat : m = Len(line)
  BY DEF RuleTypeOK
<1>3. /\ m >= 1 /\ Passed = m - 1 /\ line[m] = p /\ FromAt \in {4, 6}
      /\ LineRead(line, m - 1, FromAt, rule, clause)
  BY <1>1, <1>2, AtWord DEF Clauses
<1>4. m = FromAt + 5 /\ rule.kind = "tcp"
  BY <1>1, <1>3 DEF LineOK, PlaceOK
<1>5. /\ SameHead(rule, rule') /\ SameSrc(rule, rule') /\ SameDst(rule, rule') /\ rule'.log = rule.log
      /\ rule'.flagsSet = With(p, "+") /\ rule'.flagsUnset = With(p, "-")
  BY <1>1 DEF RuleTypeOK, FltRules, SameHead, SameSrc, SameDst
<1>7. LineRead(line, m, FromAt, rule', "nolog")
  <2>1. PICK f \in {4, 6} : f = FromAt
    BY <1>3
  <2>2. m - 1 = f + 4 /\ m = f + 5
    BY <1>4, <2>1
  <2>3. LineRead(line, f + 4, f, rule, clause) /\ line[f + 5] = p
    BY <1>3, <2>1, <2>2
  <2>4. OptionRead(line, f + 5, f, rule', "nolog")
    <3>1. line[f + 4] = KeyOf("tcp") /\ rule'.kind = "tcp"
      BY <1>4, <1>5, <2>3 DEF LineRead, OptionRead, SameHead
    <3>. QED
      BY <1>1, <1>5, <2>3, <3>1 DEF OptionRead
  <2>5. LineRead(line, f + 5, f, rule', "nolog")
    BY <1>5, <2>3, <2>4, ReadArgument
  <2>. QED
    BY <2>1, <2>2, <2>5
<1>8. PlaceFor("nolog", m, FromAt, rule'.kind)
  BY <1>3, <1>4 DEF PlaceFor
<1>. QED
  BY <1>1, <1>2, <1>5, <1>7, <1>8, ByWord DEF Clauses

(* The clause of the type without a code keeps the invariant of the line. *)
LEMMA TypeAloneLine ==
  ASSUME RuleTypeOK, LineOK, TypeAlone
  PROVE  LineOK'
PROOF
<1>1. /\ clause = "type" /\ p # NULL /\ p \notin DOMAIN Dotted /\ InRange(p, NULL, 255) /\ NextWord("nolog")
      /\ rule' = [rule EXCEPT !.type = Atoi(p), !.useType = TRUE]
  BY DEF TypeAlone, Expect
<1>2. PICK m \in Nat : m = Len(line)
  BY DEF RuleTypeOK
<1>3. /\ m >= 1 /\ Passed = m - 1 /\ line[m] = p /\ FromAt \in {4, 6}
      /\ LineRead(line, m - 1, FromAt, rule, clause)
  BY <1>1, <1>2, AtWord DEF Clauses
<1>4. m = FromAt + 5 /\ rule.kind = "icmp"
  BY <1>1, <1>3 DEF LineOK, PlaceOK
<1>5. /\ SameHead(rule, rule') /\ SameSrc(rule, rule') /\ SameDst(rule, rule') /\ rule'.log = rule.log
      /\ rule'.useType /\ rule'.type = Atoi(p) /\ rule'.useCode = rule.useCode
  BY <1>1 DEF RuleTypeOK, FltRules, SameHead, SameSrc, SameDst
<1>7. LineRead(line, m, FromAt, rule', "nolog")
  <2>1. PICK f \in {4, 6} : f = FromAt
    BY <1>3
  <2>2. m - 1 = f + 4 /\ m = f + 5
    BY <1>4, <2>1
  <2>3. LineRead(line, f + 4, f, rule, clause) /\ line[f + 5] = p
    BY <1>3, <2>1, <2>2
  <2>4. OptionRead(line, f + 5, f, rule', "nolog")
    <3>1. line[f + 4] = KeyOf("icmp") /\ rule'.kind = "icmp" /\ ~rule.useCode
      BY <1>4, <1>5, <2>3 DEF LineRead, OptionRead, SameHead, NoOptions
    <3>2. TypeIs(line, f + 5, f, rule', "nolog")
      BY <1>1, <1>5, <2>3, <3>1 DEF TypeIs, TypeOf
    <3>. QED
      BY <1>1, <1>5, <2>3, <3>1, <3>2 DEF OptionRead
  <2>5. LineRead(line, f + 5, f, rule', "nolog")
    BY <1>5, <2>3, <2>4, ReadArgument
  <2>. QED
    BY <2>1, <2>2, <2>5
<1>8. PlaceFor("nolog", m, FromAt, rule'.kind)
  BY <1>3, <1>4 DEF PlaceFor
<1>. QED
  BY <1>1, <1>2, <1>5, <1>7, <1>8, ByWord DEF Clauses

(* The type up to the point, which may be in a later word. *)
LEMMA TypeAndCodeLine ==
  ASSUME RuleTypeOK, LineOK, TypeAndCode
  PROVE  LineOK'
PROOF
<1>0. PICK s \in ToPoint :
        /\ clause = "type" /\ p # NULL /\ InRange(TypeOf(p), BehindType(s), 255)
        /\ rule' = [rule EXCEPT !.type = Atoi(TypeOf(p)), !.useType = TRUE]
        /\ line' = line \o s /\ clause' = "code" /\ p' = Dotted[Pointed(s)][2]
  BY DEF TypeAndCode, Expect
<1>2. PICK m \in Nat : m = Len(line)
  BY DEF RuleTypeOK
<1>3. /\ m >= 1 /\ Passed = m - 1 /\ line[m] = p /\ FromAt \in {4, 6}
      /\ LineRead(line, m - 1, FromAt, rule, clause)
  BY <1>0, <1>2, AtWord DEF Clauses
<1>4. m = FromAt + 5 /\ rule.kind = "icmp"
  BY <1>0, <1>3 DEF LineOK, PlaceOK
<1>5. /\ SameHead(rule, rule') /\ SameSrc(rule, rule') /\ SameDst(rule, rule') /\ rule'.log = rule.log
      /\ rule'.useType /\ rule'.type = Atoi(TypeOf(p))
  BY <1>0 DEF RuleTypeOK, FltRules, SameHead, SameSrc, SameDst
<1>6. /\ s \in Seq(Words) /\ Len(s) \in 0..2
      /\ Pointed(s) \in DOMAIN Dotted
      /\ Len(s) = 0 => Pointed(s) = p
      /\ Len(s) # 0 => p \notin DOMAIN Dotted /\ Pointed(s) = s[Len(s)]
  <2>1. p # NULL
    BY <1>0
  <2>2. s \in Seq(Words) /\ Len(s) \in 0..2 /\ Pointed(s) \in DOMAIN Dotted
    BY <2>1, ToPointIs
  <2>3. Len(s) = 0 => Pointed(s) = p
    BY <2>1, ToPointIs
  <2>4. Len(s) # 0 => p \notin DOMAIN Dotted /\ Pointed(s) = s[Len(s)]
    BY <2>1, ToPointIs
  <2>. QED
    BY <2>2, <2>3, <2>4
<1>7. PICK k \in 0..2 : k = Len(s)
  BY <1>6
<1>8. PICK n \in Nat : n = m + k
  BY <1>7
<1>9. /\ Len(line') = n /\ (\A i \in 1..m : line'[i] = line[i])
      /\ (k # 0 => line'[n] = s[k])
  <2>0. line \in Seq(Words) /\ s \in Seq(Words) /\ k \in Nat
    BY <1>6, <1>7 DEF RuleTypeOK
  <2>1. /\ Len(line') = m + k
        /\ \A i \in 1..m : line'[i] = line[i]
        /\ \A i \in 1..k : line'[m + i] = s[i]
    BY <1>0, <1>2, <1>7, <2>0, JoinedSeqs
  <2>. QED
    BY <1>7, <1>8, <2>1
<1>10. line'[n] = Pointed(s)
  <2>1. CASE k = 0
    BY <1>3, <1>6, <1>7, <1>8, <1>9, <2>1
  <2>2. CASE k # 0
    BY <1>6, <1>7, <1>9, <2>2
  <2>. QED
    BY <2>1, <2>2
<1>11. PICK f \in {4, 6} : f = FromAt
  BY <1>3
<1>12. FromAt' = f /\ Passed' = n
  BY <1>0, <1>2, <1>4, <1>7, <1>8, <1>9, <1>11 DEF FromAt, Passed
<1>13. LineRead(line, f + 4, f, rule, clause) /\ line[f + 5] = p
  <2>1. m - 1 = f + 4 /\ m = f + 5
    BY <1>4, <1>11
  <2>. QED
    BY <1>3, <1>11, <2>1
<1>14. LineRead(line', f + 4, f, rule, clause)
  <2>1. f + 4 \in Nat /\ \A i \in 1..f + 4 : line'[i] = line[i]
    BY <1>4, <1>9, <1>11
  <2>. QED
    BY <1>13, <2>1, SamePrefix
<1>15. line'[f + 5] = p /\ n = f + 5 + k
  BY <1>4, <1>8, <1>9, <1>11, <1>13
<1>20. f \in {4, 6} /\ n \in f + 5 .. f + 7
  <2>1. k \in 0..2 /\ n = f + 5 + k
    BY <1>7, <1>15
  <2>2. f \in {4, 6}
    BY <1>11
  <2>. QED
    BY <2>1, <2>2
<1>16. OptionRead(line', n, f, rule', "code")
  <2>1. line'[f + 4] = KeyOf("icmp") /\ rule'.kind = "icmp"
    BY <1>4, <1>5, <1>14 DEF LineRead, OptionRead, SameHead
  <2>2. k = 0 => InRange(TypeOf(p), NULL, 255)
    <3>0. s \in Seq(Words) /\ (k = 0 => Len(s) = 0)
      BY <1>6, <1>7
    <3>1. k = 0 => s = <<>>
      BY <3>0, EmptySeq
    <3>. QED
      BY <1>0, <3>1 DEF BehindType
  <2>3. TypeIs(line', n, f, rule', "code")
    <3>1. n = f + 5 => k = 0
      BY <1>15
    <3>2. k = 0 => p \in DOMAIN Dotted
      BY <1>6, <1>7
    <3>3. n > f + 5 => p \notin DOMAIN Dotted /\ line'[n] \in DOMAIN Dotted
      BY <1>6, <1>7, <1>10, <1>15
    <3>. QED
      BY <1>5, <1>15, <2>2, <3>1, <3>2, <3>3 DEF TypeIs
  <2>. QED
    BY <1>7, <1>15, <2>1, <2>3 DEF OptionRead
<1>17. LineRead(line', n, f, rule', "code")
  <2>1. f + 4 \in f + 3 .. f + 7 /\ n \in f + 3 .. f + 7
    BY <1>20
  <2>. QED
    BY <1>5, <1>14, <1>16, <2>1, ReadMore
<1>18. PlaceOK'
  <2>1. Passed' \in FromAt' + 5 .. FromAt' + 7
    BY <1>12, <1>20
  <2>2. line'[Passed'] \in DOMAIN Dotted /\ p' = Dotted[line'[Passed']][2]
    BY <1>0, <1>6, <1>10, <1>12
  <2>3. rule'.kind = "icmp"
    BY <1>4, <1>5 DEF SameHead
  <2>. QED
    BY <1>0, <2>1, <2>2, <2>3 DEF PlaceOK
<1>19. LastOK' /\ LogOK'
  BY <1>0, <1>5 DEF LineOK, LastOK, LogOK
<1>. QED
  BY <1>0, <1>12, <1>17, <1>18, <1>19 DEF LineOK

(* The clause of the code keeps the invariant of the line. *)
LEMMA CodeLine ==
  ASSUME RuleTypeOK, LineOK, Code
  PROVE  LineOK'
PROOF
<1>0. /\ clause = "code" /\ p # NULL /\ (Atoi(p) # 0 \/ p = "0") /\ NextWord("nolog")
      /\ rule' = [rule EXCEPT !.code = UChar(Atoi(p)), !.useCode = TRUE]
  BY DEF Code, Expect
<1>2. PICK n \in Nat : n = Len(line)
  BY DEF RuleTypeOK
<1>3. PICK f \in {4, 6} : f = FromAt
  BY DEF FromAt
<1>4. /\ Passed = n /\ n \in f + 5 .. f + 7 /\ rule.kind = "icmp"
      /\ line[n] \in DOMAIN Dotted /\ p = Dotted[line[n]][2]
  BY <1>0, <1>2, <1>3 DEF LineOK, PlaceOK, Passed
<1>5. /\ SameHead(rule, rule') /\ SameSrc(rule, rule') /\ SameDst(rule, rule') /\ rule'.log = rule.log
      /\ rule'.useType = rule.useType /\ rule'.type = rule.type /\ rule'.useCode /\ rule'.code = UChar(Atoi(p))
  BY <1>0 DEF RuleTypeOK, FltRules, SameHead, SameSrc, SameDst
<1>6. LineRead(line, n, f, rule, "code")
  BY <1>0, <1>3, <1>4 DEF LineOK
<1>7. OptionRead(line, n, f, rule', "nolog")
  <2>1. line[f + 4] = KeyOf("icmp") /\ rule'.kind = "icmp" /\ TypeIs(line, n, f, rule, "code")
    BY <1>4, <1>5, <1>6 DEF LineRead, OptionRead, SameHead
  <2>2. TypeIs(line, n, f, rule', "nolog")
    BY <1>0, <1>4, <1>5, <2>1 DEF TypeIs
  <2>. QED
    BY <1>4, <2>1, <2>2 DEF OptionRead
<1>8. LineRead(line, n, f, rule', "nolog")
  <2>1. n \in f + 3 .. f + 7
    BY <1>4
  <2>. QED
    BY <1>5, <1>6, <1>7, <2>1, ReadMore
<1>9. clause' = "nolog" /\ Passed' = n /\ LastOK' /\ FromAt' = f /\ (\A i \in 1..n : line'[i] = line[i])
  <2>1. PICK w \in Tried["nolog"] \cup {NULL} :
          clause' = "nolog" /\ p' = w /\ line' = IF w = NULL THEN line ELSE Append(line, w)
    BY <1>0 DEF NextWord
  <2>2. w \in Words \cup {NULL} /\ line \in Seq(Words)
    BY WordsAssumption DEF RuleTypeOK, Clauses
  <2>3. CASE w = NULL
    <3>1. line' = line /\ p' = NULL
      BY <2>1, <2>3
    <3>. QED
      BY <1>2, <1>3, <2>1, <3>1 DEF Passed, LastOK, FromAt
  <2>4. CASE w # NULL
    <3>0. w \in Words
      BY <2>2, <2>4
    <3>1. PICK q \in Seq(Words) : q = Append(line, w)
      BY <2>2, <3>0, AppendProperties
    <3>2. PICK k \in Nat : k = n + 1
      OBVIOUS
    <3>3. Len(q) = k /\ q[k] = w
      BY <1>2, <2>2, <3>0, <3>1, <3>2
    <3>4. \A i \in 1..n : q[i] = line[i]
      BY <1>2, <2>2, <3>0, <3>1
    <3>5. line' = q /\ p' = w
      BY <2>1, <2>4, <3>1
    <3>6. Passed' = n /\ LastOK'
      BY <2>1, <2>4, <3>2, <3>3, <3>5 DEF Passed, LastOK
    <3>7. FromAt' = FromAt
      BY <1>2, <1>4, <3>2, <3>3, <3>4, <3>5 DEF FromAt
    <3>. QED
      BY <1>3, <2>1, <3>4, <3>5, <3>6, <3>7
  <2>. QED
    BY <2>3, <2>4
<1>10. LineRead(line', n, f, rule', "nolog")
  BY <1>8, <1>9, SamePrefix
<1>11. PlaceOK'
  BY <1>4, <1>9 DEF PlaceOK
<1>12. LogOK'
  BY <1>0, <1>5, <1>9 DEF LineOK, LogOK
<1>. QED
  BY <1>9, <1>10, <1>11, <1>12 DEF LineOK

(* The end of the line, or "nolog" as all that is left of it. *)
LEMMA NoLogLine ==
  ASSUME RuleTypeOK, LineOK, NoLog, clause' # "rejected"
  PROVE  LineOK'
PROOF
<1>0. /\ clause = "nolog" /\ clause' = "accepted" /\ UNCHANGED <<p, line>>
      /\ \/ p = NULL /\ rule' = rule
         \/ p = "nolog" /\ rule' = [rule EXCEPT !.log = FALSE]
  BY DEF NoLog
<1>1. /\ SameHead(rule, rule') /\ SameSrc(rule, rule') /\ SameDst(rule, rule') /\ SameOption(rule, rule')
      /\ rule'.log = (p = NULL)
  <2>1. "nolog" # NULL
    BY WordsAssumption DEF Keywords
  <2>2. rule.log = TRUE
    BY <1>0 DEF LineOK, LogOK
  <2>. QED
    BY ZenonT(40), <1>0, <2>1, <2>2 DEF RuleTypeOK, FltRules, SameHead, SameSrc, SameDst, SameOption
<1>2. PICK f \in {4, 6} : f = FromAt
  BY DEF FromAt
<1>3. PICK n \in f + 3 .. f + 7 : n = Passed
  BY <1>0, <1>2 DEF LineOK, PlaceOK
<1>4. LineRead(line, n, f, rule, "nolog")
  BY <1>0, <1>2, <1>3 DEF LineOK
<1>5. OptionRead(line, n, f, rule', "accepted")
  BY <1>1, <1>4 DEF LineRead, OptionRead, NoOptions, TypeIs, SameHead, SameOption
<1>6. LineRead(line, n, f, rule', "accepted")
  BY <1>1, <1>4, <1>5, ReadMore
<1>7. Passed' = n /\ FromAt' = f
  BY <1>0, <1>2, <1>3 DEF Passed, FromAt
<1>8. LineRead(line', Passed', FromAt', rule', clause')
  BY <1>0, <1>6, <1>7
<1>9. PlaceOK'
  BY <1>0, <1>2, <1>3, <1>7 DEF LineOK, PlaceOK
<1>10. LastOK' /\ LogOK'
  BY <1>0, <1>1 DEF LineOK, LastOK, LogOK
<1>. QED
  BY <1>8, <1>9, <1>10 DEF LineOK
-----------------------------------------------------------------------------
(* Where a documented line is, when the parser has read this far. *)
ArgWords(k) == ArgsOf(k, ProtoNums, FlagWords, TypeWords)

(* In a documented line "from" is where its fourth word says. *)
LEMMA DocPlace ==
  ASSUME NEW l, NEW m \in Nat, NEW k, NEW f \in {4, 6}, NEW last \in f + 3 .. f + 6, NEW index, NEW addrs, NEW args,
         FormLine(l, m, k, f, last, index, addrs, args), m >= 4
  PROVE  f = IF l[4] = "if" THEN 6 ELSE 4
PROOF
<1>1. CASE f = 6
  BY <1>1 DEF FormLine
<1>2. CASE f = 4
  <2>1. l[4] = "from"
    BY <1>2 DEF FormLine
  <2>. QED
    BY <1>2, <2>1
<1>. QED
  BY <1>1, <1>2

(* A documented line, and what has been read of it so far, agree on "from" *)
(* and on the kind of rule.                                                *)
LEMMA DocFacts ==
  ASSUME RuleTypeOK, LineOK, clause \in Clauses, NEW m \in Nat, m = Len(line),
         NEW k \in Kinds, NEW f \in {4, 6}, NEW last \in f + 3 .. f + 6,
         FormLine(line, m, k, f, last, Index, Addrs(k), ArgWords(k))
  PROVE  /\ (m >= 4 => f = FromAt)
         /\ (Passed >= 2 => k = rule.kind)
         /\ Passed \in Nat /\ Passed <= m /\ LineRead(line, Passed, FromAt, rule, clause)
PROOF
<1>1. m >= 4 => f = FromAt
  BY DocPlace DEF FromAt
<1>2. Passed \in Nat /\ Passed <= m
  <2>1. p # NULL /\ clause # "code" => m >= 1
    BY DEF LineOK, LastOK
  <2>. QED
    BY <2>1 DEF Passed
<1>3. LineRead(line, Passed, FromAt, rule, clause)
  BY DEF LineOK
<1>4. Passed >= 2 => k = rule.kind
  BY <1>2, <1>3 DEF FormLine, LineRead, HeadRead
<1>. QED
  BY <1>1, <1>2, <1>3, <1>4

(* The first words of a documented line. *)
LEMMA HeadWords ==
  ASSUME NEW l, NEW m \in Nat, NEW k \in Kinds, NEW f \in {4, 6}, NEW last \in f + 3 .. f + 6,
         NEW index, NEW addrs, NEW args,
         FormLine(l, m, k, f, last, index, addrs, args), NEW w, l[m] = w
  PROVE  /\ (m = 2 => w \in Kinds)
         /\ (m = 3 => w \in Directions)
         /\ (m = 4 => w \in {"if", "from"})
         /\ (m = 5 /\ f = 6 => w \in index)
PROOF
<1>1. m = 2 => w \in Kinds
  BY DEF FormLine
<1>2. m = 3 => w \in Directions
  BY DEF FormLine
<1>3. m = 4 => w \in {"if", "from"}
  BY DEF FormLine
<1>4. m = 5 /\ f = 6 => w \in index
  BY DEF FormLine
<1>. QED
  BY <1>1, <1>2, <1>3, <1>4

(* A documented interface is one that parse_rule takes. *)
LEMMA IndexIs == \A w \in Index : Atoi(w) \in 1..MaxIface
PROOF
  BY NumeralIs DEF Index

(* A documented protocol number is one that parse_rule takes. *)
LEMMA ProtoNumIs == \A w \in ProtoNums : Atoi(w) \in 1..255
PROOF
  BY NumeralIs DEF ProtoNums

(* A documented line passes every clause. *)
LEMMA DocWord ==
  ASSUME RuleTypeOK, LineOK, clause \in Clauses, p # NULL, NEW m \in Nat, m = Len(line),
         NEW k \in Kinds, NEW f \in {4, 6}, NEW last \in f + 3 .. f + 6,
         FormLine(line, m, k, f, last, Index, Addrs(k), ArgWords(k))
  PROVE  /\ (clause = "verdict" => p \in Verdicts)
         /\ (clause = "proto" => p \in Kinds)
         /\ (clause = "direction" => p \in Directions)
         /\ (clause = "iface" => (Initial[p] = "i" => p = "if"))
         /\ (clause = "ifarg" => Atoi(p) \in 1..MaxIface)
         /\ (clause = "from" => p = "from")
         /\ (clause = "to" => p = "to")
         /\ (clause \in {"src", "dst"} => AmpOK(p, rule.kind))
         /\ (clause = "option" => (Looked => p = Keyword))
         /\ (clause = "ipproto" => Atoi(p) \in 1..255)
         /\ (clause = "flags" => FlagsOK(p))
         /\ (clause = "type" => p \in TypeWords)
         /\ (clause = "code" => Atoi(p) # 0 \/ p = "0")
         /\ (clause = "nolog" => p = "nolog" /\ m = last)
PROOF
<1>1. /\ (m >= 4 => f = FromAt)
      /\ (Passed >= 2 => k = rule.kind)
      /\ Passed \in Nat /\ Passed <= m /\ LineRead(line, Passed, FromAt, rule, clause)
  BY DocFacts
<1>2. clause # "code" => m >= 1 /\ Passed = m - 1 /\ line[m] = p
  BY DEF LineOK, LastOK, Passed
<1>3. PlaceOK
  BY DEF LineOK
<1>4. clause = "verdict" => p \in Verdicts
  <2>1. clause = "verdict" => m = 1 /\ line[1] = p
    BY <1>2, <1>3 DEF PlaceOK
  <2>. QED
    BY SMTT(30), <2>1 DEF FormLine
<1>5. clause = "proto" => p \in Kinds
  <2>. SUFFICES ASSUME clause = "proto" PROVE p \in Kinds
    OBVIOUS
  <2>1. m = 2 /\ line[m] = p
    BY <1>2, <1>3 DEF PlaceOK
  <2>. QED
    BY ZenonT(40), <2>1, HeadWords
<1>6. clause = "direction" => p \in Directions
  <2>. SUFFICES ASSUME clause = "direction" PROVE p \in Directions
    OBVIOUS
  <2>1. m = 3 /\ line[m] = p
    BY <1>2, <1>3 DEF PlaceOK
  <2>. QED
    BY <2>1, HeadWords
<1>7. clause = "iface" => (Initial[p] = "i" => p = "if")
  <2>. SUFFICES ASSUME clause = "iface" PROVE Initial[p] = "i" => p = "if"
    OBVIOUS
  <2>1. m = 4 /\ line[m] = p
    BY <1>2, <1>3 DEF PlaceOK
  <2>2. p \in {"if", "from"}
    BY <2>1, HeadWords
  <2>. QED
    BY <2>2, WordsAssumption
<1>8. clause = "ifarg" => Atoi(p) \in 1..MaxIface
  <2>. SUFFICES ASSUME clause = "ifarg" PROVE Atoi(p) \in 1..MaxIface
    OBVIOUS
  <2>0. Passed = 4 /\ FromAt = 6
    BY <1>3 DEF PlaceOK
  <2>a. Passed = m - 1 /\ line[m] = p
    BY <1>2
  <2>1. m = 5 /\ line[m] = p
    <3>1. m - 1 = 4
      BY <2>0, <2>a
    <3>2. \A n \in Nat : n - 1 = 4 => n = 5
      OBVIOUS
    <3>3. m = 5
      BY <3>1, <3>2, Zenon
    <3>. QED
      BY <2>a, <3>3, Zenon
  <2>2. f = 6
    BY <1>1, <2>0, <2>1
  <2>3. p \in Index
    BY <2>1, <2>2, HeadWords
  <2>. QED
    BY <2>3, IndexIs
<1>9. clause = "from" => p = "from"
  <2>1. clause = "from" => m >= 4
    <3>1. FromAt \in {4, 6}
      BY DEF FromAt
    <3>. QED
      BY <1>2, <1>3, <3>1 DEF PlaceOK
  <2>2. clause = "from" => m = f /\ line[f] = p
    BY <1>1, <1>2, <1>3, <2>1 DEF PlaceOK
  <2>. QED
    BY <2>2 DEF FormLine
<1>F. FromAt \in {4, 6}
  BY DEF FromAt
<1>10. clause \notin {"verdict", "proto", "direction", "iface"} => m >= 4 /\ f = FromAt /\ k = rule.kind
  <2>1. clause \notin {"verdict", "proto", "direction", "iface"} => Passed >= 3
    BY <1>3, <1>F DEF PlaceOK, Clauses
  <2>2. clause \notin {"verdict", "proto", "direction", "iface", "code"} => m >= 4
    BY <1>2, <2>1
  <2>3. clause = "code" => m >= 4
    BY <1>1, <1>3, <1>F DEF PlaceOK
  <2>. QED
    BY <1>1, <2>1, <2>2, <2>3
<1>11. clause = "to" => p = "to"
  <2>1. clause = "to" => m = f + 2 /\ line[f + 2] = p
    BY <1>2, <1>3, <1>10 DEF PlaceOK
  <2>. QED
    BY <2>1 DEF FormLine
<1>12. clause \in {"src", "dst"} => AmpOK(p, rule.kind)
  <2>1. clause = "src" => m = f + 1 /\ line[f + 1] = p
    BY <1>2, <1>3, <1>10 DEF PlaceOK
  <2>2. clause = "dst" => m = f + 3 /\ line[f + 3] = p
    BY <1>2, <1>3, <1>10 DEF PlaceOK
  <2>3. clause \in {"src", "dst"} => p \in Addrs(k)
    BY <2>1, <2>2 DEF FormLine
  <2>. QED
    BY <1>10, <2>3, AddrOK
<1>13. clause = "option" => (Looked => p = Keyword)
  <2>. SUFFICES ASSUME clause = "option", Looked PROVE p = Keyword
    OBVIOUS
  <2>1. m = f + 4 /\ line[f + 4] = p
    BY <1>2, <1>3, <1>10 DEF PlaceOK
  <2>2. /\ (last >= f + 5 => p = KeyOf(k))
        /\ (last = f + 4 => p = "nolog")
    BY <2>1 DEF FormLine
  <2>3. k \in {"ip", "tcp", "icmp"} /\ KeyOf(k) = Keyword /\ Initial[p] = Initial[Keyword]
    BY <1>10 DEF Looked, Kinds, Tables, Transports, KeyOf, Keyword
  <2>4. last >= f + 4
    BY <2>1 DEF FormLine
  <2>5. p # "nolog"
    BY <2>3, WordsAssumption DEF KeyOf
  <2>. QED
    BY <2>2, <2>3, <2>4, <2>5
<1>14. clause \in {"ipproto", "flags", "type"} => m = f + 5 /\ line[f + 5] = p
  BY <1>2, <1>3, <1>10 DEF PlaceOK
<1>15. clause \in {"ipproto", "flags", "type"} => p \in ArgWords(k)
  <2>. SUFFICES ASSUME clause \in {"ipproto", "flags", "type"} PROVE p \in ArgWords(k)
    OBVIOUS
  <2>1. last >= f + 5
    BY <1>14 DEF FormLine
  <2>. QED
    BY <1>14, <2>1 DEF FormLine
<1>16. clause = "ipproto" => Atoi(p) \in 1..255
  <2>1. clause = "ipproto" => p \in ProtoNums
    BY <1>3, <1>10, <1>15 DEF PlaceOK, ArgWords, ArgsOf
  <2>. QED
    BY <2>1, ProtoNumIs
<1>17. clause = "flags" => FlagsOK(p)
  <2>1. clause = "flags" => p \in FlagWords
    BY <1>3, <1>10, <1>15 DEF PlaceOK, ArgWords, ArgsOf
  <2>. QED
    BY <2>1 DEF FlagWords, FlagsOK
<1>18. clause = "type" => p \in TypeWords
  BY <1>3, <1>10, <1>15 DEF PlaceOK, ArgWords, ArgsOf
<1>19. clause = "code" => Atoi(p) # 0 \/ p = "0"
  <2>. SUFFICES ASSUME clause = "code" PROVE Atoi(p) # 0 \/ p = "0"
    OBVIOUS
  <2>1. /\ Passed = m /\ m \in f + 5 .. f + 7 /\ k = "icmp"
        /\ line[m] \in DOMAIN Dotted /\ p = Dotted[line[m]][2]
    <3>1. Passed = m
      BY DEF Passed
    <3>. QED
      BY <1>3, <1>10, <3>1 DEF PlaceOK
  <2>2. m <= last /\ last \in {f + 5, f + 6}
    BY <2>1 DEF FormLine
  <2>3. CASE m = f + 5
    <3>1. line[m] \in TypeWords
      BY <2>1, <2>2, <2>3 DEF FormLine, ArgWords, ArgsOf
    <3>2. p \in Byte
      BY <2>1, <3>1, PartsAssumption DEF TypeWords, Byte
    <3>. QED
      BY <3>2, NumeralIs DEF Byte
  <2>4. CASE m = f + 6
    <3>1. line[m] = "nolog"
      BY <2>2, <2>4 DEF FormLine
    <3>. QED
      BY <2>1, <3>1, PartsAssumption DEF Keywords
  <2>. QED
    BY <2>1, <2>2, <2>3, <2>4
<1>20. clause = "nolog" => p = "nolog" /\ m = last
  <2>. SUFFICES ASSUME clause = "nolog" PROVE p = "nolog" /\ m = last
    OBVIOUS
  <2>1. m \in {f + 4} \cup f + 6 .. f + 8 /\ line[m] = p
    BY SMTT(30), <1>2, <1>3, <1>10 DEF PlaceOK
  <2>2. m <= last
    BY DEF FormLine
  <2>3. CASE m = f + 4
    <3>1. ~Looked
      BY <1>2, <1>3, <1>10, <2>3 DEF PlaceOK
    <3>2. last < f + 5
      <4>1. ASSUME last >= f + 5 PROVE FALSE
        <5>1. k # "udp" /\ p = KeyOf(k)
          BY <2>1, <2>3, <4>1 DEF FormLine
        <5>2. Keyword = KeyOf(k)
          BY <1>10 DEF Keyword, KeyOf
        <5>. QED
          BY <1>10, <3>1, <5>1, <5>2 DEF Looked
      <4>. QED
        BY <4>1
    <3>3. last = f + 4
      BY <2>2, <2>3, <3>2
    <3>. QED
      BY <2>1, <2>3, <3>3 DEF FormLine
  <2>4. CASE m >= f + 6
    <3>1. m = last /\ last = f + 6
      BY <2>2, <2>4
    <3>. QED
      BY <2>1, <3>1 DEF FormLine
  <2>. QED
    BY <2>1, <2>3, <2>4
<1>. QED
  BY <1>4, <1>5, <1>6, <1>7, <1>8, <1>9, <1>11, <1>12, <1>13, <1>16, <1>17, <1>18, <1>19, <1>20
-----------------------------------------------------------------------------
(* The first words of a documented line are the first words of one. *)
LEMMA FormPrefix ==
  ASSUME NEW l, NEW g, NEW m \in Nat, NEW n \in Nat, m <= n, \A i \in 1..m : g[i] = l[i],
         NEW k, NEW f \in {4, 6}, NEW last \in f + 3 .. f + 6, NEW index, NEW addrs, NEW args,
         FormLine(g, n, k, f, last, index, addrs, args)
  PROVE  FormLine(l, m, k, f, last, index, addrs, args)
PROOF
<1>1. n <= last
  BY DEF FormLine
<1>2. m = last => n = last
  BY <1>1
<1>3. /\ (m >= 1 => l[1] \in Verdicts) /\ (m >= 2 => l[2] = k) /\ (m >= 3 => l[3] \in Directions)
      /\ (f = 6 => (m >= 4 => l[4] = "if") /\ (m >= 5 => l[5] \in index))
  BY DEF FormLine
<1>4. /\ (m >= f => l[f] = "from") /\ (m >= f + 1 => l[f + 1] \in addrs)
      /\ (m >= f + 2 => l[f + 2] = "to") /\ (m >= f + 3 => l[f + 3] \in addrs)
  BY DEF FormLine
<1>5. last >= f + 5 => /\ k # "udp"
                       /\ (m >= f + 4 => l[f + 4] = KeyOf(k))
                       /\ (m >= f + 5 => l[f + 5] \in args)
  BY DEF FormLine
<1>6. last \in {f + 4, f + 6} /\ m = last => l[last] = "nolog"
  BY <1>2 DEF FormLine
<1>7. m <= last
  BY <1>1
<1>. QED
  BY <1>3, <1>4, <1>5, <1>6, <1>7 DEF FormLine

(* Where a documented line begins with the words read so far. *)
LEMMA BeginsAs ==
  ASSUME RuleTypeOK, Begins
  PROVE  \E m \in Nat, k \in Kinds, f \in {4, 6}, last \in 7..12 :
           /\ m = Len(line) /\ last \in f + 3 .. f + 6
           /\ FormLine(line, m, k, f, last, Index, Addrs(k), ArgWords(k))
PROOF
<1>1. line \in Seq(Words) /\ Len(line) \in Nat
  BY DEF RuleTypeOK
<1>2. PICK form \in Forms : \A i \in DOMAIN line : i \in DOMAIN form /\ line[i] \in form[i]
  BY DEF Begins, Fits
<1>3. PICK k \in Kinds, f \in {4, 6}, last \in 7..12 : last \in f + 3 .. f + 6 /\ DocLine(line, k, f, last)
  BY <1>1, <1>2, BeginsIs
<1>. QED
  BY <1>1, <1>3 DEF DocLine, ArgWords

(* A documented line, by places. *)
LEMMA DocumentedAs ==
  ASSUME RuleTypeOK, Documented
  PROVE  \E m \in Nat, k \in Kinds, f \in {4, 6} :
           /\ m = Len(line) /\ m \in f + 3 .. f + 6
           /\ FormLine(line, m, k, f, m, Index, Addrs(k), ArgWords(k))
PROOF
<1>1. line \in Seq(Words) /\ Len(line) \in Nat
  BY DEF RuleTypeOK
<1>2. PICK form \in Forms : Len(form) = Len(line) /\ \A i \in DOMAIN line : i \in DOMAIN form /\ line[i] \in form[i]
  BY DEF Documented, Fits
<1>3. PICK k \in Kinds, f \in {4, 6}, last \in 7..12 :
        last \in f + 3 .. f + 6 /\ last = Len(form) /\ DocLine(line, k, f, last)
  BY <1>1, <1>2, BeginsIs
<1>. QED
  BY <1>1, <1>2, <1>3 DEF DocLine, ArgWords

(* What stands behind the type of a line that is given up. *)
LEMMA MoreWords ==
  ASSUME NEW S, NEW l \in Seq(S), NEW s \in Seq(S), NEW g, g = l \o s, NEW m \in Nat, NEW d \in Nat,
         m = Len(l), d = Len(s)
  PROVE  /\ g \in Seq(S) /\ Len(g) = m + d
         /\ (\A i \in 1..m : g[i] = l[i])
         /\ (d >= 1 => g[m + 1] = s[1])
PROOF
<1>1. /\ g \in Seq(S) /\ Len(g) = m + d
      /\ \A j \in 1..m : g[j] = l[j]
      /\ \A j \in 1..d : g[m + j] = s[j]
  BY JoinedSeqs
<1>. QED
  BY <1>1

(* A documented type is never given up: whatever the build reads behind    *)
(* it, the line is no documented one.                                      *)
LEMMA TypeGivenUp ==
  ASSUME RuleTypeOK, RuleTypeOK', LineOK, clause = "type", p # NULL, NEW s \in ToPoint, line' = line \o s,
         ~InRange(TypeOf(p), BehindType(s), 255), Begins'
  PROVE  FALSE
PROOF
<1>1. PICK n \in Nat, k \in Kinds, f \in {4, 6}, last \in 7..12 :
        /\ n = Len(line') /\ last \in f + 3 .. f + 6
        /\ FormLine(line', n, k, f, last, Index, Addrs(k), ArgWords(k))
  <2>1. line' \in Seq(Words) /\ Len(line') \in Nat
    BY DEF RuleTypeOK
  <2>2. PICK form \in Forms : \A i \in DOMAIN line' : i \in DOMAIN form /\ line'[i] \in form[i]
    BY DEF Begins, Fits
  <2>3. PICK k \in Kinds, f \in {4, 6}, last \in 7..12 : last \in f + 3 .. f + 6 /\ DocLine(line', k, f, last)
    BY <2>1, <2>2, BeginsIs
  <2>. QED
    BY <2>1, <2>3 DEF DocLine, ArgWords
<1>2. /\ s \in Seq(Words) /\ Len(s) \in 0..2
      /\ Pointed(s) \in DOMAIN Dotted
      /\ Len(s) = 0 => Pointed(s) = p
      /\ (Len(s) # 0 => p \notin DOMAIN Dotted /\ Pointed(s) = s[Len(s)])
  BY ToPointIs
<1>3. PICK m \in Nat, d \in 0..2 : m = Len(line) /\ d = Len(s)
  BY <1>2 DEF RuleTypeOK
<1>4. n = m + d /\ (\A i \in 1..m : line'[i] = line[i]) /\ (d >= 1 => line'[m + 1] = s[1])
  BY <1>1, <1>2, <1>3, MoreWords DEF RuleTypeOK
<1>5. FormLine(line, m, k, f, last, Index, Addrs(k), ArgWords(k))
  <2>1. m <= n
    BY <1>3, <1>4
  <2>2. PICK g, l, index, addrs, args :
          g = line' /\ l = line /\ index = Index /\ addrs = Addrs(k) /\ args = ArgWords(k)
    OBVIOUS
  <2>3. FormLine(g, n, k, f, last, index, addrs, args) /\ \A i \in 1..m : g[i] = l[i]
    BY <1>1, <1>4, <2>2
  <2>4. n \in Nat /\ m \in Nat /\ last \in f + 3 .. f + 6
    BY <1>1, <1>3
  <2>5. FormLine(l, m, k, f, last, index, addrs, args)
    BY ZenonT(40), <1>1, <2>1, <2>3, <2>4, FormPrefix
  <2>. QED
    BY <2>2, <2>5
<1>6. p \in TypeWords
  BY <1>1, <1>3, <1>5, DocWord DEF Clauses
<1>7. CASE d = 0
  <2>a. Len(s) = 0
    BY <1>3, <1>7
  <2>1. s = <<>> /\ p \in DOMAIN Dotted
    BY <1>2, <2>a
  <2>2. p \notin Byte
    BY <2>1, PartsAssumption DEF Byte
  <2>3. TypeOf(p) \in Byte /\ BehindType(s) = NULL
    BY <1>6, <2>1, <2>2 DEF TypeWords, TypeOf, BehindType
  <2>. QED
    BY <2>3, ByteOK
<1>8. CASE d >= 1
  <2>1. m = f + 5
    <3>1. /\ (m >= 4 => f = FromAt)
          /\ (Passed >= 2 => k = rule.kind)
          /\ Passed \in Nat /\ Passed <= m /\ LineRead(line, Passed, FromAt, rule, clause)
      BY <1>1, <1>3, <1>5, DocFacts DEF Clauses
    <3>2. Passed = FromAt + 4 /\ FromAt \in {4, 6}
      BY DEF LineOK, PlaceOK, FromAt
    <3>3. Passed = m - 1
      BY <1>3 DEF Passed
    <3>. QED
      BY <3>1, <3>2, <3>3
  <2>2. n = last /\ last = f + 6 /\ d = 1
    BY <1>1, <1>3, <1>4, <1>8, <2>1 DEF FormLine
  <2>3. line'[f + 6] = "nolog"
    BY <1>1, <2>2 DEF FormLine
  <2>4. s[1] = "nolog"
    <3>1. m + 1 = f + 6
      BY <2>1
    <3>. QED
      BY <1>4, <1>8, <2>3, <3>1
  <2>5. s[1] \in DOMAIN Dotted
    BY <1>2, <1>3, <2>2
  <2>. QED
    BY <2>4, <2>5, PartsAssumption DEF Keywords
<1>. QED
  BY <1>3, <1>7, <1>8
-----------------------------------------------------------------------------
(* Every way to give a line up, and what was wrong with the word at p. *)
GivesUp(ok, c) == clause = c /\ p # NULL /\ ~ok /\ clause' = "rejected" /\ UNCHANGED <<p, line, rule>>

LEMMA WrongWord ==
  ASSUME Reject
  PROVE  \/ /\ p # NULL /\ clause' = "rejected" /\ UNCHANGED <<p, line, rule>>
            /\ \/ clause = "verdict" /\ p \notin Verdicts
               \/ clause = "proto" /\ p \notin Kinds
               \/ clause = "direction" /\ p \notin Directions
               \/ clause = "iface" /\ Initial[p] = "i" /\ p # "if"
               \/ clause = "ifarg" /\ Atoi(p) \notin 1..MaxIface
               \/ clause = "from" /\ p # "from"
               \/ clause = "to" /\ p # "to"
               \/ clause = "src" /\ ~AmpOK(p, rule.kind)
               \/ clause = "dst" /\ ~AmpOK(p, rule.kind)
               \/ clause = "option" /\ Looked /\ p # Keyword
               \/ clause = "ipproto" /\ Atoi(p) \notin 1..255
               \/ clause = "flags" /\ ~FlagsOK(p)
               \/ clause = "type" /\ p \notin DOMAIN Dotted /\ ~InRange(p, NULL, 255)
               \/ clause = "code" /\ ~(Atoi(p) # 0 \/ p = "0")
               \/ clause = "nolog" /\ p # "nolog"
         \/ /\ p # NULL /\ clause = "type" /\ clause' = "rejected" /\ UNCHANGED <<p, rule>>
            /\ \E s \in ToPoint : ~InRange(TypeOf(p), BehindType(s), 255) /\ line' = line \o s
PROOF
<1>1. CASE BadType
  BY <1>1 DEF BadType, Unless, Returns, Expect
<1>2. CASE BadIf \/ BadOption
  BY <1>2 DEF BadIf, BadOption, Unless, Returns
<1>3. CASE ~(BadType \/ BadIf \/ BadOption)
  BY <1>3 DEF Reject, Unless, Returns
<1>. QED
  BY <1>1, <1>2, <1>3

(* A line that is rejected begins as no documented one. *)
LEMMA RejectRight ==
  ASSUME RuleTypeOK, RuleTypeOK', LineOK, Reject
  PROVE  ~Begins' /\ p' # NULL /\ clause' = "rejected"
PROOF
<1>0. clause \in Clauses /\ p # NULL /\ clause' = "rejected" /\ UNCHANGED <<p, rule>>
  BY GivenUp
<1>. SUFFICES ASSUME Begins' PROVE FALSE
  BY <1>0
<1>1. CASE UNCHANGED line /\ ~(clause = "type" /\ p \in DOMAIN Dotted)
  <2>1. Begins
    BY <1>1 DEF Begins, Fits
  <2>2. PICK m \in Nat, k \in Kinds, f \in {4, 6}, last \in 7..12 :
           /\ m = Len(line) /\ last \in f + 3 .. f + 6
           /\ FormLine(line, m, k, f, last, Index, Addrs(k), ArgWords(k))
    BY <2>1, BeginsAs
  <2>3. /\ (clause = "verdict" => p \in Verdicts)
         /\ (clause = "proto" => p \in Kinds)
         /\ (clause = "direction" => p \in Directions)
         /\ (clause = "iface" => (Initial[p] = "i" => p = "if"))
         /\ (clause = "ifarg" => Atoi(p) \in 1..MaxIface)
         /\ (clause = "from" => p = "from")
         /\ (clause = "to" => p = "to")
         /\ (clause \in {"src", "dst"} => AmpOK(p, rule.kind))
         /\ (clause = "option" => (Looked => p = Keyword))
         /\ (clause = "ipproto" => Atoi(p) \in 1..255)
         /\ (clause = "flags" => FlagsOK(p))
         /\ (clause = "type" => p \in TypeWords)
         /\ (clause = "code" => Atoi(p) # 0 \/ p = "0")
         /\ (clause = "nolog" => p = "nolog" /\ m = last)
    BY <1>0, <2>2, DocWord
  <2>4. clause = "type" /\ p \notin DOMAIN Dotted => InRange(p, NULL, 255)
    BY <2>3, ByteOK DEF TypeWords
  <2>5. clause = "type" /\ \E s \in ToPoint : ~InRange(TypeOf(p), BehindType(s), 255) /\ line' = line \o s
    BY <2>3, <2>4, WrongWord
  <2>. QED
    BY <1>0, <2>5, TypeGivenUp
<1>2. CASE ~(UNCHANGED line /\ ~(clause = "type" /\ p \in DOMAIN Dotted))
  <2>1. clause = "type" /\ \E s \in ToPoint : ~InRange(TypeOf(p), BehindType(s), 255) /\ line' = line \o s
    BY <1>2, WrongWord
  <2>. QED
    BY <1>0, <2>1, TypeGivenUp
<1>. QED
  BY <1>1, <1>2

(* "nolog" and more: no documented line goes on behind it. *)
LEMMA NoLogRight ==
  ASSUME RuleTypeOK, RuleTypeOK', LineOK, NoLog, clause' = "rejected"
  PROVE  ~Begins' /\ p' # NULL
PROOF
<1>1. /\ clause = "nolog" /\ p = "nolog" /\ UNCHANGED <<p, rule>>
      /\ \E w \in Tried["nolog"] : line' = Append(line, w)
  BY DEF NoLog
<1>2. "nolog" # NULL
  BY WordsAssumption DEF Keywords
<1>. SUFFICES ASSUME Begins' PROVE FALSE
  BY <1>1, <1>2
<1>3. PICK w \in Words : line' = Append(line, w)
  BY <1>1, WordsAssumption DEF Clauses
<1>4. PICK n \in Nat, k \in Kinds, f \in {4, 6}, last \in 7..12 :
        /\ n = Len(line') /\ last \in f + 3 .. f + 6
        /\ FormLine(line', n, k, f, last, Index, Addrs(k), ArgWords(k))
  <2>1. line' \in Seq(Words) /\ Len(line') \in Nat
    BY DEF RuleTypeOK
  <2>2. PICK form \in Forms : \A i \in DOMAIN line' : i \in DOMAIN form /\ line'[i] \in form[i]
    BY DEF Begins, Fits
  <2>3. PICK k \in Kinds, f \in {4, 6}, last \in 7..12 : last \in f + 3 .. f + 6 /\ DocLine(line', k, f, last)
    BY <2>1, <2>2, BeginsIs
  <2>. QED
    BY <2>1, <2>3 DEF DocLine, ArgWords
<1>5. PICK m \in Nat : m = Len(line)
  BY DEF RuleTypeOK
<1>6. n = m + 1 /\ \A i \in 1..m : line'[i] = line[i]
  BY <1>3, <1>4, <1>5 DEF RuleTypeOK
<1>7. FormLine(line, m, k, f, last, Index, Addrs(k), ArgWords(k))
  <2>1. m <= n
    BY <1>6
  <2>2. PICK g, l, index, addrs, args :
          g = line' /\ l = line /\ index = Index /\ addrs = Addrs(k) /\ args = ArgWords(k)
    OBVIOUS
  <2>3. FormLine(g, n, k, f, last, index, addrs, args) /\ \A i \in 1..m : g[i] = l[i]
    BY <1>4, <1>6, <2>2
  <2>4. n \in Nat /\ m \in Nat /\ last \in f + 3 .. f + 6
    BY <1>4, <1>5
  <2>5. FormLine(l, m, k, f, last, index, addrs, args)
    BY <1>4, <2>1, <2>3, <2>4, FormPrefix
  <2>. QED
    BY <2>2, <2>5
<1>8. m = last
  BY <1>1, <1>2, <1>4, <1>5, <1>7, DocWord DEF Clauses
<1>9. n <= last
  BY <1>4 DEF FormLine
<1>. QED
  BY <1>6, <1>8, <1>9

(* The line ends too soon for every documented one. *)
LEMMA EndsRight ==
  ASSUME RuleTypeOK, LineOK, clause \in Clauses, Ends
  PROVE  ~Documented' /\ p' = NULL /\ Crashed'
PROOF
<1>1. /\ clause \notin {"option", "nolog"} /\ p = NULL /\ UNCHANGED <<p, line, rule>>
      /\ clause' = IF clause = "proto" THEN "crashed" ELSE "rejected"
  BY DEF Ends, Returns, Unchecked
<1>2. PICK m \in Nat : m = Len(line)
  BY DEF RuleTypeOK
<1>3. Passed = m
  BY <1>1, <1>2 DEF Passed
<1>4. PlaceOK /\ LineRead(line, m, FromAt, rule, clause) /\ FromAt \in {4, 6}
  BY <1>3 DEF LineOK, FromAt
<1>5. clause # "code"
  <2>. SUFFICES ASSUME clause = "code" PROVE FALSE
    OBVIOUS
  <2>1. line[Passed] \in DOMAIN Dotted /\ p = Dotted[line[Passed]][2]
    BY <1>4 DEF PlaceOK
  <2>2. p \in Words
    BY <2>1, PartsAssumption
  <2>. QED
    BY <1>1, <2>2, WordsAssumption
<1>6. Crashed'
  <2>. SUFFICES ASSUME clause = "proto" PROVE \E v \in Verdicts : line' = <<v>>
    BY <1>1 DEF Crashed
  <2>1. m = 1
    BY <1>3, <1>4 DEF PlaceOK
  <2>2. line[1] \in Verdicts
    BY <1>4, <2>1 DEF LineRead, HeadRead
  <2>3. line = <<line[1]>>
    <3>1. line \in Seq(Words) /\ Len(line) = 1
      BY <1>2, <2>1 DEF RuleTypeOK
    <3>2. PICK w \in Words : w = line[1]
      BY <3>1
    <3>3. <<w>> \in Seq(Words) /\ Len(<<w>>) = 1 /\ <<w>>[1] = w
      BY <3>2
    <3>4. line = <<w>>
      BY <3>1, <3>2, <3>3, SeqEqual
    <3>. QED
      BY <3>2, <3>4
  <2>. QED
    BY <1>1, <2>2, <2>3
<1>7. ASSUME Documented PROVE FALSE
  <2>1. PICK n \in Nat, k \in Kinds, f \in {4, 6} :
           /\ n = Len(line) /\ n \in f + 3 .. f + 6
           /\ FormLine(line, n, k, f, n, Index, Addrs(k), ArgWords(k))
    BY <1>7, DocumentedAs
  <2>2. n = m
    BY <1>2, <2>1
  <2>3. f = FromAt
    BY <1>2, <2>1, <2>2, DocFacts
  <2>4. clause \in {"ipproto", "flags", "type"} /\ m = f + 4
    <3>1. /\ clause = "verdict" => m = 0
          /\ clause = "proto" => m = 1
          /\ clause = "direction" => m = 2
          /\ clause = "iface" => m = 3
          /\ clause = "ifarg" => m = 4
          /\ clause = "from" => m = f - 1
          /\ clause = "src" => m = f
          /\ clause = "to" => m = f + 1
          /\ clause = "dst" => m = f + 2
          /\ clause \in {"ipproto", "flags", "type"} => m = f + 4
      BY <1>3, <1>4, <2>3 DEF PlaceOK
    <3>2. clause \in {"verdict", "proto", "direction", "iface", "ifarg", "from", "src", "to", "dst",
                      "ipproto", "flags", "type"}
      BY <1>1, <1>5 DEF Clauses
    <3>3. m >= f + 3
      BY <2>1, <2>2
    <3>. QED
      BY <3>1, <3>2, <3>3
  <2>5. line[f + 4] = "nolog"
    BY <2>1, <2>2, <2>4 DEF FormLine
  <2>6. OptionRead(line, m, f, rule, clause)
    BY <1>4, <2>3 DEF LineRead
  <2>7. rule.kind # "udp" /\ line[f + 4] = KeyOf(rule.kind)
    BY <2>4, <2>6 DEF OptionRead
  <2>8. rule.kind \in {"ip", "tcp", "udp", "icmp"}
    BY DEF RuleTypeOK, FltRules, Kinds, Tables, Transports
  <2>. QED
    BY <2>5, <2>7, <2>8 DEF KeyOf
<1>8. ~Documented'
  BY <1>1, <1>7 DEF Documented, Fits
<1>. QED
  BY <1>1, <1>6, <1>8
-----------------------------------------------------------------------------
(* The invariant of the line holds when its first word has been cut off. *)
LEMMA InitLine == ParseInit => LineInv
PROOF
<1>. SUFFICES ASSUME ParseInit PROVE LineInv
  OBVIOUS
<1>1. clause = "verdict" /\ p \in Words /\ line = <<p>> /\ rule = NoRule /\ p # NULL
  BY WordsAssumption DEF ParseInit, Clauses
<1>2. Len(line) = 1 /\ line[1] = p
  BY <1>1
<1>3. Passed = 0 /\ FromAt = 4
  BY <1>1, <1>2 DEF Passed, FromAt
<1>4. LastOK
  BY <1>1, <1>2 DEF LastOK
<1>5. PlaceOK
  BY <1>1, <1>3 DEF PlaceOK
<1>6. /\ rule.iface = 0 /\ rule.log = TRUE /\ NoDst(rule) /\ NoOptions(rule)
  BY <1>1 DEF NoRule, NoDst, NoOptions
<1>7. LineRead(line, Passed, FromAt, rule, clause)
  BY <1>3, <1>6 DEF LineRead, HeadRead, AddrsRead, OptionRead
<1>8. LogOK
  BY <1>1, <1>6 DEF LogOK
<1>9. TakesEveryRule /\ Crashed
  BY <1>1 DEF TakesEveryRule, Crashed
<1>. QED
  BY <1>4, <1>5, <1>7, <1>8, <1>9, InitTypes DEF LineInv, LineOK

(* Every clause keeps the invariant of the line. *)
LEMMA StepLine ==
  ASSUME LineInv, ParseNext
  PROVE  LineInv'
PROOF
<1>1. RuleTypeOK /\ RuleTypeOK'
  BY StepTypes DEF LineInv
<1>2. clause \in Clauses
  BY GivenUp DEF ParseNext, Filter, Proto, Direction, NoIf, If, IfArg, From, Src, To, Dst, NoOption, Option,
    IpProto, Flags, TypeAlone, TypeAndCode, Code, NoLog, Ends, Expect, Clauses, LineInv, RuleTypeOK
<1>3. LineOK
  BY <1>2 DEF LineInv
<1>. DEFINE Reads == \/ Filter \/ Proto \/ Direction \/ NoIf \/ If \/ IfArg \/ From \/ Src \/ To \/ Dst
                     \/ NoOption \/ Option \/ IpProto \/ Flags \/ TypeAlone \/ TypeAndCode \/ Code
<1>4. CASE Reads
  <2>1. LineOK'
    BY <1>1, <1>3, <1>4, FilterLine, ProtoLine, DirectionLine, NoIfLine, IfLine, IfArgLine, FromLine, SrcLine,
       ToLine, DstLine, NoOptionLine, OptionLine, IpProtoLine, FlagsLine, TypeAloneLine, TypeAndCodeLine, CodeLine
  <2>2. clause' \in Clauses
    <3>1. Option => Keyword \in Clauses
      BY <1>1 DEF Keyword, RuleTypeOK, FltRules, Kinds, Tables, Transports, Clauses
    <3>. QED
      BY <1>4, <3>1 DEF Filter, Proto, Direction, NoIf, If, IfArg, From, Src, To, Dst, NoOption, Option,
        IpProto, Flags, TypeAlone, TypeAndCode, Code, NextWord, Clauses
  <2>3. clause' \notin {"rejected", "crashed"}
    BY <2>2 DEF Clauses
  <2>. QED
    BY <1>1, <2>1, <2>3 DEF LineInv, TakesEveryRule, Crashed
<1>5. CASE NoLog
  <2>1. CASE clause' = "rejected"
    <3>1. ~Begins' /\ p' # NULL
      BY <1>1, <1>3, <1>5, <2>1, NoLogRight
    <3>. QED
      BY <1>1, <2>1, <3>1 DEF LineInv, TakesEveryRule, Crashed, Clauses
  <2>2. CASE clause' # "rejected"
    <3>1. clause' = "accepted"
      BY <1>5, <2>2 DEF NoLog
    <3>2. LineOK'
      BY <1>1, <1>3, <1>5, <2>2, NoLogLine
    <3>. QED
      BY <1>1, <3>1, <3>2 DEF LineInv, TakesEveryRule, Crashed
  <2>. QED
    BY <2>1, <2>2
<1>6. CASE Ends
  <2>1. ~Documented' /\ p' = NULL /\ Crashed'
    BY <1>1, <1>2, <1>3, <1>6, EndsRight
  <2>2. clause' \in {"rejected", "crashed"}
    BY <1>6 DEF Ends, Returns
  <2>. QED
    BY <1>1, <2>1, <2>2 DEF LineInv, TakesEveryRule, Clauses
<1>7. CASE Reject
  <2>1. ~Begins' /\ p' # NULL /\ clause' = "rejected"
    BY <1>1, <1>3, <1>7, RejectRight
  <2>. QED
    BY <1>1, <2>1 DEF LineInv, TakesEveryRule, Crashed, Clauses
<1>. QED
  BY <1>4, <1>5, <1>6, <1>7 DEF ParseNext

(* The inductive invariant of the parser. *)
LEMMA LineInvariant == ParseSpec => []LineInv
PROOF
<1>1. LineInv /\ [ParseNext]_parseVars => LineInv'
  <2>. SUFFICES ASSUME LineInv, [ParseNext]_parseVars PROVE LineInv'
    OBVIOUS
  <2>1. CASE ParseNext
    BY <2>1, StepLine
  <2>2. CASE UNCHANGED parseVars
    <3>0. clause' = clause /\ p' = p /\ line' = line /\ rule' = rule
      BY <2>2 DEF parseVars
    <3>1. RuleTypeOK' = RuleTypeOK
      BY <3>0 DEF RuleTypeOK
    <3>2. Passed' = Passed /\ FromAt' = FromAt
      BY <3>0 DEF Passed, FromAt
    <3>3. Keyword' = Keyword
      BY <3>0 DEF Keyword
    <3>4. Looked' <=> Looked
      BY <3>0, <3>3 DEF Looked
    <3>5. PlaceOK => PlaceOK'
      BY <3>0, <3>2, <3>4 DEF PlaceOK
    <3>6. LineOK => LineOK'
      BY <3>0, <3>2, <3>5 DEF LineOK, LastOK, LogOK
    <3>7. (Begins' <=> Begins) /\ (Documented' <=> Documented)
      BY <3>0 DEF Begins, Documented, Fits
    <3>8. TakesEveryRule => TakesEveryRule'
      BY <3>0, <3>7 DEF TakesEveryRule
    <3>9. Crashed => Crashed'
      BY <3>0 DEF Crashed
    <3>. QED
      BY <3>0, <3>1, <3>6, <3>8, <3>9 DEF LineInv
  <2>. QED
    BY <2>1, <2>2
<1>. QED
  BY <1>1, InitLine, PTL DEF ParseSpec

(* parse_rule takes every line that the comment above it documents: the    *)
(* words before the clause that runs were read as those of a documented    *)
(* line, and such a clause rejects no documented word.                     *)
THEOREM NoRuleRefused == ParseSpec => []TakesEveryRule
PROOF
<1>1. LineInv => TakesEveryRule
  BY DEF LineInv
<1>. QED
  BY <1>1, LineInvariant, PTL
-----------------------------------------------------------------------------
(* The line of a rule that was taken: n words and perhaps "nolog". *)
LEMMA AcceptedLine ==
  ASSUME LineInv, clause = "accepted"
  PROVE  \E m \in Nat, n \in Nat, f \in {4, 6} :
           /\ m = Len(line) /\ f = FromAt /\ n \in {f + 3} \cup f + 5 .. f + 7
           /\ (m = n /\ p = NULL) \/ (m = n + 1 /\ p = "nolog" /\ line[m] = "nolog")
           /\ LineRead(line, n, f, rule, clause)
PROOF
<1>1. LineOK
  BY DEF LineInv
<1>2. PICK m \in Nat : m = Len(line)
  BY DEF LineInv, RuleTypeOK
<1>3. PICK f \in {4, 6} : f = FromAt
  BY DEF FromAt
<1>4. PICK n \in Nat : n = Passed /\ n \in {f + 3} \cup f + 5 .. f + 7
  BY <1>1, <1>3 DEF LineOK, PlaceOK
<1>5. LineRead(line, n, f, rule, clause) /\ p \in {NULL, "nolog"}
  BY <1>1, <1>3, <1>4 DEF LineOK, PlaceOK
<1>6. p = NULL => m = n
  BY <1>2, <1>4 DEF Passed
<1>7. p # NULL => m = n + 1 /\ p = line[m]
  <2>. SUFFICES ASSUME p # NULL PROVE m = n + 1 /\ p = line[m]
    OBVIOUS
  <2>1. n = m - 1 /\ p = line[m]
    BY <1>1, <1>2, <1>4 DEF LineOK, LastOK, Passed
  <2>2. n + 1 = m
    <3>1. \A x, y \in Nat : x = y - 1 => y = x + 1
      OBVIOUS
    <3>. QED
      BY <2>1, <3>1
  <2>. QED
    BY <2>1, <2>2
<1>8. (m = n /\ p = NULL) \/ (m = n + 1 /\ p = "nolog" /\ line[m] = "nolog")
  BY <1>5, <1>6, <1>7
<1>. QED
  BY <1>2, <1>3, <1>4, <1>5, <1>8

(* The word that stands for an option is in the loose set of its place. *)
LEMMA LooseOption ==
  ASSUME NEW l, NEW f \in {4, 6}, NEW r, r.kind \in Kinds, OptionRead(l, f + 5, f, r, "accepted"),
         l[f + 5] \in Words
  PROVE  r.kind # "udp" /\ l[f + 4] = KeyOf(r.kind) /\ l[f + 5] \in LooseArgs(r.kind)
PROOF
<1>. DEFINE w == l[f + 5]
<1>0. r.kind \in {"ip", "tcp", "udp", "icmp"}
  BY DEF Kinds, Tables, Transports
<1>1. r.kind # "udp" /\ l[f + 4] = KeyOf(r.kind)
  BY DEF OptionRead
<1>2. CASE r.kind = "ip"
  <2>1. Atoi(w) \in 1..255
    BY <1>2 DEF OptionRead
  <2>. QED
    BY <1>1, <1>2, <2>1 DEF LooseArgs, ArgsOf, Loose
<1>3. CASE r.kind = "tcp"
  <2>1. FlagsOK(w)
    BY <1>3 DEF OptionRead
  <2>2. w \in FlagWords \cup {""}
    BY <2>1 DEF FlagsOK, FlagWords
  <2>. QED
    BY <1>1, <1>3, <2>2 DEF LooseArgs, ArgsOf
<1>4. CASE r.kind = "icmp"
  <2>1. TypeIs(l, f + 5, f, r, "accepted")
    BY <1>4 DEF OptionRead
  <2>2. InRange(TypeOf(w), NULL, 255)
    BY <2>1 DEF TypeIs
  <2>3. w \in Loose(TypeWords) \cup DOMAIN Dotted
    <3>1. CASE w \notin DOMAIN Dotted
      <4>1. InRange(w, NULL, 255)
        BY <2>2, <3>1 DEF TypeOf
      <4>2. Atoi(w) \in 1..255 \/ w = "0"
        BY <4>1 DEF InRange
      <4>3. "0" \in TypeWords
        BY NumberAssumption DEF TypeWords, Byte
      <4>. QED
        BY <4>2, <4>3 DEF Loose
    <3>. QED
      BY <3>1
  <2>. QED
    BY <1>1, <1>4, <2>3 DEF LooseArgs, ArgsOf
<1>. QED
  BY <1>0, <1>1, <1>2, <1>3, <1>4

(* An address that parse_amp_str takes is a loose one. *)
LEMMA LooseWord ==
  ASSUME NEW w, NEW k, AmpOK(w, k)
  PROVE  w \in LooseAddr
PROOF
  BY AmpFields DEF LooseAddr

(* Words between the type and a point. *)
LEMMA SkippedWords ==
  ASSUME LineInv, NEW m \in Nat, m = Len(line), NEW f \in {4, 6}, NEW n \in f + 6 .. f + 7, n <= m,
         LineRead(line, n, f, rule, clause)
  PROVE  \E i \in 2..Len(line) : Skipped(i)
PROOF
<1>1. rule.kind \in {"ip", "tcp", "udp", "icmp"}
  BY DEF LineInv, RuleTypeOK, FltRules, Kinds, Tables, Transports
<1>2. OptionRead(line, n, f, rule, clause)
  BY DEF LineRead
<1>3. n >= f + 5 /\ n # f + 5 /\ n >= f + 4
  OBVIOUS
<1>4. rule.kind = "icmp" /\ line[f + 4] = "type" /\ TypeIs(line, n, f, rule, clause)
  BY <1>1, <1>2, <1>3 DEF OptionRead, KeyOf
<1>5. line[f + 5] \notin DOMAIN Dotted /\ line[n] \in DOMAIN Dotted
  BY <1>4 DEF TypeIs
<1>6. PICK i \in Nat : i = f + 5
  OBVIOUS
<1>7. i - 1 = f + 4 /\ i \in 2..m /\ n \in i + 1 .. m
  BY <1>6
<1>8. i \in 2..Len(line) /\ n \in i + 1 .. Len(line)
  BY <1>7
<1>9. line[i - 1] = "type" /\ line[i] \notin DOMAIN Dotted
  BY <1>4, <1>5, <1>7
<1>10. Skipped(i)
  BY <1>5, <1>8, <1>9 DEF Skipped
<1>. QED
  BY <1>8, <1>10

(* A line of which every word was read is a loose one. *)
LEMMA LooseLine ==
  ASSUME NEW f \in {4, 6}, NEW n \in {f + 3, f + 5}, NEW m \in Nat,
         NEW l, DOMAIN l = 1..m, \A i \in 1..m : l[i] \in Words,
         m = n \/ (m = n + 1 /\ l[m] = "nolog"), f = 6 <=> l[4] = "if",
         NEW r, r.kind \in Kinds, LineRead(l, n, f, r, "accepted")
  PROVE  IsLoose(l, m)
PROOF
<1>2. PICK k \in Kinds : k = r.kind
  OBVIOUS
<1>3. m \in f + 3 .. f + 6 /\ (m >= f + 5 => n = f + 5) /\ (m \in {f + 4, f + 6} => m = n + 1)
  OBVIOUS
<1>4. n >= 7 /\ n >= f + 3 /\ m >= 4 /\ m >= n
  OBVIOUS
<1>5. /\ l[1] \in Verdicts /\ l[2] = k /\ l[3] \in Directions
      /\ (f = 6 => Atoi(l[5]) \in 1..MaxIface)
  BY <1>2, <1>4 DEF LineRead, HeadRead
<1>7. f = 6 => l[5] \in Loose(Index)
  <2>1. f = 6 => l[5] \in Words
    BY <1>3
  <2>. QED
    BY <1>5, <2>1 DEF Loose, MaxIface
<1>8. l[f] = "from" /\ l[f + 2] = "to" /\ SrcIs(l[f + 1], r) /\ DstIs(l[f + 3], r)
  BY <1>2, <1>4 DEF LineRead, AddrsRead
<1>9. l[f + 1] \in LooseAddr /\ l[f + 3] \in LooseAddr
  BY <1>8, LooseWord DEF SrcIs, DstIs
<1>10. m >= f + 5 => k # "udp" /\ l[f + 4] = KeyOf(k) /\ l[f + 5] \in LooseArgs(k)
  <2>. SUFFICES ASSUME m >= f + 5 PROVE k # "udp" /\ l[f + 4] = KeyOf(k) /\ l[f + 5] \in LooseArgs(k)
    OBVIOUS
  <2>1. OptionRead(l, f + 5, f, r, "accepted")
    BY <1>2, <1>3 DEF LineRead
  <2>2. l[f + 5] \in Words
    BY <1>3
  <2>. QED
    BY <1>2, <2>1, <2>2, LooseOption
<1>11. m \in {f + 4, f + 6} => l[m] = "nolog"
  BY <1>2, <1>3
<1>12. FormLine(l, m, k, f, m, Loose(Index), LooseAddr, LooseArgs(k))
  BY <1>3, <1>4, <1>5, <1>7, <1>8, <1>9, <1>10, <1>11 DEF FormLine
<1>13. LooseRead(l, m, k, f)
  BY <1>2, <1>3, <1>12 DEF LooseRead
<1>. QED
  BY <1>13, LooseIs

(* What was taken and is not documented is lax only in the named places. *)
LEMMA LaxLine == LineInv => LaxOnlyInPlaces
PROOF
<1>. SUFFICES ASSUME LineInv PROVE LaxOnlyInPlaces
  OBVIOUS
<1>1. ASSUME clause = "accepted"
      PROVE  \/ \E form \in LooseForms : Len(form) = Len(line) /\ Fits(form)
             \/ \E i \in 2..Len(line) : Skipped(i)
  <2>1. PICK m \in Nat, n \in Nat, f \in {4, 6} :
           /\ m = Len(line) /\ f = FromAt /\ n \in {f + 3} \cup f + 5 .. f + 7
           /\ (m = n /\ p = NULL) \/ (m = n + 1 /\ p = "nolog" /\ line[m] = "nolog")
           /\ LineRead(line, n, f, rule, clause)
    BY <1>1, AcceptedLine
  <2>2. CASE n \in {f + 3, f + 5}
    <3>1. m = n \/ (m = n + 1 /\ line[m] = "nolog")
      BY <2>1
    <3>2. LineRead(line, n, f, rule, "accepted")
      BY <1>1, <2>1
    <3>3. DOMAIN line = 1..m /\ (\A i \in 1..m : line[i] \in Words) /\ rule.kind \in Kinds
      BY <2>1 DEF LineInv, RuleTypeOK, FltRules
    <3>4. f = 6 <=> line[4] = "if"
      <4>1. m >= 4
        BY <2>2, <3>1
      <4>. QED
        BY <2>1, <4>1 DEF FromAt
    <3>5. PICK l, r : l = line /\ r = rule
      OBVIOUS
    <3>7. IsLoose(l, m)
      BY <2>2, <3>1, <3>2, <3>3, <3>4, <3>5, LooseLine
    <3>6. PICK form \in LooseForms : Len(form) = m /\ \A i \in DOMAIN l : i \in DOMAIN form /\ l[i] \in form[i]
      BY <3>7 DEF IsLoose
    <3>. QED
      BY <2>1, <3>5, <3>6 DEF Fits
  <2>3. CASE n \in f + 6 .. f + 7
    <3>1. n <= m
      BY <2>1
    <3>. QED
      BY <2>1, <2>3, <3>1, SkippedWords
  <2>4. n \in {f + 3, f + 5} \/ n \in f + 6 .. f + 7
    <3>1. n \in {f + 3} \cup f + 5 .. f + 7
      BY <2>1
    <3>. QED
      BY <3>1
  <2>. QED
    BY <2>2, <2>3, <2>4
<1>2. Crashed
  BY DEF LineInv
<1>. QED
  BY <1>1, <1>2 DEF LaxOnlyInPlaces, Crashed

(* A line that parse_rule takes is a documented one but for the places in  *)
(* which the code is known to be lax: a clause passes only such words.     *)
THEOREM OnlyTheseAreLax == ParseSpec => []LaxOnlyInPlaces
PROOF
  BY LineInvariant, LaxLine, PTL
-----------------------------------------------------------------------------
(* Where the keywords of a documented line are. *)
Marks == {"if", "from", "to", "ipproto", "flags", "type", "nolog"}

(* No other word of a documented line is one of its keywords. *)
LEMMA NoMark ==
  /\ \A w \in Verdicts \cup Kinds \cup Directions : w \notin Marks
  /\ \A w \in Numerals : w \notin Marks
  /\ \A k : \A w \in Addrs(k) : w \notin Marks
  /\ \A k \in Kinds \ {"udp"} : \A w \in ArgWords(k) : w \notin Marks
PROOF
<1>0. Marks \subseteq Keywords
  BY DEF Marks, Keywords
<1>1. \A w \in Verdicts \cup Kinds \cup Directions : w \notin Marks
  BY DEF Verdicts, Kinds, Tables, Transports, Directions, Marks
<1>2. \A w \in Numerals : w \notin Marks
  BY <1>0, NumberAssumption
<1>3. \A k : \A w \in Addrs(k) : w \notin Marks
  <2>1. \A k : \A w \in Addrs(k) : w \in DOMAIN Address
    BY DEF Addrs, AnyAddr, IpAddr
  <2>. QED
    BY <1>0, <2>1, AddressAssumption
<1>4. \A w \in FlagWords : w \notin Marks
  BY <1>0, PartsAssumption DEF FlagWords
<1>5. \A w \in TypeWords : w \notin Marks
  BY <1>0, <1>2, PartsAssumption DEF TypeWords, Byte
<1>6. \A w \in ProtoNums : w \notin Marks
  BY <1>2 DEF ProtoNums
<1>7. ASSUME NEW k \in Kinds \ {"udp"}, NEW w \in ArgWords(k) PROVE w \notin Marks
  <2>1. k \in {"ip", "tcp", "icmp"}
    BY DEF Kinds, Tables, Transports
  <2>2. w \in ProtoNums \/ w \in FlagWords \/ w \in TypeWords
    BY <2>1 DEF ArgWords, ArgsOf
  <2>. QED
    BY <1>4, <1>5, <1>6, <2>2
<1>. QED
  BY <1>1, <1>2, <1>3, <1>7

(* A keyword stands at its place and nowhere else. *)
LEMMA MarkAt ==
  ASSUME NEW k \in Kinds, NEW f \in {4, 6}, NEW m \in f + 3 .. f + 6, NEW l,
         FormLine(l, m, k, f, m, Index, Addrs(k), ArgWords(k)),
         NEW i \in 1..m, l[i] \in Marks
  PROVE  \/ i = f \/ i = f + 2 \/ (f = 6 /\ i = 4)
         \/ (i = f + 4 /\ m >= f + 5) \/ (i = m /\ m \in {f + 4, f + 6})
PROOF
<1>1. l[1] \notin Marks /\ l[2] \notin Marks /\ l[3] \notin Marks
  BY NoMark DEF FormLine
<1>2. f = 6 => l[5] \notin Marks
  <2>1. f = 6 => l[5] \in Numerals
    BY DEF FormLine, Index
  <2>. QED
    BY <2>1, NoMark
<1>3. l[f + 1] \notin Marks /\ l[f + 3] \notin Marks
  <2>1. l[f + 1] \in Addrs(k) /\ l[f + 3] \in Addrs(k)
    BY DEF FormLine
  <2>. QED
    BY <2>1, NoMark
<1>4. m >= f + 5 => l[f + 5] \notin Marks
  <2>1. m >= f + 5 => k # "udp" /\ l[f + 5] \in ArgWords(k)
    BY DEF FormLine
  <2>. QED
    BY <2>1, NoMark
<1>5. i # 1 /\ i # 2 /\ i # 3 /\ (f = 6 => i # 5) /\ i # f + 1 /\ i # f + 3 /\ (m >= f + 5 => i # f + 5)
  BY <1>1, <1>2, <1>3, <1>4
<1>. QED
  BY <1>5

(* The word behind a keyword. *)
LEMMA AfterIs ==
  ASSUME NEW w, NEW j \in DOMAIN line, line[j] = w, \A i \in DOMAIN line : line[i] = w => i = j
  PROVE  Has(w) /\ After(w) = line[j + 1]
PROOF
<1>1. (CHOOSE i \in DOMAIN line : line[i] = w) = j
  OBVIOUS
<1>. QED
  BY <1>1 DEF Has, After

(* So the words behind the keywords are those of their places, and an      *)
(* option is there if its keyword is.                                      *)
LEMMA Marked ==
  ASSUME NEW k \in Kinds, NEW f \in {4, 6}, NEW m \in f + 3 .. f + 6, DOMAIN line = 1..m,
         FormLine(line, m, k, f, m, Index, Addrs(k), ArgWords(k))
  PROVE  /\ (Has("if") <=> f = 6) /\ (f = 6 => After("if") = line[5])
         /\ After("from") = line[f + 1] /\ After("to") = line[f + 3]
         /\ (Has("ipproto") <=> m >= f + 5 /\ k = "ip")
         /\ (Has("flags") <=> m >= f + 5 /\ k = "tcp")
         /\ (Has("type") <=> m >= f + 5 /\ k = "icmp")
         /\ (m >= f + 5 => k # "udp" /\ After(KeyOf(k)) = line[f + 5])
         /\ (Has("nolog") <=> m \in {f + 4, f + 6})
PROOF
<1>1. \A i \in 1..m : line[i] \in Marks =>
        \/ i = f \/ i = f + 2 \/ (f = 6 /\ i = 4)
        \/ (i = f + 4 /\ m >= f + 5) \/ (i = m /\ m \in {f + 4, f + 6})
  BY SMTT(30), MarkAt
<1>2. /\ line[f] = "from" /\ line[f + 2] = "to" /\ (f = 6 => line[4] = "if")
      /\ (m >= f + 5 => k # "udp" /\ line[f + 4] = KeyOf(k))
      /\ (m \in {f + 4, f + 6} => line[m] = "nolog")
  BY DEF FormLine
<1>3. k \in {"ip", "tcp", "udp", "icmp"}
  BY DEF Kinds, Tables, Transports
<1>4. m >= f + 5 => KeyOf(k) \in {"ipproto", "flags", "type"}
  BY <1>2, <1>3 DEF KeyOf
<1>5. \A i \in 1..m :
        /\ line[i] = "from" => i = f
        /\ line[i] = "to" => i = f + 2
        /\ line[i] = "if" => f = 6 /\ i = 4
        /\ line[i] \in {"ipproto", "flags", "type"} => i = f + 4 /\ m >= f + 5
        /\ line[i] = "nolog" => i = m /\ m \in {f + 4, f + 6}
  <2>. SUFFICES ASSUME NEW i \in 1..m
                PROVE  /\ line[i] = "from" => i = f
                       /\ line[i] = "to" => i = f + 2
                       /\ line[i] = "if" => f = 6 /\ i = 4
                       /\ line[i] \in {"ipproto", "flags", "type"} => i = f + 4 /\ m >= f + 5
                       /\ line[i] = "nolog" => i = m /\ m \in {f + 4, f + 6}
    OBVIOUS
  <2>1. CASE i = f
    BY <1>2, <2>1
  <2>2. CASE i = f + 2
    BY <1>2, <2>2
  <2>3. CASE f = 6 /\ i = 4
    BY <1>2, <2>3
  <2>4. CASE i = f + 4 /\ m >= f + 5
    BY <1>2, <1>4, <2>4
  <2>5. CASE i = m /\ m \in {f + 4, f + 6}
    BY <1>2, <2>5
  <2>6. CASE line[i] \notin Marks
    BY <2>6 DEF Marks
  <2>. QED
    BY <1>1, <2>1, <2>2, <2>3, <2>4, <2>5, <2>6
<1>6. f \in 1..m /\ f + 2 \in 1..m /\ 4 \in 1..m /\ (m >= f + 5 => f + 4 \in 1..m) /\ m \in 1..m
  OBVIOUS
<1>7. After("from") = line[f + 1]
  BY <1>2, <1>5, <1>6, AfterIs
<1>8. After("to") = line[f + 3]
  <2>1. f + 2 + 1 = f + 3
    OBVIOUS
  <2>. QED
    BY <1>2, <1>5, <1>6, <2>1, AfterIs
<1>9. f = 6 => Has("if") /\ After("if") = line[5]
  <2>1. 4 + 1 = 5
    OBVIOUS
  <2>. QED
    BY <1>2, <1>5, <1>6, <2>1, AfterIs
<1>10. m >= f + 5 => k # "udp" /\ Has(KeyOf(k)) /\ After(KeyOf(k)) = line[f + 5]
  <2>. SUFFICES ASSUME m >= f + 5 PROVE k # "udp" /\ Has(KeyOf(k)) /\ After(KeyOf(k)) = line[f + 5]
    OBVIOUS
  <2>1. f + 4 + 1 = f + 5
    OBVIOUS
  <2>2. \A i \in 1..m : line[i] = KeyOf(k) => i = f + 4
    BY <1>4, <1>5
  <2>3. k # "udp" /\ line[f + 4] = KeyOf(k) /\ f + 4 \in 1..m
    BY <1>2, <1>6
  <2>. QED
    BY <2>1, <2>2, <2>3, AfterIs
<1>11. \A w \in {"ipproto", "flags", "type"} : Has(w) => m >= f + 5 /\ w = KeyOf(k)
  <2>1. ASSUME NEW w \in {"ipproto", "flags", "type"}, NEW i \in 1..m, line[i] = w PROVE m >= f + 5 /\ w = KeyOf(k)
    BY <1>2, <1>5, <2>1
  <2>. QED
    BY <2>1 DEF Has
<1>12. Has("if") => f = 6
  BY <1>5 DEF Has
<1>13. Has("nolog") <=> m \in {f + 4, f + 6}
  BY <1>2, <1>5, <1>6 DEF Has
<1>14. /\ (k = "ip" => KeyOf(k) = "ipproto") /\ (k = "tcp" => KeyOf(k) = "flags") /\ (k = "icmp" => KeyOf(k) = "type")
       /\ (KeyOf(k) = "ipproto" => k = "ip") /\ (KeyOf(k) = "flags" => k = "tcp") /\ (KeyOf(k) = "type" => k = "icmp")
  BY <1>3 DEF KeyOf
<1>15. /\ (Has("ipproto") <=> m >= f + 5 /\ k = "ip")
       /\ (Has("flags") <=> m >= f + 5 /\ k = "tcp")
       /\ (Has("type") <=> m >= f + 5 /\ k = "icmp")
  BY <1>10, <1>11, <1>14
<1>. QED
  BY <1>7, <1>8, <1>9, <1>10, <1>12, <1>13, <1>15
-----------------------------------------------------------------------------
(* The bits of an address are those of its octets. *)
LEMMA BitIn ==
  ASSUME NEW host, \A k \in 1..4 : Octet(host[k]), NEW b \in Bits
  PROVE  b \in InetAddr(host) <=> BitOf(host, b)
PROOF
<1>1. \A k \in 1..4 : Atoi(host[k]) \in 0..255 /\ Atoi(host[k]) = Number[host[k]]
  BY OctetIs, NumeralIs DEF Octet
<1>2. InetAddr(host) = UNION {OctetBits(k, Atoi(host[k])) : k \in 1..4}
  BY <1>1 DEF InetAddr
<1>3. PICK k \in 1..4 : k = 4 - b \div 8
  <2>1. \A x \in 0..31 : x \div 8 \in 0..3
    OBVIOUS
  <2>. QED
    BY <2>1 DEF Bits
<1>4. b \in 8 * (4 - k) .. 8 * (4 - k) + 7 /\ b - 8 * (4 - k) = b % 8
  <2>1. PICK x \in 0..31 : x = b
    BY DEF Bits
  <2>2. PICK q \in 0..3, r \in 0..7 : q = x \div 8 /\ r = x % 8
    <3>1. \A y \in 0..31 : y \div 8 \in 0..3 /\ y % 8 \in 0..7
      OBVIOUS
    <3>. QED
      BY <3>1
  <2>3. x = 8 * q + r
    BY <2>2
  <2>4. 4 - k = q
    BY <1>3, <2>1, <2>2
  <2>5. b = 8 * q + r /\ b % 8 = r
    BY <2>1, <2>2, <2>3
  <2>. QED
    BY <2>4, <2>5
<1>5. \A j \in 1..4 : b \in 8 * (4 - j) .. 8 * (4 - j) + 7 => j = k
  BY <1>4
<1>6. b \in InetAddr(host) <=> b \in OctetBits(k, Atoi(host[k]))
  <2>1. \A j \in 1..4 : b \in OctetBits(j, Atoi(host[j])) => j = k
    BY <1>5 DEF OctetBits
  <2>. QED
    BY <1>2, <2>1
<1>7. b \in OctetBits(k, Atoi(host[k])) <=> (Number[host[k]] \div 2^(b % 8)) % 2 = 1
  BY <1>1, <1>4 DEF OctetBits
<1>. QED
  BY <1>3, <1>6, <1>7 DEF BitOf

(* Two sets agree on a mask where they agree bit by bit. *)
LEMMA MatchIs ==
  ASSUME NEW addr, NEW mask, NEW ip
  PROVE  AddrMatch(addr, mask, ip) <=> \A b \in mask : b \in addr <=> b \in ip
PROOF
  BY DEF AddrMatch

(* Comparing under the mask is lying in the network that the word names. *)
LEMMA NetMatch ==
  ASSUME NEW k \in Kinds, NEW w \in Addrs(k), NEW ip
  PROVE  AddrMatch(AmpAddr(w), AmpMask(w), ip) <=> InNet(w, ip)
PROOF
<1>. DEFINE a == Address[w]
<1>1. w \in DOMAIN Address /\ Parts(w) = a
  BY DEF Addrs, AnyAddr, IpAddr, Parts
<1>2. CASE w \in AnyAddr
  <2>1. AmpMask(w) = {}
    BY <1>1, <1>2 DEF AnyAddr, AmpMask
  <2>. QED
    BY <1>2, <2>1, MatchIs DEF InNet
<1>3. CASE w \notin AnyAddr
  <2>1. /\ Len(a.host) = 4 /\ (\A j \in 1..4 : Octet(a.host[j]))
        /\ a.mask = NULL \/ (a.mask \in Numerals /\ Number[a.mask] \in 0..32)
    BY <1>3 DEF Addrs, IpAddr
  <2>2. a.host # <<"any">>
    <3>1. Len(<<"any">>) = 1
      OBVIOUS
    <3>. QED
      BY <2>1, <3>1
  <2>3. AmpAddr(w) = InetAddr(a.host)
    BY <1>1, <2>2 DEF AmpAddr
  <2>4. PICK bits \in 0..32 : bits = IF a.mask = NULL THEN 32 ELSE Number[a.mask]
    BY <2>1
  <2>5. AmpMask(w) = (32 - bits)..31
    <3>1. CASE a.mask = NULL
      <4>1. bits = 32 /\ AmpMask(w) = Bits
        BY <1>1, <2>2, <2>4, <3>1 DEF AmpMask
      <4>. QED
        BY <4>1 DEF Bits
    <3>2. CASE a.mask # NULL
      <4>1. Atoi(a.mask) = bits
        BY <2>1, <2>4, <3>2, NumeralIs
      <4>2. AmpMask(w) = MaskOf[bits]
        BY <1>1, <2>2, <3>2, <4>1 DEF AmpMask
      <4>. QED
        BY <4>2, MaskOfIs
    <3>. QED
      BY <3>1, <3>2
  <2>6. \A b \in (32 - bits)..31 : b \in Bits
    BY DEF Bits
  <2>7. \A b \in (32 - bits)..31 : b \in AmpAddr(w) <=> BitOf(a.host, b)
    BY <2>1, <2>3, <2>6, BitIn
  <2>8. AddrMatch(AmpAddr(w), AmpMask(w), ip) <=> \A b \in (32 - bits)..31 : (BitOf(a.host, b) <=> b \in ip)
    BY <2>5, <2>7, MatchIs
  <2>. QED
    BY <1>3, <2>4, <2>8 DEF InNet
<1>. QED
  BY <1>2, <1>3

(* The comparison of ports. *)
LEMMA PortsMean ==
  ASSUME NEW k \in PortKinds, NEW w \in Addrs(k), NEW port \in Nat
  PROVE  PortMatch(PortOf(k, Parts(w).port), PortOf(k, Parts(w).port2), port) <=> PortIn(w, port)
PROOF
<1>0. PICK a : a = Address[w]
  OBVIOUS
<1>1. w \in DOMAIN Address /\ Parts(w) = a
  BY <1>0 DEF Addrs, AnyAddr, IpAddr, Parts
<1>2. a.port = NULL => a.port2 = NULL
  BY <1>0, <1>1, AddressAssumption
<1>3. /\ a.port = NULL \/ (a.port \in Numerals /\ Number[a.port] \in 1..MaxPort)
      /\ a.port2 = NULL \/ (a.port2 \in Numerals /\ Number[a.port2] \in Number[a.port]..MaxPort)
  BY <1>0, <1>2 DEF Addrs, AnyAddr, IpAddr
<1>4. CASE a.port = NULL
  <2>1. PortOf(k, a.port) = 0
    BY <1>4 DEF PortOf
  <2>. QED
    BY <1>0, <1>1, <1>4, <2>1 DEF PortMatch, PortIn
<1>5. CASE a.port # NULL /\ a.port2 = NULL
  <2>1. PICK x \in Int : x = Number[a.port] /\ x >= 1
    BY <1>3, <1>5, MaxPortNat
  <2>2. PortOf(k, a.port) = x /\ PortOf(k, a.port2) = 0
    BY <1>3, <1>5, <2>1, NumeralIs DEF PortOf
  <2>3. PortIn(w, port) <=> port \in x..x
    BY <1>0, <1>5, <2>1 DEF PortIn
  <2>4. PortMatch(x, 0, port) <=> port = x
    BY <2>1 DEF PortMatch
  <2>. QED
    BY <1>1, <2>1, <2>2, <2>3, <2>4
<1>6. CASE a.port # NULL /\ a.port2 # NULL
  <2>1. PICK x \in Int, y \in Int : x = Number[a.port] /\ x >= 1 /\ y = Number[a.port2] /\ y >= x
    BY <1>3, <1>6, MaxPortNat
  <2>2. PortOf(k, a.port) = x /\ PortOf(k, a.port2) = y
    BY <1>3, <1>6, <2>1, NumeralIs DEF PortOf
  <2>3. PortIn(w, port) <=> port \in x..y
    BY <1>0, <1>6, <2>1 DEF PortIn
  <2>4. PortMatch(x, y, port) <=> x <= port /\ port <= y
    BY <2>1 DEF PortMatch
  <2>. QED
    BY <1>1, <2>1, <2>2, <2>3, <2>4
<1>. QED
  BY <1>4, <1>5, <1>6

(* The comparison of flags, when at most one of them must be set. *)
LEMMA FlagsMean ==
  ASSUME NEW w \in FlagWords, NEW flags, Cardinality(With(w, "+")) <= 1
  PROVE  FlagsMatch(With(w, "+"), With(w, "-"), flags) <=>
           \A i \in DOMAIN Pairs[w] : LET pair == Pairs[w][i] IN (pair[1] \in flags) = (pair[2] = "+")
PROOF
<1>1. \A i \in DOMAIN Pairs[w] : Pairs[w][i] \in FlagNames \X {"+", "-"}
  BY DEF FlagWords
<1>2. IsFiniteSet(With(w, "+"))
  <2>1. IsFiniteSet(FlagNames)
    <3>1. FlagNames = {"F", "S", "R"} \cup {"P", "A", "U"}
      BY DEF FlagNames
    <3>2. \A a, b, c : IsFiniteSet({a, b, c})
      <4>. TAKE a, b, c
      <4>1. {a, b, c} = {a} \cup {b} \cup {c}
        OBVIOUS
      <4>2. IsFiniteSet({a}) /\ IsFiniteSet({b}) /\ IsFiniteSet({c})
        BY FS_Singleton
      <4>3. IsFiniteSet({a} \cup {b})
        BY <4>2, FS_Union
      <4>. QED
        BY ZenonT(40), <4>1, <4>2, <4>3, FS_Union
    <3>. QED
      BY <3>1, <3>2, FS_Union
  <2>2. With(w, "+") \subseteq FlagNames
    BY DEF With
  <2>. QED
    BY <2>1, <2>2, FS_Subset
<1>3. \A g, h \in With(w, "+") : g = h
  <2>. DEFINE S == With(w, "+")
  <2>. SUFFICES ASSUME NEW g \in S, NEW h \in S, g # h PROVE FALSE
    OBVIOUS
  <2>1. IsFiniteSet(S \ {g}) /\ Cardinality(S \ {g}) = Cardinality(S) - 1 /\ IsFiniteSet(S)
    BY <1>2, FS_RemoveElement
  <2>2. Cardinality(S) \in Nat /\ Cardinality(S \ {g}) \in Nat
    BY <2>1, FS_CardinalityType
  <2>3. Cardinality(S \ {g}) = 0
    BY <2>1, <2>2
  <2>4. S \ {g} = {}
    BY <2>1, <2>3, FS_EmptySet
  <2>. QED
    BY <2>4
<1>4. FlagsMatch(With(w, "+"), With(w, "-"), flags) <=>
        (\A g \in With(w, "+") : g \in flags) /\ (\A g \in With(w, "-") : g \notin flags)
  BY <1>3 DEF FlagsMatch
<1>5. ASSUME \A g \in With(w, "+") : g \in flags, \A g \in With(w, "-") : g \notin flags, NEW i \in DOMAIN Pairs[w]
      PROVE  (Pairs[w][i][1] \in flags) = (Pairs[w][i][2] = "+")
  <2>1. PICK g \in FlagNames, s \in {"+", "-"} : Pairs[w][i] = <<g, s>>
    BY <1>1
  <2>2. g \in With(w, s)
    BY <2>1 DEF With
  <2>. QED
    BY <1>5, <2>1, <2>2
<1>6. ASSUME \A i \in DOMAIN Pairs[w] : (Pairs[w][i][1] \in flags) = (Pairs[w][i][2] = "+")
      PROVE  (\A g \in With(w, "+") : g \in flags) /\ (\A g \in With(w, "-") : g \notin flags)
  <2>1. ASSUME NEW s \in {"+", "-"}, NEW g \in With(w, s) PROVE (g \in flags) = (s = "+")
    <3>1. PICK i \in DOMAIN Pairs[w] : Pairs[w][i] = <<g, s>>
      BY DEF With
    <3>. QED
      BY <1>6, <3>1
  <2>. QED
    BY <2>1
<1>. QED
  BY <1>4, <1>5, <1>6
-----------------------------------------------------------------------------
(* A documented line that was taken: what was read of it, to the last word. *)
LEMMA Taken ==
  ASSUME LineInv, clause = "accepted", Documented
  PROVE  \E k \in Kinds, f \in {4, 6}, m \in Nat :
           /\ m \in f + 3 .. f + 6 /\ DOMAIN line = 1..m /\ k = rule.kind
           /\ FormLine(line, m, k, f, m, Index, Addrs(k), ArgWords(k))
           /\ LineRead(line, IF m >= f + 5 THEN f + 5 ELSE f + 3, f, rule, "accepted")
           /\ (p = NULL <=> m \notin {f + 4, f + 6})
PROOF
<1>1. RuleTypeOK
  BY DEF LineInv
<1>2. PICK m \in Nat, n \in Nat, f \in {4, 6} :
         /\ m = Len(line) /\ f = FromAt /\ n \in {f + 3} \cup f + 5 .. f + 7
         /\ (m = n /\ p = NULL) \/ (m = n + 1 /\ p = "nolog" /\ line[m] = "nolog")
         /\ LineRead(line, n, f, rule, clause)
  BY AcceptedLine
<1>3. PICK mm \in Nat, k \in Kinds, ff \in {4, 6} :
         /\ mm = Len(line) /\ mm \in ff + 3 .. ff + 6
         /\ FormLine(line, mm, k, ff, mm, Index, Addrs(k), ArgWords(k))
  BY <1>1, DocumentedAs
<1>4. mm = m
  BY <1>2, <1>3
<1>5. ff = f
  <2>1. mm >= 4
    BY <1>3
  <2>2. ff = IF line[4] = "if" THEN 6 ELSE 4
    BY <1>3, <2>1, DocPlace
  <2>3. f = IF line[4] = "if" THEN 6 ELSE 4
    <3>1. Len(line) >= 4
      BY <1>3, <2>1
    <3>. QED
      BY <1>2, <3>1 DEF FromAt
  <2>. QED
    BY <2>2, <2>3
<1>6. m \in f + 3 .. f + 6 /\ FormLine(line, m, k, f, m, Index, Addrs(k), ArgWords(k))
  BY <1>3, <1>4, <1>5
<1>7. k = rule.kind
  <2>1. n >= 2 /\ m >= 2
    BY <1>2, <1>6
  <2>2. line[2] = k
    BY <1>6, <2>1 DEF FormLine
  <2>. QED
    BY <1>2, <2>1, <2>2 DEF LineRead, HeadRead
<1>8. n \in {f + 3, f + 5}
  <2>. SUFFICES ASSUME n \notin {f + 3, f + 5} PROVE FALSE
    OBVIOUS
  <2>1. n = f + 6 /\ m = n
    BY <1>2, <1>6
  <2>2. line[f + 6] = "nolog"
    BY <1>6, <2>1 DEF FormLine
  <2>3. k # "udp"
    BY <1>6, <2>1 DEF FormLine
  <2>4. n >= f + 5 /\ n # f + 5 /\ n > f + 5
    BY <2>1
  <2>5. k \in {"ip", "tcp", "icmp"}
    BY <2>3 DEF Kinds, Tables, Transports
  <2>6. TypeIs(line, n, f, rule, clause)
    BY <1>2, <1>7, <2>4, <2>5 DEF LineRead, OptionRead
  <2>7. line[n] \in DOMAIN Dotted
    BY <2>4, <2>6 DEF TypeIs
  <2>8. line[n] = "nolog"
    BY <2>1, <2>2
  <2>. QED
    BY <2>7, <2>8, PartsAssumption DEF Keywords
<1>9. n = IF m >= f + 5 THEN f + 5 ELSE f + 3
  BY <1>2, <1>6, <1>8
<1>10. p = NULL <=> m \notin {f + 4, f + 6}
  <2>1. "nolog" # NULL
    BY WordsAssumption DEF Keywords
  <2>2. (m = n /\ p = NULL) \/ (m = n + 1 /\ p = "nolog")
    BY <1>2
  <2>. QED
    BY <1>8, <2>1, <2>2
<1>11. DOMAIN line = 1..m
  BY <1>1, <1>2 DEF RuleTypeOK
<1>12. LineRead(line, IF m >= f + 5 THEN f + 5 ELSE f + 3, f, rule, "accepted")
  BY <1>2, <1>9
<1>. QED
  BY <1>6, <1>7, <1>10, <1>11, <1>12

(* The fields of the rule and the words of the line, in one comparison. *)
LEMMA OptionMeans ==
  ASSUME NEW k \in Kinds, NEW f \in {4, 6}, NEW m \in f + 3 .. f + 6, NEW r, k = r.kind,
         m >= f + 5 => k # "udp" /\ line[f + 5] \in ArgWords(k) /\ After(KeyOf(k)) = line[f + 5],
         OptionRead(line, IF m >= f + 5 THEN f + 5 ELSE f + 3, f, r, "accepted"),
         Has("ipproto") <=> m >= f + 5 /\ k = "ip",
         Has("flags") <=> m >= f + 5 /\ k = "tcp",
         Has("type") <=> m >= f + 5 /\ k = "icmp",
         OneSetFlag, NEW probe
  PROVE  /\ k = "ip" => ((r.useProto => r.proto = probe.proto)
                          <=> (Has("ipproto") => probe.proto = Number[After("ipproto")]))
         /\ k = "tcp" => (FlagsMatch(r.flagsSet, r.flagsUnset, probe.flags)
                           <=> (Has("flags") => \A i \in DOMAIN Pairs[After("flags")] :
                                  LET pair == Pairs[After("flags")][i] IN (pair[1] \in probe.flags) = (pair[2] = "+")))
         /\ k = "icmp" => (((r.useType => r.type = probe.type) /\ (r.useCode => r.code = probe.code))
                            <=> (Has("type") => /\ probe.type = Number[TypeOf(After("type"))]
                                                /\ After("type") \in DOMAIN Dotted => probe.code = Number[Dotted[After("type")][2]]))
PROOF
<1>1. CASE m < f + 5
  <2>1. NoOptions(r)
    <3>1. OptionRead(line, f + 3, f, r, "accepted") /\ f + 3 <= f + 4
      BY <1>1
    <3>. QED
      BY <3>1 DEF OptionRead
  <2>2. ~Has("ipproto") /\ ~Has("flags") /\ ~Has("type")
    BY <1>1
  <2>. QED
    BY <2>1, <2>2 DEF NoOptions, FlagsMatch
<1>2. CASE m >= f + 5
  <2>1. PICK w : w = line[f + 5]
    OBVIOUS
  <2>2. OptionRead(line, f + 5, f, r, "accepted") /\ w \in ArgWords(k) /\ After(KeyOf(k)) = w
    BY <1>2, <2>1
  <2>3. ASSUME k = "ip"
        PROVE  (r.useProto => r.proto = probe.proto) <=> (Has("ipproto") => probe.proto = Number[After("ipproto")])
    <3>1. After("ipproto") = w /\ w \in ProtoNums /\ Has("ipproto")
      BY <1>2, <2>2, <2>3 DEF KeyOf, ArgWords, ArgsOf
    <3>2. r.useProto /\ r.proto = Atoi(w)
      BY <2>1, <2>2, <2>3 DEF OptionRead
    <3>3. Atoi(w) = Number[w]
      BY <3>1, NumeralIs DEF ProtoNums
    <3>. QED
      BY <3>1, <3>2, <3>3
  <2>4. ASSUME k = "tcp"
        PROVE  FlagsMatch(r.flagsSet, r.flagsUnset, probe.flags)
                 <=> (Has("flags") => \A i \in DOMAIN Pairs[After("flags")] :
                        LET pair == Pairs[After("flags")][i] IN (pair[1] \in probe.flags) = (pair[2] = "+"))
    <3>1. After("flags") = w /\ w \in FlagWords /\ Has("flags")
      BY <1>2, <2>2, <2>4 DEF KeyOf, ArgWords, ArgsOf
    <3>2. r.flagsSet = With(w, "+") /\ r.flagsUnset = With(w, "-")
      BY <2>1, <2>2, <2>4 DEF OptionRead
    <3>3. Cardinality(With(w, "+")) <= 1
      BY <3>1 DEF OneSetFlag
    <3>. QED
      BY <3>1, <3>2, <3>3, FlagsMean
  <2>5. ASSUME k = "icmp"
        PROVE  ((r.useType => r.type = probe.type) /\ (r.useCode => r.code = probe.code))
                 <=> (Has("type") => /\ probe.type = Number[TypeOf(After("type"))]
                                     /\ After("type") \in DOMAIN Dotted => probe.code = Number[Dotted[After("type")][2]])
    <3>1. After("type") = w /\ w \in TypeWords /\ Has("type")
      BY <1>2, <2>2, <2>5 DEF KeyOf, ArgWords, ArgsOf
    <3>2. TypeIs(line, f + 5, f, r, "accepted")
      BY <2>2, <2>5 DEF OptionRead
    <3>3. /\ r.useType /\ r.type = Atoi(TypeOf(w))
          /\ w \notin DOMAIN Dotted => ~r.useCode
          /\ w \in DOMAIN Dotted => r.useCode /\ r.code = UChar(Atoi(Dotted[w][2]))
      BY <2>1, <3>2 DEF TypeIs
    <3>4. TypeOf(w) \in Byte
      <4>1. CASE w \in DOMAIN Dotted
        <5>1. w \notin Byte
          BY <4>1, PartsAssumption DEF Byte
        <5>. QED
          BY <3>1, <4>1, <5>1 DEF TypeWords, TypeOf
      <4>2. CASE w \notin DOMAIN Dotted
        BY <3>1, <4>2 DEF TypeWords, TypeOf
      <4>. QED
        BY <4>1, <4>2
    <3>5. r.type = Number[TypeOf(w)]
      BY <3>3, <3>4, NumeralIs DEF Byte
    <3>6. w \in DOMAIN Dotted => r.code = Number[Dotted[w][2]]
      <4>. SUFFICES ASSUME w \in DOMAIN Dotted PROVE r.code = Number[Dotted[w][2]]
        OBVIOUS
      <4>1. w \notin Byte
        BY PartsAssumption DEF Byte
      <4>2. Dotted[w][2] \in Byte
        BY <3>1, <4>1 DEF TypeWords
      <4>3. Atoi(Dotted[w][2]) = Number[Dotted[w][2]] /\ Number[Dotted[w][2]] \in 0..255
        BY <4>2, NumeralIs DEF Byte
      <4>4. \A x \in 0..255 : UChar(x) = x
        BY DEF UChar
      <4>. QED
        BY <3>3, <4>3, <4>4
    <3>. QED
      BY <3>1, <3>3, <3>5, <3>6
  <2>. QED
    BY <2>3, <2>4, <2>5
<1>. QED
  BY <1>1, <1>2
-----------------------------------------------------------------------------
(* The walk of filter.c over a documented line's rule, field by field. *)
LEMMA HeadMeans ==
  ASSUME NEW k \in Kinds, NEW f \in {4, 6}, NEW m \in f + 3 .. f + 6, NEW l,
         FormLine(l, m, k, f, m, Index, Addrs(k), ArgWords(k)),
         NEW n \in {f + 3, f + 5}, NEW r, HeadRead(l, n, f, r), AddrsRead(l, n, f, r), r.kind = k, NEW probe
  PROVE  /\ r.direction = l[3] /\ r.result = l[1]
         /\ (r.iface \in {0, probe.iface} <=> (f = 6 => probe.iface = Number[l[5]]))
         /\ (AddrMatch(r.src, r.srcMask, probe.src) <=> InNet(l[f + 1], probe.src))
         /\ (AddrMatch(r.dst, r.dstMask, probe.dst) <=> InNet(l[f + 3], probe.dst))
         /\ (k \in PortKinds /\ probe.srcPort \in Nat /\ probe.dstPort \in Nat =>
               (PortsMatch(r, probe) <=> PortIn(l[f + 1], probe.srcPort) /\ PortIn(l[f + 3], probe.dstPort)))
PROOF
<1>1. r.direction = l[3] /\ r.result = l[1]
  BY DEF HeadRead
<1>2. r.iface \in {0, probe.iface} <=> (f = 6 => probe.iface = Number[l[5]])
  <2>1. CASE f = 6
    <3>1. l[5] \in Index
      BY <2>1 DEF FormLine
    <3>2. Atoi(l[5]) = Number[l[5]]
      BY <3>1, NumeralIs DEF Index
    <3>3. Number[l[5]] \in 1..MaxIface
      BY <3>1 DEF Index
    <3>4. r.iface = Number[l[5]]
      BY <2>1, <3>2 DEF HeadRead
    <3>5. Number[l[5]] # 0
      BY <3>3 DEF MaxIface
    <3>. QED
      BY <2>1, <3>4, <3>5
  <2>2. CASE f = 4
    BY <2>2 DEF HeadRead
  <2>. QED
    BY <2>1, <2>2
<1>3. SrcIs(l[f + 1], r) /\ DstIs(l[f + 3], r) /\ l[f + 1] \in Addrs(k) /\ l[f + 3] \in Addrs(k)
  <2>1. SrcIs(l[f + 1], r) /\ DstIs(l[f + 3], r)
    BY DEF AddrsRead
  <2>2. l[f + 1] \in Addrs(k) /\ l[f + 3] \in Addrs(k)
    BY DEF FormLine
  <2>. QED
    BY <2>1, <2>2
<1>4. PICK v \in Addrs(k), w \in Addrs(k) : v = l[f + 1] /\ w = l[f + 3] /\ SrcIs(v, r) /\ DstIs(w, r)
  BY <1>3
<1>5. AddrMatch(r.src, r.srcMask, probe.src) <=> InNet(v, probe.src)
  BY <1>4, NetMatch DEF SrcIs
<1>6. AddrMatch(r.dst, r.dstMask, probe.dst) <=> InNet(w, probe.dst)
  BY <1>4, NetMatch DEF DstIs
<1>7. ASSUME k \in PortKinds, probe.srcPort \in Nat, probe.dstPort \in Nat
      PROVE  PortsMatch(r, probe) <=> PortIn(v, probe.srcPort) /\ PortIn(w, probe.dstPort)
  <2>1. r.srcPort1 = PortOf(k, Parts(v).port) /\ r.srcPort2 = PortOf(k, Parts(v).port2)
    BY <1>4 DEF SrcIs
  <2>2. r.dstPort1 = PortOf(k, Parts(w).port) /\ r.dstPort2 = PortOf(k, Parts(w).port2)
    BY <1>4 DEF DstIs
  <2>3. PortMatch(r.srcPort1, r.srcPort2, probe.srcPort) <=> PortIn(v, probe.srcPort)
    BY <1>4, <1>7, <2>1, PortsMean
  <2>4. PortMatch(r.dstPort1, r.dstPort2, probe.dstPort) <=> PortIn(w, probe.dstPort)
    BY <1>4, <1>7, <2>2, PortsMean
  <2>. QED
    BY <2>3, <2>4 DEF PortsMatch
<1>. QED
  BY <1>1, <1>2, <1>4, <1>5, <1>6, <1>7

(* The rule of a documented line that was taken compares as the line says. *)
LEMMA MeaningLine == LineInv => MeansWhatItSays
PROOF
<1>. SUFFICES ASSUME LineInv, clause = "accepted", Documented, OneSetFlag
              PROVE  /\ rule.result = line[1] /\ rule.log = ~Has("nolog")
                     /\ \A probe \in Probes : RuleMatches(rule, line[2], probe) <=> Says(probe)
  BY DEF MeansWhatItSays
<1>1. PICK k \in Kinds, f \in {4, 6}, m \in Nat :
           /\ m \in f + 3 .. f + 6 /\ DOMAIN line = 1..m /\ k = rule.kind
           /\ FormLine(line, m, k, f, m, Index, Addrs(k), ArgWords(k))
           /\ LineRead(line, IF m >= f + 5 THEN f + 5 ELSE f + 3, f, rule, "accepted")
           /\ (p = NULL <=> m \notin {f + 4, f + 6})
  BY Taken
<1>2. /\ (Has("if") <=> f = 6) /\ (f = 6 => After("if") = line[5])
      /\ After("from") = line[f + 1] /\ After("to") = line[f + 3]
      /\ (Has("ipproto") <=> m >= f + 5 /\ k = "ip")
      /\ (Has("flags") <=> m >= f + 5 /\ k = "tcp")
      /\ (Has("type") <=> m >= f + 5 /\ k = "icmp")
      /\ (m >= f + 5 => k # "udp" /\ After(KeyOf(k)) = line[f + 5])
      /\ (Has("nolog") <=> m \in {f + 4, f + 6})
  BY ZenonT(40), <1>1, Marked
<1>3. PICK n \in {f + 3, f + 5} : n = IF m >= f + 5 THEN f + 5 ELSE f + 3
  OBVIOUS
<1>4. HeadRead(line, n, f, rule) /\ AddrsRead(line, n, f, rule)
  BY <1>1, <1>3 DEF LineRead
<1>5. rule.log = ~Has("nolog")
  <2>1. rule.log = (p = NULL)
    BY DEF LineInv, LineOK, LogOK
  <2>. QED
    BY <1>1, <1>2, <2>1
<1>6. ASSUME NEW probe
      PROVE  /\ rule.direction = line[3] /\ rule.result = line[1]
             /\ (rule.iface \in {0, probe.iface} <=> (f = 6 => probe.iface = Number[line[5]]))
             /\ (AddrMatch(rule.src, rule.srcMask, probe.src) <=> InNet(line[f + 1], probe.src))
             /\ (AddrMatch(rule.dst, rule.dstMask, probe.dst) <=> InNet(line[f + 3], probe.dst))
             /\ (k \in PortKinds /\ probe.srcPort \in Nat /\ probe.dstPort \in Nat =>
                   (PortsMatch(rule, probe) <=> PortIn(line[f + 1], probe.srcPort) /\ PortIn(line[f + 3], probe.dstPort)))
  <2>1. PICK l, r : l = line /\ r = rule
    OBVIOUS
  <2>2. /\ FormLine(l, m, k, f, m, Index, Addrs(k), ArgWords(k))
        /\ HeadRead(l, n, f, r) /\ AddrsRead(l, n, f, r) /\ r.kind = k /\ m \in f + 3 .. f + 6
    BY <1>1, <1>4, <2>1
  <2>3. /\ r.direction = l[3] /\ r.result = l[1]
        /\ (r.iface \in {0, probe.iface} <=> (f = 6 => probe.iface = Number[l[5]]))
        /\ (AddrMatch(r.src, r.srcMask, probe.src) <=> InNet(l[f + 1], probe.src))
        /\ (AddrMatch(r.dst, r.dstMask, probe.dst) <=> InNet(l[f + 3], probe.dst))
        /\ (k \in PortKinds /\ probe.srcPort \in Nat /\ probe.dstPort \in Nat =>
              (PortsMatch(r, probe) <=> PortIn(l[f + 1], probe.srcPort) /\ PortIn(l[f + 3], probe.dstPort)))
    BY <1>1, <1>3, <2>2, HeadMeans
  <2>. QED
    BY <2>1, <2>3
<1>7. rule.result = line[1]
  BY <1>6
<1>8. line[2] = k
  BY <1>1 DEF FormLine
<1>9. ASSUME NEW probe \in Probes
      PROVE  RuleMatches(rule, line[2], probe) <=> Says(probe)
  <2>0. probe.srcPort \in Nat /\ probe.dstPort \in Nat
    BY PortsAssumption
  <2>. DEFINE proto == Has("ipproto") => probe.proto = Number[After("ipproto")]
              flags == Has("flags") => \A i \in DOMAIN Pairs[After("flags")] :
                         LET pair == Pairs[After("flags")][i] IN (pair[1] \in probe.flags) = (pair[2] = "+")
              type == Has("type") => /\ probe.type = Number[TypeOf(After("type"))]
                                     /\ After("type") \in DOMAIN Dotted => probe.code = Number[Dotted[After("type")][2]]
              ports == PortIn(After("from"), probe.srcPort) /\ PortIn(After("to"), probe.dstPort)
              ip == /\ probe.direction = line[3]
                    /\ Has("if") => probe.iface = Number[After("if")]
                    /\ InNet(After("from"), probe.src) /\ InNet(After("to"), probe.dst)
  <2>1. /\ k = "ip" => ((rule.useProto => rule.proto = probe.proto) <=> proto)
        /\ k = "tcp" => (FlagsMatch(rule.flagsSet, rule.flagsUnset, probe.flags) <=> flags)
        /\ k = "icmp" => (((rule.useType => rule.type = probe.type) /\ (rule.useCode => rule.code = probe.code)) <=> type)
    <3>1. OptionRead(line, IF m >= f + 5 THEN f + 5 ELSE f + 3, f, rule, "accepted")
      BY <1>1 DEF LineRead
    <3>2. m >= f + 5 => k # "udp" /\ line[f + 5] \in ArgWords(k) /\ After(KeyOf(k)) = line[f + 5]
      BY <1>1, <1>2 DEF FormLine
    <3>. QED
      BY <1>1, <1>2, <3>1, <3>2, OptionMeans
  <2>2. IpMatch(rule, probe) <=> ip
    <3>1. (f = 6 => probe.iface = Number[line[5]]) <=> (Has("if") => probe.iface = Number[After("if")])
      BY <1>2
    <3>. QED
      BY <1>2, <1>6, <3>1 DEF IpMatch
  <2>3. k \in PortKinds => (PortsMatch(rule, probe) <=> ports)
    BY <1>2, <1>6, <2>0
  <2>4. Says(probe) <=> ip /\ (k \in PortKinds => ports) /\ proto /\ flags /\ type
    BY <1>1 DEF Says
  <2>5. /\ (k # "ip" => proto) /\ (k # "tcp" => flags) /\ (k # "icmp" => type)
    BY <1>2
  <2>6. RuleMatches(rule, line[2], probe) <=>
          CASE k = "ip"   -> MatchIp(rule, probe)
            [] k = "tcp"  -> MatchTcp(rule, probe)
            [] k = "udp"  -> MatchUdp(rule, probe)
            [] k = "icmp" -> MatchIcmp(rule, probe)
    BY <1>1, <1>8 DEF RuleMatches
  <2>. HIDE DEF proto, flags, type, ports, ip
  <2>7. CASE k = "ip"
    BY <2>1, <2>2, <2>4, <2>5, <2>6, <2>7 DEF MatchIp, PortKinds
  <2>8. CASE k = "tcp"
    BY <2>1, <2>2, <2>3, <2>4, <2>5, <2>6, <2>8 DEF MatchTcp, PortKinds
  <2>9. CASE k = "udp"
    BY <2>1, <2>2, <2>3, <2>4, <2>5, <2>6, <2>9 DEF MatchUdp, PortKinds
  <2>10. CASE k = "icmp"
    BY <2>1, <2>2, <2>4, <2>5, <2>6, <2>10 DEF MatchIcmp, PortKinds
  <2>11. k \in {"ip", "tcp", "udp", "icmp"}
    BY DEF Kinds, Tables, Transports
  <2>. QED
    BY <2>7, <2>8, <2>9, <2>10, <2>11
<1>. QED
  BY <1>5, <1>7, <1>9

(* For every packet, the rule that parse_rule makes of a documented line   *)
(* matches as the words of the line say: addresses bit by bit under the    *)
(* mask, ports, flags, type and code, interface and direction.             *)
THEOREM RuleMeansWhatItSays == ParseSpec => []MeansWhatItSays
PROOF
  BY LineInvariant, MeaningLine, PTL
=============================================================================
