------------------------------ MODULE LogQueue ------------------------------
(***************************************************************************)
(* The log of ndis_flt (ndis_flt/log.c): open_log, log_str, which writes   *)
(* to the file, log_str_dispatch, which writes into a ring under a spin    *)
(* lock at any IRQL, the thread that writes the ring to the file, and      *)
(* close_log.  DriverLife says when each of them is called.                *)
(*                                                                         *)
(* What is done between KeAcquireSpinLock and KeReleaseSpinLock is one     *)
(* step; setting the event is a step of its own, after the lock is free.   *)
(* A message is its number in the order of the calls.  The lines of the    *)
(* file are messages, SKIP counts and notes that others write.             *)
(***************************************************************************)
EXTENDS Machine, Sequences

CONSTANTS
  Size,       \* LOG_QUEUE_SIZE
  Producers,  \* processors that call log_str_dispatch
  MaxMsg      \* bound: so many messages are logged

ASSUME SizeAssumption == Size \in Nat /\ Size > 1
ASSUME MaxMsgAssumption == MaxMsg \in Nat

VARIABLES
  data, head, tail,  \* g_queue: write to head, read from tail
  event,             \* g_queue.write_event, which resets itself
  exit,              \* g_queue.b_exit
  next,              \* number of the next message
  signal,            \* producers that have yet to set the event
  logger, entry,     \* logger_thread: where it is, and its copy of an entry
  closer,            \* close_log: where it is
  logFile,           \* g_log_file: "none" or "open"
  memory,            \* what g_queue.data points to: "none", "allocated" or "freed"
  file               \* lines written: [msg |-> n], [skip |-> n] or [note |-> s]

ring    == <<data, head, tail, next>>
opened  == <<logFile, memory>>
logVars == <<ring, event, exit, signal, logger, entry, closer, opened, file>>

Slots   == 0..Size - 1
Entries == [msg : 0..MaxMsg, skipped : Nat]
NextSlot(i) == (i + 1) % Size

LogInit ==
  /\ data = [i \in Slots |-> [msg |-> 0, skipped |-> 0]]
  /\ head = 0 /\ tail = 0 /\ next = 1
  /\ event = FALSE /\ exit = FALSE /\ signal = {}
  /\ logger = "none" /\ entry = [msg |-> 0, skipped |-> 0]
  /\ closer = "open" /\ logFile = "none" /\ memory = "none" /\ file = <<>>
-----------------------------------------------------------------------------
Note(s) == <<[note |-> s]>>

(* log_str: nothing is written when the file is not open. *)
LogStr(lines) == file' = IF logFile = "open" THEN file \o lines ELSE file

(* open_log, called before anybody logs.  What a later failure leaves of   *)
(* the earlier steps stays.                                                *)
OpenLog ==
  /\ logFile' = "open" /\ file' = Note("begin")
  /\ memory' = "allocated" /\ logger' = "wait" /\ Succeeds
  /\ UNCHANGED <<ring, event, exit, signal, entry, closer>>

OpenLogFails ==
  /\ \/ Fails("logfile") /\ UNCHANGED <<opened, file>>
     \/ Fails("ring") /\ logFile' = "open" /\ file' = Note("begin") /\ UNCHANGED memory
     \/ Fails("logthread") /\ logFile' = "open" /\ file' = Note("begin") /\ memory' = "freed"
  /\ UNCHANGED <<ring, event, exit, signal, logger, entry, closer>>
-----------------------------------------------------------------------------
(* The ring is read and written through g_queue.data. *)
TouchRing == CrashIf(memory # "allocated")

(* log_str_dispatch. *)
Full == NextSlot(head) = tail

Carry_bug == 1                               \* forgets what the lost entry carried
Carry     == data[tail].skipped + 1

HeadSlot_bug == NextSlot(head)               \* writes after moving the head
HeadSlot     == head

Put(p) ==
  /\ p \notin signal /\ next <= MaxMsg /\ TouchRing
  /\ data' = [data EXCEPT ![HeadSlot] =
                [msg |-> next, skipped |-> IF Full THEN Carry ELSE 0]]
  /\ head' = NextSlot(head)
  /\ tail' = IF Full THEN NextSlot(tail) ELSE tail
  /\ next' = next + 1
  /\ signal' = signal \cup {p}
  /\ UNCHANGED <<event, exit, logger, entry, closer, opened, file>>

SetEvent(p) ==
  /\ p \in signal /\ CrashIf(FALSE)
  /\ signal' = signal \ {p}
  /\ event' = TRUE
  /\ UNCHANGED <<ring, exit, logger, entry, closer, opened, file>>
-----------------------------------------------------------------------------
(* logger_thread: it looks at b_exit only when it has been woken, then     *)
(* drains the ring to the last entry.                                      *)
Wake ==
  /\ logger = "wait" /\ event /\ CrashIf(FALSE)
  /\ event' = FALSE
  /\ logger' = IF exit THEN "exited" ELSE "drain"
  /\ UNCHANGED <<ring, exit, signal, entry, closer, opened, file>>

Take ==
  /\ logger = "drain" /\ head # tail /\ TouchRing
  /\ entry' = data[tail]
  /\ tail' = NextSlot(tail)
  /\ logger' = "write"
  /\ UNCHANGED <<data, head, next, event, exit, signal, closer, opened, file>>

Drained_bug == logger' = "exited"            \* leaves instead of waiting again
Drained     == logger' = "wait"

Empty ==
  /\ logger = "drain" /\ head = tail /\ CrashIf(FALSE)
  /\ Drained
  /\ UNCHANGED <<ring, event, exit, signal, entry, closer, opened, file>>

(* log_str for the SKIP line, if any, and log_str for the entry. *)
Write ==
  /\ logger = "write" /\ CrashIf(FALSE)
  /\ LogStr((IF entry.skipped = 0 THEN <<>> ELSE <<[skip |-> entry.skipped]>>)
              \o <<[msg |-> entry.msg]>>)
  /\ logger' = "drain"
  /\ UNCHANGED <<ring, event, exit, signal, entry, closer, opened>>
-----------------------------------------------------------------------------
(* close_log: it does not wait for the ring to be written. *)
NotOpen ==
  /\ closer = "open" /\ logFile = "none"
  /\ closer' = "closed" /\ CrashIf(FALSE)
  /\ UNCHANGED <<ring, event, exit, signal, logger, entry, opened, file>>

SetExit ==
  /\ closer = "open" /\ logFile = "open"
  /\ exit' = TRUE
  /\ closer' = "wake" /\ CrashIf(FALSE)
  /\ UNCHANGED <<ring, event, signal, logger, entry, opened, file>>

WakeLogger_bug == UNCHANGED event            \* KeSetEvent forgotten
WakeLogger     == event' = TRUE

WakeUp ==
  /\ closer = "wake"
  /\ WakeLogger
  /\ closer' = "join" /\ CrashIf(FALSE)
  /\ UNCHANGED <<ring, exit, signal, logger, entry, opened, file>>

(* The wait returns at once when there is no thread. *)
LoggerGone == logger \in {"none", "exited"}

Join ==
  /\ closer = "join" /\ LoggerGone
  /\ closer' = "free" /\ CrashIf(FALSE)
  /\ UNCHANGED <<ring, event, exit, signal, logger, entry, opened, file>>

(* The ring is freed whatever g_queue.data is. *)
FreeRing ==
  /\ closer = "free"
  /\ CrashIf(memory # "allocated")
  /\ memory' = "freed" /\ closer' = "end"
  /\ UNCHANGED <<ring, event, exit, signal, logger, entry, logFile, file>>

WriteEnd ==
  /\ closer = "end"
  /\ file' = file \o Note("end") /\ logFile' = "none"
  /\ closer' = "closed" /\ CrashIf(FALSE)
  /\ UNCHANGED <<ring, event, exit, signal, logger, entry, memory>>

Logger   == Wake \/ Take \/ Empty \/ Write
CloseLog == NotOpen \/ SetExit \/ WakeUp \/ Join \/ FreeRing \/ WriteEnd
-----------------------------------------------------------------------------
Count     == (head + Size - tail) % Size
SlotOf(i) == (tail + i - 1) % Size
Queued    == [i \in 1..Count |-> data[SlotOf(i)]]

InHand       == IF logger = "write" THEN <<entry>> ELSE <<>>
Numbers(s)   == [i \in DOMAIN s |-> s[i].msg]

(* The messages among lines of the file, and the total of a sequence.      *)
IsMsg(line)  == "msg" \in DOMAIN line
Written(lines) ==
  LET written[n \in 0..Len(lines)] ==
        IF n = 0 THEN <<>>
        ELSE IF IsMsg(lines[n]) THEN Append(written[n - 1], lines[n].msg) ELSE written[n - 1]
  IN  written[Len(lines)]
Total(s) ==
  LET total[n \in 0..Len(s)] == IF n = 0 THEN 0 ELSE total[n - 1] + s[n] IN total[Len(s)]

SkipOf(line)     == IF "skip" \in DOMAIN line THEN line.skip ELSE 0
SkipLines(lines) == Total([i \in DOMAIN lines |-> SkipOf(lines[i])])
Skips(s)         == Total([i \in DOMAIN s |-> s[i].skipped])

LogTypeOK ==
  /\ data \in [Slots -> Entries] /\ head \in Slots /\ tail \in Slots
  /\ next \in 1..MaxMsg + 1
  /\ event \in BOOLEAN /\ exit \in BOOLEAN /\ signal \subseteq Producers
  /\ logger \in {"none", "wait", "drain", "write", "exited"} /\ entry \in Entries
  /\ closer \in {"open", "wake", "join", "free", "end", "closed"}
  /\ logFile \in {"none", "open"} /\ memory \in {"none", "allocated", "freed"}

(* An overflow rejects the oldest entry and nothing else: the ring always  *)
(* holds the newest messages, consecutive up to the last one logged.       *)
KeepsNewest == \A i \in 1..Count : Queued[i].msg = next - 1 - Count + i

(* The ring implements a queue of Size - 1 entries that drops the oldest,  *)
(* and the SKIP lines account for every message that was dropped: those in *)
(* the file, in the logger's hand and still carried by queued entries.     *)
Abs == INSTANCE DropOldest
         WITH Capacity <- Size - 1,
              queue <- Numbers(Queued),
              taken <- Written(file) \o Numbers(InHand),
              lost  <- SkipLines(file) + Skips(InHand) + Skips(Queued)
DropsOldest == Abs!Spec

(* A message that was logged is written or counted as skipped, unless the  *)
(* log is closed first: no wakeup is lost between the producers' event and *)
(* the thread that drains the ring.                                        *)
EventuallyWritten ==
  \A m \in 1..MaxMsg : next > m ~> exit \/ \A i \in 1..Count : Queued[i].msg # m
=============================================================================
