------------------------------ MODULE AuditLog ------------------------------
(***************************************************************************)
(* AuditLog: the audit trail that threads append to.  A record goes to the *)
(* log file and to a bounded list in memory, both under m_mutex, and then  *)
(* to a callback, outside it.  logAction() looks at the two flags before   *)
(* it takes the mutex, so that init(), setEnabled() and shutdown() may run *)
(* between the look and the record.                                        *)
(*                                                                         *)
(* A critical section is one step.  The calls that pass the look are       *)
(* numbered per thread; everything else a record says is left out.         *)
(*                                                                         *)
(* A write to the file may fail, the disk being full.  Nobody looks at the *)
(* stream: it stays failed, and the file open, until init() opens it anew, *)
(* and every record written meanwhile goes to the list only.  The first of *)
(* them may still be in the stream's buffer, whole, and a later flush()    *)
(* may write it after all.  A record of which the file holds a part counts *)
(* as one that it lacks; what close() flushes is left out.                 *)
(***************************************************************************)
EXTENDS Naturals, Sequences

CONSTANTS
  Threads,    \* the threads that call logAction()
  Sizes,      \* the maxEntries that init() may be given
  InitFails,  \* init() may fail to create the directory or open the file
  DiskFills,  \* a write to the file may fail
  MaxCalls,   \* bound: logAction() calls of a thread that pass the look
  MaxOps      \* bound: calls of init(), setEnabled(), setAuditCallback(), shutdown()

ASSUME SizesAssumption == Sizes \subseteq Nat \ {0}
ASSUME ThreadsAssumption == "SYSTEM" \notin Threads
ASSUME BoundsAssumption == MaxCalls \in Nat /\ MaxOps \in Nat /\ {InitFails, DiskFills} \subseteq BOOLEAN

VARIABLES
  enabled,      \* m_enabled
  initialized,  \* m_initialized
  maxEntries,   \* m_maxEntries
  open,         \* m_logFile.is_open()
  good,         \* m_logFile.good(): no write has failed since the file was opened
  disk,         \* the records in the file since it was last opened
  buffer,       \* the record that a failed stream still holds, if it does
  lost,         \* how many of the newest records the file lacks
  entries,      \* m_entries
  callback,     \* m_callback is set
  pc,           \* pc[t]: where t is in logAction()
  calls,        \* calls[t]: calls of t that have passed the look
  told,         \* the records the callback has been given, in order
  ops           \* control calls so far

file == <<good, disk, buffer, lost>>
logVars == <<enabled, initialized, maxEntries, open, file, entries>>
vars == <<logVars, callback, pc, calls, told, ops>>

(* A record: its author and the number of the author's call; the records   *)
(* the log writes about itself have no number.                             *)
Entry == [who : Threads \union {"SYSTEM"}, n : Nat]
SystemEntry == [who |-> "SYSTEM", n |-> 0]
EntryOf(t) == [who |-> t, n |-> calls[t]]

TypeOK ==
  /\ enabled \in BOOLEAN /\ initialized \in BOOLEAN /\ open \in BOOLEAN
  /\ maxEntries \in Nat \ {0}
  /\ good \in BOOLEAN /\ lost \in Nat
  /\ disk \in Seq(Entry) /\ entries \in Seq(Entry) /\ told \in Seq(Entry)
  /\ buffer \in Seq(Entry) /\ Len(buffer) <= 1
  /\ callback \in BOOLEAN
  /\ pc \in [Threads -> {"idle", "lock", "look", "call"}]
  /\ calls \in [Threads -> Nat]
  /\ ops \in Nat

(* Deviant of Init: a constructor that leaves the size to init().          *)
InitWithoutSize ==
  /\ enabled = FALSE /\ initialized = FALSE /\ open = FALSE
  /\ maxEntries = 0
  /\ good = TRUE /\ disk = <<>> /\ buffer = <<>> /\ lost = 0
  /\ entries = <<>> /\ told = <<>>
  /\ callback = FALSE
  /\ pc = [t \in Threads |-> "idle"]
  /\ calls = [t \in Threads |-> 0]
  /\ ops = 0

(* The constructor.                                                        *)
Init ==
  /\ enabled = FALSE /\ initialized = FALSE /\ open = FALSE
  /\ maxEntries = 1000
  /\ good = TRUE /\ disk = <<>> /\ buffer = <<>> /\ lost = 0
  /\ entries = <<>> /\ told = <<>>
  /\ callback = FALSE
  /\ pc = [t \in Threads |-> "idle"]
  /\ calls = [t \in Threads |-> 0]
  /\ ops = 0

-----------------------------------------------------------------------------
(* The oldest record makes room when the list is full.  A list that is     *)
(* longer than max loses one record only.                                  *)
Pushed(list, max, e) == Append(IF Len(list) >= max THEN Tail(list) ELSE list, e)

(* The write that fails, and the record it leaves in the buffer, if any.   *)
FirstFailure(e) ==
  /\ DiskFills
  /\ good' = FALSE
  /\ buffer' \in {<<>>, <<e>>}
  /\ lost' = 1

(* A failed stream takes nothing; the flush may write what it held.        *)
WriteInVain ==
  /\ \/ disk' = disk /\ buffer' = buffer /\ lost' = lost + 1
     \/ buffer # <<>> /\ disk' = disk \o buffer /\ buffer' = <<>> /\ lost' = lost
  /\ UNCHANGED good

(* Deviant of WriteToFile: the stream's state is cleared before each write.*)
WriteToFileCleared(e) ==
  \/ ~open /\ UNCHANGED file
  \/ open /\ disk' = Append(disk, e) /\ good' = TRUE /\ lost' = 0 /\ buffer' = <<>>
  \/ open /\ FirstFailure(e) /\ UNCHANGED disk

(* Nothing is written to a file that is not open.                          *)
WriteToFile(e) ==
  \/ ~open /\ UNCHANGED file
  \/ open /\ good /\ disk' = Append(disk, e) /\ UNCHANGED <<good, buffer, lost>>
  \/ open /\ good /\ FirstFailure(e) /\ UNCHANGED disk
  \/ open /\ ~good /\ WriteInVain

(* A new stream: its header and the first record are written, or not.      *)
OpenFile(e) ==
  /\ open' = TRUE
  /\ \/ good' = TRUE /\ disk' = <<e>> /\ buffer' = <<>> /\ lost' = 0
     \/ FirstFailure(e) /\ disk' = <<>>

ControlCall ==
  /\ ops < MaxOps
  /\ ops' = ops + 1
  /\ UNCHANGED <<pc, calls, told>>

(* init(): the settings are stored and an open file is closed before       *)
(* anything can fail.                                                      *)
InitLog(max, on) ==
  /\ ControlCall
  /\ maxEntries' = max
  /\ enabled' = on
  /\ \/ /\ InitFails
        /\ open' = FALSE
        /\ UNCHANGED <<initialized, file, entries>>
     \/ /\ OpenFile(SystemEntry)
        /\ initialized' = TRUE
        /\ entries' = Pushed(entries, max, SystemEntry)
  /\ UNCHANGED callback

SetEnabled(on) ==
  /\ ControlCall
  /\ on # enabled
  /\ enabled' = on
  /\ IF initialized /\ on
       THEN /\ WriteToFile(SystemEntry)
            /\ entries' = Pushed(entries, maxEntries, SystemEntry)
       ELSE UNCHANGED <<file, entries>>
  /\ UNCHANGED <<initialized, maxEntries, open, callback>>

SetAuditCallback(set) ==
  /\ ControlCall
  /\ callback' = set
  /\ UNCHANGED logVars

Shutdown ==
  /\ ControlCall
  /\ initialized
  /\ IF enabled THEN WriteToFile(SystemEntry) ELSE UNCHANGED file
  /\ open' = FALSE
  /\ entries' = <<>>
  /\ initialized' = FALSE
  /\ UNCHANGED <<enabled, maxEntries, callback>>

-----------------------------------------------------------------------------
(* logAction()                                                             *)

Goto(t, from, to) == pc[t] = from /\ pc' = [pc EXCEPT ![t] = to]

(* The flags are read without the mutex; a call that finds one of them     *)
(* low returns.                                                            *)
Look(t) ==
  /\ calls[t] < MaxCalls
  /\ enabled /\ initialized
  /\ Goto(t, "idle", "lock")
  /\ calls' = [calls EXCEPT ![t] = @ + 1]
  /\ UNCHANGED <<logVars, callback, told, ops>>

(* Deviants of Record: a full list drops its newest record in place of its *)
(* oldest; the size is tested off by one.                                  *)
RecordDropsNewest(t) ==
  /\ Goto(t, "lock", "look")
  /\ WriteToFile(EntryOf(t))
  /\ entries' = Append(IF Len(entries) < maxEntries THEN entries
                      ELSE SubSeq(entries, 1, Len(entries) - 1), EntryOf(t))
  /\ UNCHANGED <<enabled, initialized, maxEntries, open, callback, calls, told, ops>>

RecordOverfills(t) ==
  /\ Goto(t, "lock", "look")
  /\ WriteToFile(EntryOf(t))
  /\ entries' = Pushed(entries, maxEntries + 1, EntryOf(t))
  /\ UNCHANGED <<enabled, initialized, maxEntries, open, callback, calls, told, ops>>

(* The critical section: the flags are not looked at again.                *)
Record(t) ==
  /\ Goto(t, "lock", "look")
  /\ WriteToFile(EntryOf(t))
  /\ entries' = Pushed(entries, maxEntries, EntryOf(t))
  /\ UNCHANGED <<enabled, initialized, maxEntries, open, callback, calls, told, ops>>

(* if (m_callback): read without the mutex.                                *)
LookForCallback(t) ==
  /\ Goto(t, "look", IF callback THEN "call" ELSE "idle")
  /\ UNCHANGED <<logVars, callback, calls, told, ops>>

(* Deviant of CallBack: a callback that throws is called again.            *)
CallBackRetries(t) ==
  /\ \E to \in {"call", "idle"} : Goto(t, "call", to)
  /\ told' = IF callback THEN Append(told, EntryOf(t)) ELSE told
  /\ UNCHANGED <<logVars, callback, calls, ops>>

(* A callback that was taken away after the look throws bad_function_call, *)
(* which is caught.                                                        *)
CallBack(t) ==
  /\ Goto(t, "call", "idle")
  /\ told' = IF callback THEN Append(told, EntryOf(t)) ELSE told
  /\ UNCHANGED <<logVars, callback, calls, ops>>

-----------------------------------------------------------------------------
Control ==
  \/ \E max \in Sizes, on \in BOOLEAN : InitLog(max, on)
  \/ \E b \in BOOLEAN : SetEnabled(b) \/ SetAuditCallback(b)
  \/ Shutdown

LogAction(t) == Look(t) \/ Record(t) \/ LookForCallback(t) \/ CallBack(t)

Next == Control \/ \E t \in Threads : LogAction(t)

Spec == Init /\ [][Next]_vars

(* getRecentEntries                                                        *)
RecentEntries(count) ==
  IF ~enabled \/ ~initialized THEN <<>>
  ELSE IF count >= Len(entries) THEN entries
  ELSE SubSeq(entries, Len(entries) - count + 1, Len(entries))
-----------------------------------------------------------------------------
(* Properties                                                              *)

(* The list never holds more than m_maxEntries records ("maximum number of *)
(* entries kept in memory"), when init() is always given the same one.     *)
MemoryBounded == Len(entries) <= maxEntries

(* While the file is open it has no hole.  It lacks none but the newest    *)
(* `lost` records, and none at all if every write since it was opened has  *)
(* succeeded; before those it agrees with the list, from the newest record *)
(* backwards, as far as both reach, whatever control calls and failed      *)
(* writes came in between (logAction's writes to m_logFile and m_entries). *)
MemoryMirrorsFile ==
  open =>
    /\ good => lost = 0
    /\ \A k \in 0 .. Len(disk) - 1 :
         lost + k < Len(entries) =>
           entries[Len(entries) - lost - k] = disk[Len(disk) - k]

(* No call of a thread is missing between two of its calls: a reader who   *)
(* asks for the recent entries gets them without gaps and in the order of  *)
(* the calls (ConcurrentAudit and GetRecentEntries in audit_tests.cpp).    *)
Gapless(list) ==
  \A i, j \in 1 .. Len(list) :
    i < j /\ list[i].who = list[j].who /\ list[i].who \in Threads =>
      /\ list[i].n < list[j].n
      /\ \A n \in list[i].n + 1 .. list[j].n - 1 :
           \E k \in i + 1 .. j - 1 : list[k] = [who |-> list[i].who, n |-> n]

NoGaps == \A count \in 0 .. Len(entries) : Gapless(RecentEntries(count))

(* The callback is told of each record at most once, and of a thread's     *)
(* records in the order of its calls.                                      *)
ToldOnceInOrder ==
  \A i, j \in 1 .. Len(told) :
    i < j /\ told[i].who = told[j].who => told[i].n < told[j].n
=============================================================================
