--------------------------- MODULE AuditLog_proofs ---------------------------
(***************************************************************************)
(* Type correctness, the bound of the list in memory, its agreement with   *)
(* the file, and the order of the callbacks, for every number of threads,  *)
(* of calls and of control calls.                                          *)
(***************************************************************************)
EXTENDS AuditLog, Integers, SequenceTheorems, TLAPS

(* What a push does to the length and to the newest records of a list.     *)
LEMMA PushedType ==
  ASSUME NEW list \in Seq(Entry), NEW max \in Nat \ {0}, NEW e \in Entry
  PROVE  /\ Pushed(list, max, e) \in Seq(Entry)
         /\ Len(Pushed(list, max, e)) = IF Len(list) >= max THEN Len(list) ELSE Len(list) + 1
<1>1. CASE Len(list) >= max
  <2>1. Tail(list) \in Seq(Entry) /\ Len(Tail(list)) = Len(list) - 1
    BY <1>1
  <2>2. QED
    BY <1>1, <2>1 DEF Pushed
<1>2. CASE ~(Len(list) >= max)
  BY <1>2 DEF Pushed
<1>3. QED
  BY <1>1, <1>2

LEMMA PushedLength ==
  ASSUME NEW list \in Seq(Entry), NEW max \in Nat \ {0}, NEW e \in Entry
  PROVE  /\ Len(Pushed(list, max, e)) \in 0 .. Len(list) + 1
         /\ Len(list) <= max => Len(Pushed(list, max, e)) <= max
<1>1. Len(list) \in Nat
  OBVIOUS
<1>2. Len(Pushed(list, max, e)) = IF Len(list) >= max THEN Len(list) ELSE Len(list) + 1
  BY PushedType
<1>3. QED
  BY <1>1, <1>2

LEMMA PushedTail ==
  ASSUME NEW list \in Seq(Entry), NEW max \in Nat \ {0}, NEW e \in Entry,
         NEW k \in 0 .. Len(Pushed(list, max, e)) - 1
  PROVE  Pushed(list, max, e)[Len(Pushed(list, max, e)) - k]
           = IF k = 0 THEN e ELSE list[Len(list) - (k - 1)]
<1>1. CASE Len(list) >= max
  <2>1. Pushed(list, max, e) = Append(Tail(list), e)
    BY <1>1 DEF Pushed
  <2>2. Tail(list) \in Seq(Entry) /\ Len(Tail(list)) = Len(list) - 1
    BY <1>1
  <2>3. \A i \in 1 .. Len(Tail(list)) : Tail(list)[i] = list[i + 1]
    BY <1>1
  <2>4. Len(Append(Tail(list), e)) = Len(list)
    BY <2>2
  <2>5. k \in 0 .. Len(list) - 1
    BY <2>1, <2>4
  <2>6. CASE k = 0
    BY <2>1, <2>2, <2>4, <2>6
  <2>7. CASE k # 0
    <3>1. Len(list) - k \in 1 .. Len(Tail(list))
      BY <2>2, <2>5, <2>7
    <3>2. Append(Tail(list), e)[Len(list) - k] = Tail(list)[Len(list) - k]
      BY <2>2, <3>1
    <3>3. Tail(list)[Len(list) - k] = list[Len(list) - (k - 1)]
      BY <2>3, <2>5, <3>1
    <3>4. QED
      BY <2>1, <2>4, <2>7, <3>2, <3>3
  <2>8. QED
    BY <2>6, <2>7
<1>2. CASE ~(Len(list) >= max)
  BY <1>2 DEF Pushed
<1>3. QED
  BY <1>1, <1>2

-----------------------------------------------------------------------------
LEMMA EntriesAreEntries ==
  ASSUME TypeOK
  PROVE  SystemEntry \in Entry /\ \A t \in Threads : EntryOf(t) \in Entry
BY DEF TypeOK, SystemEntry, EntryOf, Entry

FileType ==
  /\ good \in BOOLEAN /\ lost \in Nat
  /\ disk \in Seq(Entry)
  /\ buffer \in Seq(Entry) /\ Len(buffer) <= 1

LEMMA WritesKeepFileType ==
  ASSUME TypeOK, NEW e \in Entry, WriteToFile(e) \/ OpenFile(e) \/ UNCHANGED file
  PROVE  FileType'
<1>1. FileType /\ <<>> \in Seq(Entry) /\ <<e>> \in Seq(Entry) /\ Len(<<>>) = 0 /\ Len(<<e>>) = 1
  BY DEF TypeOK, FileType
<1>2. CASE UNCHANGED file
  BY <1>1, <1>2 DEF file, FileType
<1>3. CASE disk' = Append(disk, e) /\ UNCHANGED <<good, buffer, lost>>
  BY <1>1, <1>3 DEF FileType
<1>4. CASE FirstFailure(e) /\ (disk' = disk \/ disk' = <<>>)
  <2>1. good' = FALSE /\ lost' = 1 /\ (buffer' = <<>> \/ buffer' = <<e>>)
    BY <1>4 DEF FirstFailure
  <2>2. buffer' \in Seq(Entry) /\ Len(buffer') <= 1
    <3>1. CASE buffer' = <<>>
      BY <1>1, <3>1
    <3>2. CASE buffer' = <<e>>
      BY <1>1, <3>2
    <3> QED BY <2>1, <3>1, <3>2
  <2>3. disk' \in Seq(Entry)
    <3>1. CASE disk' = disk
      BY <1>1, <3>1 DEF FileType
    <3>2. CASE disk' = <<>>
      BY <1>1, <3>2
    <3> QED BY <1>4, <3>1, <3>2
  <2> QED BY <2>1, <2>2, <2>3 DEF FileType
<1>5. CASE WriteInVain
  <2>1. CASE disk' = disk /\ buffer' = buffer /\ lost' = lost + 1 /\ UNCHANGED good
    BY <1>1, <2>1 DEF FileType
  <2>2. CASE disk' = disk \o buffer /\ buffer' = <<>> /\ lost' = lost /\ UNCHANGED good
    <3>1. disk \o buffer \in Seq(Entry)
      BY <1>1, ConcatProperties DEF FileType
    <3> QED BY <1>1, <2>2, <3>1 DEF FileType
  <2> QED BY <1>5, <2>1, <2>2 DEF WriteInVain
<1>6. CASE good' = TRUE /\ disk' = <<e>> /\ buffer' = <<>> /\ lost' = 0
  BY <1>1, <1>6 DEF FileType
<1> QED BY <1>2, <1>3, <1>4, <1>5, <1>6 DEF WriteToFile, OpenFile

(* The variables keep to the values the code can give them.                *)
THEOREM AuditTypeCorrect == Spec => []TypeOK
<1>1. Init => TypeOK
  <2> SUFFICES ASSUME Init PROVE TypeOK
    OBVIOUS
  <2>1. /\ maxEntries \in Nat \ {0} /\ ops \in Nat
        /\ entries \in Seq(Entry) /\ told \in Seq(Entry)
    BY DEF Init
  <2>2. FileType
    BY DEF Init, FileType
  <2>3. pc \in [Threads -> {"idle", "lock", "look", "call"}] /\ calls \in [Threads -> Nat]
    BY DEF Init
  <2>4. QED
    BY <2>1, <2>2, <2>3 DEF Init, TypeOK, FileType
<1>2. TypeOK /\ [Next]_vars => TypeOK'
  <2> SUFFICES ASSUME TypeOK, [Next]_vars
               PROVE  TypeOK'
    OBVIOUS
  <2>0. ASSUME UNCHANGED file PROVE FileType'
    BY <2>0, EntriesAreEntries, WritesKeepFileType
  <2>1. ASSUME NEW max \in Sizes, NEW on \in BOOLEAN, InitLog(max, on)
        PROVE  TypeOK'
    <3>1. max \in Nat \ {0}
      BY SizesAssumption
    <3>2. FileType'
      BY <2>1, EntriesAreEntries, WritesKeepFileType DEF InitLog
    <3>3. Pushed(entries, max, SystemEntry) \in Seq(Entry)
      BY <3>1, EntriesAreEntries, PushedType DEF TypeOK
    <3>4. entries' \in Seq(Entry)
      BY <2>1, <3>3 DEF InitLog, TypeOK
    <3>5. open' \in BOOLEAN /\ initialized' \in BOOLEAN /\ enabled' \in BOOLEAN
      BY <2>1 DEF InitLog, OpenFile, TypeOK
    <3>6. ops' \in Nat /\ maxEntries' \in Nat \ {0} /\ UNCHANGED <<callback, pc, calls, told>>
      BY <2>1, <3>1 DEF InitLog, ControlCall, TypeOK
    <3>7. QED
      BY <3>2, <3>4, <3>5, <3>6 DEF TypeOK, FileType
  <2>2. ASSUME NEW on \in BOOLEAN, SetEnabled(on)
        PROVE  TypeOK'
    <3>1. FileType'
      BY <2>2, EntriesAreEntries, WritesKeepFileType DEF SetEnabled
    <3>2. entries' \in Seq(Entry)
      BY <2>2, EntriesAreEntries, PushedType DEF SetEnabled, TypeOK
    <3>3. QED
      BY <2>2, <3>1, <3>2 DEF SetEnabled, ControlCall, TypeOK, FileType
  <2>3. ASSUME NEW set \in BOOLEAN, SetAuditCallback(set)
        PROVE  TypeOK'
    BY <2>0, <2>3 DEF SetAuditCallback, ControlCall, TypeOK, FileType, logVars
  <2>4. CASE Shutdown
    <3>1. FileType'
      BY <2>4, EntriesAreEntries, WritesKeepFileType DEF Shutdown
    <3>2. entries' \in Seq(Entry)
      BY <2>4 DEF Shutdown
    <3>3. ops' \in Nat /\ UNCHANGED <<enabled, maxEntries, callback, pc, calls, told>>
      BY <2>4 DEF Shutdown, ControlCall, TypeOK
    <3>4. open' = FALSE /\ initialized' = FALSE
      BY <2>4 DEF Shutdown
    <3>5. QED
      BY <3>1, <3>2, <3>3, <3>4 DEF TypeOK, FileType
  <2>5. ASSUME NEW t \in Threads, Look(t)
        PROVE  TypeOK'
    BY <2>0, <2>5 DEF Look, Goto, TypeOK, FileType, logVars
  <2>6. ASSUME NEW t \in Threads, Record(t)
        PROVE  TypeOK'
    <3>1. FileType'
      BY <2>6, EntriesAreEntries, WritesKeepFileType DEF Record
    <3>2. entries' \in Seq(Entry)
      BY <2>6, EntriesAreEntries, PushedType DEF Record, TypeOK
    <3>3. QED
      BY <2>6, <3>1, <3>2 DEF Record, Goto, TypeOK, FileType
  <2>7. ASSUME NEW t \in Threads, LookForCallback(t)
        PROVE  TypeOK'
    BY <2>0, <2>7 DEF LookForCallback, Goto, TypeOK, FileType, logVars
  <2>8. ASSUME NEW t \in Threads, CallBack(t)
        PROVE  TypeOK'
    BY <2>0, <2>8, EntriesAreEntries DEF CallBack, Goto, TypeOK, FileType, logVars
  <2>9. CASE UNCHANGED vars
    BY <2>0, <2>9 DEF vars, logVars, TypeOK, FileType
  <2>10. QED
    BY <2>1, <2>2, <2>3, <2>4, <2>5, <2>6, <2>7, <2>8, <2>9
       DEF Next, Control, LogAction
<1>3. QED
  BY <1>1, <1>2, PTL DEF Spec

-----------------------------------------------------------------------------
(* The bound.  Until the first init() nothing is recorded; after it every  *)
(* record drops another one as long as the list is at the current size or  *)
(* longer, so that it does not outgrow the largest size.                   *)
Untouched == entries = <<>> /\ ~initialized /\ \A t \in Threads : pc[t] = "idle"

BoundedBy(m) == Len(entries) <= m /\ (maxEntries \in Sizes \/ Untouched)

LEMMA PushKeepsBound ==
  ASSUME TypeOK, NEW m \in Nat, Len(entries) <= m,
         NEW max \in Nat \ {0}, max <= m, NEW e \in Entry
  PROVE  Len(Pushed(entries, max, e)) <= m
<1>1. entries \in Seq(Entry) /\ Len(entries) \in Nat
  BY DEF TypeOK
<1>2. Len(Pushed(entries, max, e)) =
        IF Len(entries) >= max THEN Len(entries) ELSE Len(entries) + 1
  BY <1>1, PushedType
<1> QED BY <1>1, <1>2

LEMMA BoundedNext ==
  ASSUME NEW m \in Nat, \A s \in Sizes : s <= m
  PROVE  TypeOK /\ BoundedBy(m) /\ [Next]_vars => BoundedBy(m)'
<1> SUFFICES ASSUME TypeOK, BoundedBy(m), [Next]_vars
             PROVE  BoundedBy(m)'
  OBVIOUS
<1> USE DEF BoundedBy, Untouched
<1>0. /\ \A s \in Sizes : s \in Nat \ {0} /\ s <= m
      /\ SystemEntry \in Entry
  BY SizesAssumption, EntriesAreEntries
<1>1. ASSUME NEW max \in Sizes, NEW on \in BOOLEAN, InitLog(max, on)
      PROVE  BoundedBy(m)'
  <2>1. Len(Pushed(entries, max, SystemEntry)) <= m
    BY <1>0, PushKeepsBound
  <2> QED BY <1>1, <2>1 DEF InitLog
<1>2. ASSUME NEW on \in BOOLEAN, SetEnabled(on)
      PROVE  BoundedBy(m)'
  <2>1. CASE initialized
    <3>1. Len(Pushed(entries, maxEntries, SystemEntry)) <= m
      BY <1>0, <2>1, PushKeepsBound
    <3> QED BY <1>2, <2>1, <3>1 DEF SetEnabled, ControlCall
  <2>2. CASE ~initialized
    BY <1>2, <2>2 DEF SetEnabled, ControlCall
  <2> QED BY <2>1, <2>2
<1>3. ASSUME NEW set \in BOOLEAN, SetAuditCallback(set)
      PROVE  BoundedBy(m)'
  BY <1>3 DEF SetAuditCallback, ControlCall, logVars
<1>4. CASE Shutdown
  BY <1>4 DEF Shutdown, ControlCall
<1>5. ASSUME NEW t \in Threads, Look(t)
      PROVE  BoundedBy(m)'
  BY <1>5 DEF Look, logVars
<1>6. ASSUME NEW t \in Threads, Record(t)
      PROVE  BoundedBy(m)'
  <2>1. maxEntries \in Sizes
    BY <1>6 DEF Record, Goto
  <2>2. Len(Pushed(entries, maxEntries, EntryOf(t))) <= m
    BY <1>0, <2>1, PushKeepsBound, EntriesAreEntries
  <2> QED BY <1>6, <2>1, <2>2 DEF Record
<1>7. ASSUME NEW t \in Threads, LookForCallback(t) \/ CallBack(t)
      PROVE  BoundedBy(m)'
  BY <1>7 DEF LookForCallback, CallBack, Goto, logVars
<1>8. CASE UNCHANGED vars
  BY <1>8 DEF vars, logVars
<1> QED BY <1>1, <1>2, <1>3, <1>4, <1>5, <1>6, <1>7, <1>8 DEF Next, Control, LogAction

(* Whatever sizes init() is given and however calls interleave, the list   *)
(* never holds more records than the largest of them.                      *)
THEOREM LargestSizeBounds ==
  ASSUME NEW m \in Nat, \A s \in Sizes : s <= m
  PROVE  Spec => [](Len(entries) <= m)
<1>1. Init => BoundedBy(m)
  BY DEF Init, BoundedBy, Untouched
<1>2. TypeOK /\ BoundedBy(m) /\ [Next]_vars => BoundedBy(m)'
  BY BoundedNext
<1>3. BoundedBy(m) => Len(entries) <= m
  BY DEF BoundedBy
<1> QED BY <1>1, <1>2, <1>3, AuditTypeCorrect, PTL DEF Spec

(* The list stays within m_maxEntries through any interleaving of records  *)
(* with control calls, if every init() is given the same size.             *)
THEOREM FixedSizeBounds ==
  ASSUME \A a, b \in Sizes : a = b
  PROVE  Spec => []MemoryBounded
<1>1. PICK m \in Nat : \A s \in Sizes : s = m
  <2>1. CASE Sizes = {}
    BY <2>1
  <2>2. CASE Sizes # {}
    BY <2>2, SizesAssumption
  <2> QED BY <2>1, <2>2
<1>2. Init => BoundedBy(m)
  BY DEF Init, BoundedBy, Untouched
<1>3. TypeOK /\ BoundedBy(m) /\ [Next]_vars => BoundedBy(m)'
  BY <1>1, BoundedNext
<1>4. TypeOK /\ BoundedBy(m) => MemoryBounded
  BY <1>1 DEF TypeOK, BoundedBy, Untouched, MemoryBounded
<1> QED BY <1>2, <1>3, <1>4, AuditTypeCorrect, PTL DEF Spec

-----------------------------------------------------------------------------
(* The list and the file.  The file f lacks the newest n records of the    *)
(* list, and a failed stream holds the first of them, or none.             *)

Mirrors(list, f, n) ==
  \A k \in 0 .. Len(f) - 1 :
    n + k < Len(list) => list[Len(list) - n - k] = f[Len(f) - k]

Holds(list, held, n) ==
  held # <<>> =>
    /\ n >= 1
    /\ n <= Len(list) => list[Len(list) - n + 1] = held[1]

(* A push whose record is written.                                         *)
LEMMA StoredKeepsMirror ==
  ASSUME NEW list \in Seq(Entry), NEW f \in Seq(Entry),
         NEW max \in Nat \ {0}, NEW e \in Entry,
         Mirrors(list, f, 0)
  PROVE  Mirrors(Pushed(list, max, e), Append(f, e), 0)
<1> DEFINE new == Pushed(list, max, e)
<1>1. /\ Len(new) \in 0 .. Len(list) + 1 /\ Len(list) \in Nat /\ Len(f) \in Nat
      /\ Len(Append(f, e)) = Len(f) + 1
  BY PushedLength
<1>2. \A k \in 0 .. Len(new) - 1 :
        new[Len(new) - k] = IF k = 0 THEN e ELSE list[Len(list) - (k - 1)]
  BY PushedTail
<1> HIDE DEF new
<1>3. ASSUME NEW k \in 0 .. Len(f), 0 + k < Len(new)
      PROVE  new[Len(new) - 0 - k] = Append(f, e)[Len(f) + 1 - k]
  <2>1. k \in 0 .. Len(new) - 1 /\ Len(new) - 0 - k = Len(new) - k
    BY <1>1, <1>3
  <2>2. CASE k = 0
    <3>1. new[Len(new) - k] = e
      BY <1>2, <2>1, <2>2
    <3>2. Append(f, e)[Len(f) + 1] = e
      BY AppendProperties
    <3>3. Len(f) + 1 - k = Len(f) + 1
      BY <1>1, <2>2
    <3> QED BY <2>1, <3>1, <3>2, <3>3
  <2>3. CASE k # 0
    <3>1. /\ k - 1 \in 0 .. Len(f) - 1 /\ 0 + (k - 1) < Len(list)
          /\ Len(list) - 0 - (k - 1) = Len(list) - (k - 1)
      BY <1>1, <2>1, <2>3
    <3>2. list[Len(list) - (k - 1)] = f[Len(f) - (k - 1)]
      BY <3>1 DEF Mirrors
    <3>3. Len(f) + 1 - k \in 1 .. Len(f) /\ Len(f) + 1 - k = Len(f) - (k - 1)
      BY <1>1, <2>3
    <3>4. Append(f, e)[Len(f) + 1 - k] = f[Len(f) - (k - 1)]
      BY <3>3, AppendProperties
    <3>5. new[Len(new) - k] = list[Len(list) - (k - 1)]
      BY <1>2, <2>1, <2>3
    <3> QED BY <2>1, <3>2, <3>4, <3>5
  <2> QED BY <2>2, <2>3
<1>4. Mirrors(new, Append(f, e), 0)
  BY <1>1, <1>3 DEF Mirrors
<1> QED BY <1>4 DEF new

(* A push whose record is lost.                                            *)
LEMMA LostKeepsMirror ==
  ASSUME NEW list \in Seq(Entry), NEW f \in Seq(Entry), NEW n \in Nat,
         NEW max \in Nat \ {0}, NEW e \in Entry,
         Mirrors(list, f, n)
  PROVE  Mirrors(Pushed(list, max, e), f, n + 1)
<1> DEFINE new == Pushed(list, max, e)
<1>1. /\ Len(new) \in 0 .. Len(list) + 1 /\ Len(list) \in Nat /\ Len(f) \in Nat
  BY PushedLength
<1>2. \A k \in 0 .. Len(new) - 1 :
        new[Len(new) - k] = IF k = 0 THEN e ELSE list[Len(list) - (k - 1)]
  BY PushedTail
<1> HIDE DEF new
<1>3. ASSUME NEW k \in 0 .. Len(f) - 1, (n + 1) + k < Len(new)
      PROVE  new[Len(new) - (n + 1) - k] = f[Len(f) - k]
  <2>1. /\ n + 1 + k \in 0 .. Len(new) - 1 /\ n + 1 + k # 0
        /\ Len(new) - (n + 1) - k = Len(new) - (n + 1 + k)
        /\ n + k < Len(list)
        /\ Len(list) - ((n + 1 + k) - 1) = Len(list) - n - k
    BY <1>1, <1>3
  <2>2. new[Len(new) - (n + 1 + k)] = list[Len(list) - n - k]
    BY <1>2, <2>1
  <2>3. list[Len(list) - n - k] = f[Len(f) - k]
    BY <1>3, <2>1 DEF Mirrors
  <2> QED BY <2>1, <2>2, <2>3
<1>4. Mirrors(new, f, n + 1)
  BY <1>3 DEF Mirrors
<1> QED BY <1>4 DEF new

LEMMA LostKeepsHeld ==
  ASSUME NEW list \in Seq(Entry), NEW held \in Seq(Entry), NEW n \in Nat,
         NEW max \in Nat \ {0}, NEW e \in Entry,
         Holds(list, held, n)
  PROVE  Holds(Pushed(list, max, e), held, n + 1)
<1> DEFINE new == Pushed(list, max, e)
<1>1. Len(new) \in 0 .. Len(list) + 1 /\ Len(list) \in Nat
  BY PushedLength
<1>2. \A k \in 0 .. Len(new) - 1 :
        new[Len(new) - k] = IF k = 0 THEN e ELSE list[Len(list) - (k - 1)]
  BY PushedTail
<1> HIDE DEF new
<1>3. ASSUME held # <<>>, n + 1 <= Len(new)
      PROVE  new[Len(new) - (n + 1) + 1] = held[1]
  <2>1. n >= 1 /\ n <= Len(list) /\ list[Len(list) - n + 1] = held[1]
    BY <1>1, <1>3 DEF Holds
  <2>2. /\ n \in 0 .. Len(new) - 1 /\ n # 0
        /\ Len(new) - (n + 1) + 1 = Len(new) - n
        /\ Len(list) - (n - 1) = Len(list) - n + 1
    BY <1>1, <1>3, <2>1
  <2> QED BY <1>2, <2>1, <2>2
<1>4. Holds(new, held, n + 1)
  BY <1>3 DEF Holds
<1> QED BY <1>4 DEF new

(* The first record that is lost may be the one in the buffer.             *)
LEMMA FirstLostIsHeld ==
  ASSUME NEW list \in Seq(Entry), NEW max \in Nat \ {0}, NEW e \in Entry
  PROVE  Holds(Pushed(list, max, e), <<e>>, 1)
<1> DEFINE new == Pushed(list, max, e)
<1>1. Len(new) \in Nat
  BY PushedLength
<1>2. \A k \in 0 .. Len(new) - 1 :
        new[Len(new) - k] = IF k = 0 THEN e ELSE list[Len(list) - (k - 1)]
  BY PushedTail
<1> HIDE DEF new
<1>3. 1 <= Len(new) => new[Len(new) - 1 + 1] = e
  <2>1. ASSUME 1 <= Len(new) PROVE new[Len(new) - 1 + 1] = e
    <3>1. 0 \in 0 .. Len(new) - 1 /\ Len(new) - 0 = Len(new) - 1 + 1
      BY <1>1, <2>1
    <3> QED BY <1>2, <3>1
  <2> QED BY <2>1
<1>4. Holds(new, <<e>>, 1)
  BY <1>3 DEF Holds
<1> QED BY <1>4 DEF new

LEMMA PositionsAdd ==
  \A n, k, l \in Nat :
    n # 0 /\ n + k < l => n + k \in 0 .. l - 1 /\ n + k # 0 /\ l - n - k = l - (n + k)
OBVIOUS

(* A push whose record is lost while the one in the buffer is written.     *)
LEMMA LateKeepsMirror ==
  ASSUME NEW list \in Seq(Entry), NEW f \in Seq(Entry), NEW n \in Nat \ {0},
         NEW max \in Nat \ {0}, NEW e \in Entry, NEW held \in Entry,
         Mirrors(list, f, n),
         n <= Len(list) => list[Len(list) - n + 1] = held
  PROVE  Mirrors(Pushed(list, max, e), Append(f, held), n)
<1> DEFINE new == Pushed(list, max, e)
           late == Append(f, held)
<1>1. Len(new) \in 0 .. Len(list) + 1 /\ Len(list) \in Nat /\ Len(f) \in Nat
  BY PushedLength
<1>2. \A k \in 0 .. Len(new) - 1 :
        new[Len(new) - k] = IF k = 0 THEN e ELSE list[Len(list) - (k - 1)]
  BY PushedTail
<1>3. /\ Len(late) = Len(f) + 1 /\ late[Len(f) + 1] = held
      /\ \A i \in 1 .. Len(f) : late[i] = f[i]
  BY AppendProperties
<1> HIDE DEF new, late
<1>4. ASSUME NEW k \in 0 .. Len(f), n + k < Len(new)
      PROVE  new[Len(new) - n - k] = late[Len(f) + 1 - k]
  <2>1. /\ n + k \in 0 .. Len(new) - 1 /\ n + k # 0
        /\ Len(new) - n - k = Len(new) - (n + k)
    <3> DEFINE l == Len(new)
    <3>1. n \in Nat /\ n # 0 /\ k \in Nat /\ l \in Nat /\ n + k < l
      BY <1>1, <1>4
    <3> HIDE DEF l
    <3>2. n + k \in 0 .. l - 1 /\ n + k # 0 /\ l - n - k = l - (n + k)
      BY <3>1, PositionsAdd
    <3> QED BY <3>2 DEF l
  <2>2. new[Len(new) - n - k] = list[Len(list) - (n + k - 1)]
    <3> DEFINE s == n + k
    <3>1. s \in 0 .. Len(new) - 1 /\ s # 0 /\ Len(new) - n - k = Len(new) - s
      BY <2>1
    <3> HIDE DEF s
    <3>2. new[Len(new) - s] = list[Len(list) - (s - 1)]
      BY <1>2, <3>1
    <3> QED BY <3>1, <3>2 DEF s
  <2>3. CASE k = 0
    <3>1. n <= Len(list) /\ Len(list) - (n + k - 1) = Len(list) - n + 1
      BY <1>1, <1>4, <2>3
    <3>2. Len(f) + 1 - k = Len(f) + 1
      BY <1>1, <2>3
    <3> QED BY <1>3, <2>2, <3>1, <3>2
  <2>4. CASE k # 0
    <3>1. /\ k - 1 \in 0 .. Len(f) - 1 /\ n + (k - 1) < Len(list)
          /\ Len(list) - (n + k - 1) = Len(list) - n - (k - 1)
          /\ Len(f) + 1 - k \in 1 .. Len(f) /\ Len(f) + 1 - k = Len(f) - (k - 1)
      BY <1>1, <1>4, <2>4
    <3>2. list[Len(list) - n - (k - 1)] = f[Len(f) - (k - 1)]
      BY <3>1 DEF Mirrors
    <3> QED BY <1>3, <2>2, <3>1, <3>2
  <2> QED BY <2>3, <2>4
<1>5. Mirrors(new, late, n)
  BY <1>1, <1>3, <1>4 DEF Mirrors
<1> QED BY <1>5 DEF new, late

(* A sequence that holds at most one record holds none or is that record.  *)
LEMMA OneHeld ==
  ASSUME NEW f \in Seq(Entry), NEW held \in Seq(Entry), Len(held) <= 1, held # <<>>
  PROVE  held[1] \in Entry /\ f \o held = Append(f, held[1])
<1> DEFINE l == Len(held)
<1>1. l \in Nat \ {0} /\ l <= 1
  BY EmptySeq
<1> HIDE DEF l
<1>2. l = 1
  BY <1>1
<1>3. 1 \in 1 .. Len(held)
  BY <1>2 DEF l
<1>4. held[1] \in Entry
  BY <1>3, ElementOfSeq
<1>5. /\ f \o held \in Seq(Entry) /\ Append(f, held[1]) \in Seq(Entry)
      /\ Len(f \o held) = Len(f) + 1 /\ Len(Append(f, held[1])) = Len(f) + 1
  BY <1>2, <1>4, ConcatProperties, AppendProperties DEF l
<1>6. ASSUME NEW i \in 1 .. Len(f) + 1
      PROVE  (f \o held)[i] = Append(f, held[1])[i]
  <2>1. (f \o held)[i] = IF i <= Len(f) THEN f[i] ELSE held[i - Len(f)]
    BY <1>2, ConcatProperties DEF l
  <2>2. Len(f) \in Nat
    OBVIOUS
  <2>3. CASE i <= Len(f)
    BY <1>4, <2>1, <2>2, <2>3, AppendProperties
  <2>4. CASE ~(i <= Len(f))
    <3>1. i = Len(f) + 1 /\ i - Len(f) = 1
      BY <2>2, <2>4
    <3> QED BY <1>4, <2>1, <2>4, <3>1, AppendProperties
  <2> QED BY <2>3, <2>4
<1> QED BY <1>4, <1>5, <1>6, SeqEqual

(* While the file is open the newest `lost` records are the ones it lacks, *)
(* and a record in the buffer is the first of these.                       *)
FileInv ==
  open =>
    /\ good => lost = 0
    /\ Mirrors(entries, disk, lost)
    /\ Holds(entries, buffer, lost)

LEMMA WriteKeepsFile ==
  ASSUME TypeOK, FileInv, open, NEW e \in Entry, WriteToFile(e),
         entries' = Pushed(entries, maxEntries, e)
  PROVE  /\ good' => lost' = 0
         /\ Mirrors(entries', disk', lost')
         /\ Holds(entries', buffer', lost')
<1>1. /\ entries \in Seq(Entry) /\ disk \in Seq(Entry) /\ buffer \in Seq(Entry)
      /\ maxEntries \in Nat \ {0} /\ lost \in Nat /\ Len(buffer) <= 1
  BY DEF TypeOK
<1>2. /\ good => lost = 0
      /\ Mirrors(entries, disk, lost) /\ Holds(entries, buffer, lost)
  BY DEF FileInv
<1>3. CASE good /\ disk' = Append(disk, e) /\ UNCHANGED <<good, buffer, lost>>
  <2>1. lost = 0 /\ buffer = <<>>
    BY <1>2, <1>3 DEF Holds
  <2>2. Mirrors(entries', disk', 0)
    BY <1>1, <1>2, <1>3, <2>1, StoredKeepsMirror
  <2>3. Holds(entries', buffer', lost')
    BY <1>3, <2>1 DEF Holds
  <2> QED BY <1>3, <2>1, <2>2, <2>3
<1>4. CASE good /\ FirstFailure(e) /\ UNCHANGED disk
  <2>1. lost = 0 /\ lost' = 0 + 1 /\ lost' = 1 /\ good' = FALSE /\ disk' = disk
    BY <1>2, <1>4 DEF FirstFailure
  <2>2. Mirrors(entries', disk, 0 + 1)
    BY <1>1, <1>2, <2>1, LostKeepsMirror
  <2>3. buffer' = <<>> \/ buffer' = <<e>>
    BY <1>4 DEF FirstFailure
  <2>4. Holds(entries', <<e>>, 1)
    BY <1>1, FirstLostIsHeld
  <2>5. Holds(entries', buffer', lost')
    BY <2>1, <2>3, <2>4 DEF Holds
  <2> QED BY <2>1, <2>2, <2>5
<1>5. CASE ~good /\ WriteInVain
  <2>1. ~good'
    BY <1>5 DEF WriteInVain
  <2>2. CASE disk' = disk /\ buffer' = buffer /\ lost' = lost + 1
    BY <1>1, <1>2, <2>1, <2>2, LostKeepsMirror, LostKeepsHeld
  <2>3. CASE buffer # <<>> /\ disk' = disk \o buffer /\ buffer' = <<>> /\ lost' = lost
    <3>1. buffer[1] \in Entry /\ disk' = Append(disk, buffer[1])
      BY <1>1, <2>3, OneHeld
    <3>2. /\ lost \in Nat \ {0}
          /\ lost <= Len(entries) => entries[Len(entries) - lost + 1] = buffer[1]
      BY <1>1, <1>2, <2>3 DEF Holds
    <3>3. Mirrors(Pushed(entries, maxEntries, e), Append(disk, buffer[1]), lost)
      BY <1>1, <1>2, <3>1, <3>2, LateKeepsMirror
    <3>4. Mirrors(entries', disk', lost')
      BY <2>3, <3>1, <3>3
    <3>5. Holds(entries', buffer', lost')
      BY <2>3 DEF Holds
    <3> QED BY <2>1, <3>4, <3>5
  <2> QED BY <1>5, <2>2, <2>3 DEF WriteInVain
<1> QED BY <1>3, <1>4, <1>5 DEF WriteToFile

LEMMA OpenKeepsFile ==
  ASSUME TypeOK, NEW max \in Nat \ {0}, NEW e \in Entry, OpenFile(e),
         entries' = Pushed(entries, max, e)
  PROVE  /\ good' => lost' = 0
         /\ Mirrors(entries', disk', lost')
         /\ Holds(entries', buffer', lost')
<1>1. entries \in Seq(Entry) /\ <<>> \in Seq(Entry)
  BY DEF TypeOK
<1>2. CASE good' = TRUE /\ disk' = <<e>> /\ buffer' = <<>> /\ lost' = 0
  <2>1. Mirrors(entries, <<>>, 0)
    BY DEF Mirrors
  <2>2. Mirrors(entries', Append(<<>>, e), 0)
    BY <1>1, <2>1, StoredKeepsMirror
  <2>3. Append(<<>>, e) = <<e>>
    OBVIOUS
  <2> QED BY <1>2, <2>2, <2>3 DEF Holds
<1>3. CASE FirstFailure(e) /\ disk' = <<>>
  <2>1. Holds(entries', <<e>>, 1)
    BY <1>1, FirstLostIsHeld
  <2>2. good' = FALSE /\ lost' = 1 /\ (buffer' = <<>> \/ buffer' = <<e>>)
    BY <1>3 DEF FirstFailure
  <2>3. Holds(entries', buffer', lost')
    BY <2>1, <2>2 DEF Holds
  <2>4. Mirrors(entries', disk', lost')
    BY <1>3 DEF Mirrors
  <2> QED BY <2>2, <2>3, <2>4
<1> QED BY <1>2, <1>3 DEF OpenFile

(* While the file is open it has no hole, for any interleaving of          *)
(* logAction() with init(), failing or not, setEnabled() and shutdown(),   *)
(* and any writes that fail.                                               *)
THEOREM FileHasNoHole == Spec => []MemoryMirrorsFile
<1>1. Init => FileInv
  BY DEF Init, FileInv
<1>2. TypeOK /\ FileInv /\ [Next]_vars => FileInv'
  <2> DEFINE Good == /\ good' => lost' = 0
                     /\ Mirrors(entries', disk', lost')
                     /\ Holds(entries', buffer', lost')
  <2> SUFFICES ASSUME TypeOK, FileInv, [Next]_vars, open'
               PROVE  Good
    BY DEF FileInv
  <2>1. ASSUME NEW max \in Sizes, NEW on \in BOOLEAN, InitLog(max, on)
        PROVE  Good
    <3>1. /\ max \in Nat \ {0} /\ OpenFile(SystemEntry)
          /\ entries' = Pushed(entries, max, SystemEntry)
      BY <2>1, SizesAssumption DEF InitLog
    <3> QED BY <3>1, EntriesAreEntries, OpenKeepsFile
  <2>2. ASSUME NEW e \in Entry, open, WriteToFile(e),
               entries' = Pushed(entries, maxEntries, e)
        PROVE  Good
    BY <2>2, WriteKeepsFile
  <2>3. ASSUME UNCHANGED <<open, file, entries>>
        PROVE  Good
    BY <2>3 DEF FileInv, file, Mirrors, Holds
  <2> HIDE DEF Good
  <2>4. ASSUME NEW on \in BOOLEAN, SetEnabled(on)
        PROVE  Good
    BY <2>2, <2>3, <2>4, EntriesAreEntries DEF SetEnabled
  <2>5. ASSUME NEW set \in BOOLEAN, SetAuditCallback(set)
        PROVE  Good
    BY <2>3, <2>5 DEF SetAuditCallback, logVars
  <2>6. CASE Shutdown
    BY <2>6 DEF Shutdown
  <2>7. ASSUME NEW t \in Threads, LogAction(t)
        PROVE  Good
    <3>1. CASE Record(t)
      BY <2>2, <3>1, EntriesAreEntries DEF Record
    <3>2. CASE Look(t) \/ LookForCallback(t) \/ CallBack(t)
      BY <2>3, <3>2 DEF Look, LookForCallback, CallBack, logVars
    <3>3. QED
      BY <2>7, <3>1, <3>2 DEF LogAction
  <2>8. CASE UNCHANGED vars
    BY <2>3, <2>8 DEF vars, logVars
  <2>9. QED
    BY <2>1, <2>4, <2>5, <2>6, <2>7, <2>8 DEF Next, Control
<1>3. FileInv => MemoryMirrorsFile
  BY DEF FileInv, Mirrors, MemoryMirrorsFile
<1>4. QED
  BY <1>1, <1>2, <1>3, AuditTypeCorrect, PTL DEF Spec

-----------------------------------------------------------------------------
(* The callback.                                                           *)

(* What the callback has been told of t, t has called before, and before   *)
(* the call it is in.                                                      *)
ToldBefore ==
  \A i \in DOMAIN told :
    /\ told[i].who \in Threads
    /\ told[i].n <= calls[told[i].who]
    /\ pc[told[i].who] # "idle" => told[i].n < calls[told[i].who]

ToldInv == ToldBefore /\ ToldOnceInOrder

LEMMA ElementsAreEntries ==
  ASSUME NEW list \in Seq(Entry), NEW i \in DOMAIN list
  PROVE  list[i].who \in Threads \union {"SYSTEM"} /\ list[i].n \in Nat
<1>1. list[i] \in Entry
  OBVIOUS
<1> QED BY <1>1 DEF Entry

LEMMA NothingTold ==
  ASSUME TypeOK, ToldInv, UNCHANGED told,
         \A t \in Threads :
           /\ calls'[t] \in Nat /\ calls'[t] >= calls[t]
           /\ pc'[t] # "idle" => pc[t] # "idle" \/ calls'[t] > calls[t]
  PROVE  ToldInv'
<1>1. ToldOnceInOrder'
  BY DEF ToldInv, ToldOnceInOrder
<1>2. ASSUME NEW i \in DOMAIN told
      PROVE  /\ told[i].who \in Threads
             /\ told[i].n <= calls'[told[i].who]
             /\ pc'[told[i].who] # "idle" => told[i].n < calls'[told[i].who]
  <2> DEFINE t == told[i].who
  <2>1. t \in Threads /\ told[i].n <= calls[t] /\ (pc[t] # "idle" => told[i].n < calls[t])
    BY <1>2 DEF ToldInv, ToldBefore
  <2>2. told[i].n \in Nat
    BY <1>2, ElementsAreEntries DEF TypeOK
  <2>3. calls[t] \in Nat /\ calls'[t] \in Nat /\ calls'[t] >= calls[t]
    BY <2>1 DEF TypeOK
  <2>4. pc'[t] # "idle" => pc[t] # "idle" \/ calls'[t] > calls[t]
    BY <2>1
  <2> QED BY <2>1, <2>2, <2>3, <2>4
<1> QED BY <1>1, <1>2 DEF ToldInv, ToldBefore

LEMMA CallBackTells ==
  ASSUME TypeOK, ToldInv, NEW t \in Threads, CallBack(t)
  PROVE  ToldInv'
<1>1. /\ pc[t] = "call" /\ pc' = [pc EXCEPT ![t] = "idle"]
      /\ UNCHANGED calls
  BY DEF CallBack, Goto
<1>2. CASE ~callback
  BY <1>1, <1>2, NothingTold DEF CallBack, TypeOK
<1>3. CASE callback
  <2>1. told' = Append(told, EntryOf(t)) /\ told \in Seq(Entry) /\ EntryOf(t) \in Entry
    BY <1>3, EntriesAreEntries DEF CallBack, TypeOK
  <2>2. EntryOf(t).who = t /\ EntryOf(t).n = calls[t] /\ calls[t] \in Nat
    BY DEF EntryOf, TypeOK
  <2>3. \A i \in 1 .. Len(told) : told'[i] = told[i]
    BY <2>1
  <2>4. Len(told') = Len(told) + 1 /\ told'[Len(told) + 1] = EntryOf(t)
    BY <2>1
  <2>5. DOMAIN told = 1 .. Len(told) /\ DOMAIN told' = 1 .. Len(told) + 1 /\ Len(told) \in Nat
    BY <2>1, <2>4
  <2>6. ASSUME NEW i \in 1 .. Len(told)
        PROVE  /\ told[i].who \in Threads /\ told[i].n \in Nat
               /\ told[i].n <= calls[told[i].who]
               /\ told[i].who = t => told[i].n < calls[t]
               /\ pc[told[i].who] # "idle" => told[i].n < calls[told[i].who]
    <3>1. i \in DOMAIN told
      BY <2>5, <2>6
    <3>2. told[i].n \in Nat
      BY <2>1, <3>1, ElementsAreEntries
    <3> QED BY <1>1, <3>1, <3>2 DEF ToldInv, ToldBefore
  <2>7. ToldBefore'
    <3> SUFFICES ASSUME NEW i \in 1 .. Len(told) + 1
                 PROVE  /\ told'[i].who \in Threads
                        /\ told'[i].n <= calls[told'[i].who]
                        /\ pc'[told'[i].who] # "idle" => told'[i].n < calls[told'[i].who]
      BY <1>1, <2>5 DEF ToldBefore
    <3>1. CASE i = Len(told) + 1
      BY <1>1, <2>2, <2>4, <3>1 DEF TypeOK
    <3>2. CASE i # Len(told) + 1
      <4>1. i \in 1 .. Len(told)
        BY <2>5, <3>2
      <4>2. pc'[told[i].who] # "idle" => pc[told[i].who] # "idle"
        BY <1>1, <2>6, <4>1 DEF TypeOK
      <4> QED BY <2>3, <2>6, <4>1, <4>2
    <3> QED BY <3>1, <3>2
  <2>8. ToldOnceInOrder'
    <3> SUFFICES ASSUME NEW i \in 1 .. Len(told) + 1, NEW j \in 1 .. Len(told) + 1,
                        i < j, told'[i].who = told'[j].who
                 PROVE  told'[i].n < told'[j].n
      BY <2>4 DEF ToldOnceInOrder
    <3>1. i \in 1 .. Len(told) /\ told'[i] = told[i]
      BY <2>3, <2>5
    <3>2. CASE j = Len(told) + 1
      BY <2>2, <2>4, <2>6, <3>1, <3>2
    <3>3. CASE j # Len(told) + 1
      <4>1. j \in 1 .. Len(told) /\ told'[j] = told[j]
        BY <2>3, <2>5, <3>3
      <4> QED BY <3>1, <4>1 DEF ToldInv, ToldOnceInOrder
    <3> QED BY <3>2, <3>3
  <2> QED BY <2>7, <2>8 DEF ToldInv
<1> QED BY <1>2, <1>3

(* The callback is told of no record twice, and of each thread's records   *)
(* in the order of its calls, although records and callbacks are not one   *)
(* step and the callback may be taken away in between.                     *)
THEOREM CallbacksInOrder == Spec => []ToldOnceInOrder
<1>1. Init => ToldInv
  BY DEF Init, ToldInv, ToldBefore, ToldOnceInOrder
<1>2. TypeOK /\ ToldInv /\ [Next]_vars => ToldInv'
  <2> SUFFICES ASSUME TypeOK, ToldInv, [Next]_vars
               PROVE  ToldInv'
    OBVIOUS
  <2>1. ASSUME UNCHANGED <<pc, calls, told>>
        PROVE  ToldInv'
    BY <2>1, NothingTold DEF TypeOK
  <2>2. CASE Control
    BY <2>1, <2>2 DEF Control, InitLog, SetEnabled, SetAuditCallback, Shutdown, ControlCall
  <2>3. ASSUME NEW t \in Threads, Look(t)
        PROVE  ToldInv'
    BY <2>3, NothingTold DEF Look, Goto, TypeOK
  <2>4. ASSUME NEW t \in Threads, Record(t) \/ LookForCallback(t)
        PROVE  ToldInv'
    BY <2>4, NothingTold DEF Record, LookForCallback, Goto, TypeOK
  <2>5. CASE UNCHANGED vars
    BY <2>1, <2>5 DEF vars
  <2> QED BY <2>2, <2>3, <2>4, <2>5, CallBackTells DEF Next, LogAction
<1>3. ToldInv => ToldOnceInOrder
  BY DEF ToldInv
<1>4. QED
  BY <1>1, <1>2, <1>3, AuditTypeCorrect, PTL DEF Spec

-----------------------------------------------------------------------------
(* No gaps.                                                                *)

(* The last call of t that has been recorded, or would be by now.          *)
Latest == [t \in Threads |-> IF pc[t] = "lock" THEN calls[t] - 1 ELSE calls[t]]

(* From each record of a thread the list goes on to its last[t].           *)
GoesOn(list, last) ==
  \A i \in 1 .. Len(list) : list[i].who \in Threads =>
    /\ list[i].n <= last[list[i].who]
    /\ \A n \in list[i].n + 1 .. last[list[i].who] :
         \E k \in i + 1 .. Len(list) : list[k] = [who |-> list[i].who, n |-> n]

Follows(list, last) == Gapless(list) /\ GoesOn(list, last)

(* What is left of a gapless list when its first records are cut off.      *)
LEMMA SuffixIsGapless ==
  ASSUME NEW list \in Seq(Entry), NEW rest \in Seq(Entry), NEW d \in Nat,
         Len(rest) + d = Len(list),
         \A i \in 1 .. Len(rest) : rest[i] = list[i + d],
         Gapless(list)
  PROVE  Gapless(rest)
<1> SUFFICES ASSUME NEW i \in 1 .. Len(rest), NEW j \in 1 .. Len(rest),
                    i < j, rest[i].who = rest[j].who, rest[i].who \in Threads
             PROVE  /\ rest[i].n < rest[j].n
                    /\ \A n \in rest[i].n + 1 .. rest[j].n - 1 :
                         \E k \in i + 1 .. j - 1 : rest[k] = [who |-> rest[i].who, n |-> n]
  BY DEF Gapless
<1>1. Len(rest) \in Nat /\ Len(list) \in Nat
  OBVIOUS
<1>2. i + d \in 1 .. Len(list) /\ j + d \in 1 .. Len(list) /\ i + d < j + d
  BY <1>1
<1>3. rest[i] = list[i + d] /\ rest[j] = list[j + d]
  OBVIOUS
<1>4. rest[i].n < rest[j].n
  BY <1>2, <1>3 DEF Gapless
<1>5. ASSUME NEW n \in rest[i].n + 1 .. rest[j].n - 1
      PROVE  \E k \in i + 1 .. j - 1 : rest[k] = [who |-> rest[i].who, n |-> n]
  <2> DEFINE a == i + d
             b == j + d
  <2>1. /\ a \in 1 .. Len(list) /\ b \in 1 .. Len(list) /\ a < b
        /\ rest[i] = list[a] /\ rest[j] = list[b]
    BY <1>2, <1>3
  <2> HIDE DEF a, b
  <2>2. /\ list[a].who = list[b].who /\ list[a].who \in Threads
        /\ n \in list[a].n + 1 .. list[b].n - 1
    BY <1>5, <2>1
  <2>3. \E k \in a + 1 .. b - 1 : list[k] = [who |-> list[a].who, n |-> n]
    BY <2>1, <2>2, Zenon DEF Gapless
  <2>4. PICK k \in a + 1 .. b - 1 : list[k] = [who |-> rest[i].who, n |-> n]
    BY <2>1, <2>3
  <2>5. k - d \in i + 1 .. j - 1 /\ k - d \in 1 .. Len(rest) /\ (k - d) + d = k
    BY <1>1, <2>4 DEF a, b
  <2> QED BY <2>4, <2>5
<1> QED BY <1>4, <1>5

LEMMA TailFollows ==
  ASSUME NEW list \in Seq(Entry), NEW last \in [Threads -> Int], list # <<>>,
         Follows(list, last)
  PROVE  Follows(Tail(list), last)
<1>1. Tail(list) \in Seq(Entry) /\ Len(Tail(list)) + 1 = Len(list)
  OBVIOUS
<1>2. \A i \in 1 .. Len(Tail(list)) : Tail(list)[i] = list[i + 1]
  OBVIOUS
<1>3. Gapless(Tail(list))
  BY <1>1, <1>2, SuffixIsGapless DEF Follows
<1>4. GoesOn(Tail(list), last)
  <2> DEFINE rest == Tail(list)
  <2> HIDE DEF rest
  <2>1. /\ rest \in Seq(Entry) /\ Len(rest) + 1 = Len(list)
        /\ \A i \in 1 .. Len(rest) : rest[i] = list[i + 1]
    BY <1>1, <1>2 DEF rest
  <2>2. SUFFICES ASSUME NEW i \in 1 .. Len(rest), rest[i].who \in Threads
                 PROVE  /\ rest[i].n <= last[rest[i].who]
                        /\ \A n \in rest[i].n + 1 .. last[rest[i].who] :
                             \E k \in i + 1 .. Len(rest) : rest[k] = [who |-> rest[i].who, n |-> n]
    BY <2>1 DEF GoesOn, rest
  <2>3. Len(rest) \in Nat /\ Len(list) \in Nat /\ i + 1 \in 1 .. Len(list) /\ rest[i] = list[i + 1]
    BY <2>1
  <2>4. ASSUME NEW n \in rest[i].n + 1 .. last[rest[i].who]
        PROVE  \E k \in i + 1 .. Len(rest) : rest[k] = [who |-> rest[i].who, n |-> n]
    <3>1. PICK k \in i + 2 .. Len(list) : list[k] = [who |-> rest[i].who, n |-> n]
      BY <2>2, <2>3, <2>4 DEF Follows, GoesOn
    <3>2. k - 1 \in i + 1 .. Len(rest) /\ k - 1 \in 1 .. Len(rest) /\ (k - 1) + 1 = k
      BY <2>1, <2>3, <3>1
    <3> QED BY <2>1, <3>1, <3>2
  <2> QED BY <2>2, <2>3, <2>4 DEF Follows, GoesOn
<1> QED BY <1>3, <1>4 DEF Follows

(* e is a record of the log itself, or the next one of a thread.           *)
CountsOn(last, next, e) ==
  /\ \A t \in Threads : next[t] = IF t = e.who THEN last[t] + 1 ELSE last[t]
  /\ e.who \in Threads => e.n = next[e.who]

LEMMA AppendFollows ==
  ASSUME NEW list \in Seq(Entry), NEW e \in Entry,
         NEW last \in [Threads -> Int], NEW next \in [Threads -> Int],
         Follows(list, last),
         CountsOn(last, next, e)
  PROVE  Follows(Append(list, e), next)
<1> DEFINE new == Append(list, e)
           len == Len(list)
<1>1. /\ new \in Seq(Entry) /\ len \in Nat /\ Len(new) = len + 1 /\ new[len + 1] = e
      /\ \A i \in 1 .. len : new[i] = list[i]
      /\ DOMAIN new = 1 .. len + 1 /\ DOMAIN list = 1 .. len
  OBVIOUS
<1> HIDE DEF new, len
<1> USE DEF CountsOn
<1>2. \A i \in 1 .. len : list[i].n \in Nat
  BY <1>1, ElementsAreEntries
<1>3. e.n \in Nat /\ e = [who |-> e.who, n |-> e.n]
  BY DEF Entry
<1>4. ASSUME NEW i \in 1 .. len, list[i].who \in Threads
      PROVE  /\ list[i].n <= last[list[i].who]
             /\ \A n \in list[i].n + 1 .. last[list[i].who] :
                  \E k \in i + 1 .. len : new[k] = [who |-> list[i].who, n |-> n]
  <2>1. i \in 1 .. Len(list) /\ list[i].n <= last[list[i].who]
    BY <1>1, <1>4 DEF Follows, GoesOn, len
  <2>2. ASSUME NEW n \in list[i].n + 1 .. last[list[i].who]
        PROVE  \E k \in i + 1 .. len : new[k] = [who |-> list[i].who, n |-> n]
    <3>1. PICK k \in i + 1 .. len : list[k] = [who |-> list[i].who, n |-> n]
      BY <1>4, <2>1, <2>2 DEF Follows, GoesOn, len
    <3>2. k \in 1 .. len
      BY <1>1, <3>1
    <3> QED BY <1>1, <3>1, <3>2
  <2> QED BY <2>1, <2>2
<1>5. Gapless(new)
  <2> SUFFICES ASSUME NEW i \in 1 .. len + 1, NEW j \in 1 .. len + 1,
                      i < j, new[i].who = new[j].who, new[i].who \in Threads
               PROVE  /\ new[i].n < new[j].n
                      /\ \A n \in new[i].n + 1 .. new[j].n - 1 :
                           \E k \in i + 1 .. j - 1 : new[k] = [who |-> new[i].who, n |-> n]
    BY <1>1 DEF Gapless
  <2>1. i \in 1 .. len /\ new[i] = list[i]
    BY <1>1
  <2>2. CASE j = len + 1
    <3>1. new[j] = e /\ list[i].who = e.who /\ e.n = last[e.who] + 1 /\ last[e.who] \in Int
      BY <1>1, <2>1, <2>2
    <3>2. j - 1 = len
      BY <1>1, <2>2
    <3>3. e.n - 1 = last[e.who]
      BY <3>1
    <3>4. list[i].who \in Threads
      BY <2>1
    <3>5. list[i].n < e.n
      BY <1>2, <1>4, <2>1, <3>1, <3>4
    <3>6. \A n \in list[i].n + 1 .. e.n - 1 :
            \E k \in i + 1 .. j - 1 : new[k] = [who |-> list[i].who, n |-> n]
      BY <1>4, <2>1, <3>1, <3>2, <3>3, <3>4
    <3> QED BY <2>1, <3>1, <3>5, <3>6
  <2>3. CASE j # len + 1
    <3>1. j \in 1 .. len /\ new[j] = list[j]
      BY <1>1, <2>3
    <3>2. list[i].n < list[j].n
      BY <1>1, <2>1, <3>1 DEF Follows, Gapless
    <3>3. ASSUME NEW n \in list[i].n + 1 .. list[j].n - 1
          PROVE  \E k \in i + 1 .. j - 1 : new[k] = [who |-> list[i].who, n |-> n]
      <4>1. i \in 1 .. Len(list) /\ j \in 1 .. Len(list)
        BY <2>1, <3>1 DEF len
      <4>2. list[i].who = list[j].who /\ list[i].who \in Threads
        BY <2>1, <3>1
      <4>3. PICK k \in i + 1 .. j - 1 : list[k] = [who |-> list[i].who, n |-> n]
        BY <3>3, <4>1, <4>2, Zenon DEF Follows, Gapless
      <4>4. k \in 1 .. len
        BY <1>1, <3>1, <4>3
      <4> QED BY <1>1, <4>3, <4>4
    <3> QED BY <2>1, <3>1, <3>2, <3>3
  <2> QED BY <2>2, <2>3
<1>6. GoesOn(new, next)
  <2> SUFFICES ASSUME NEW i \in 1 .. Len(new), new[i].who \in Threads
               PROVE  /\ new[i].n <= next[new[i].who]
                      /\ \A n \in new[i].n + 1 .. next[new[i].who] :
                           \E k \in i + 1 .. Len(new) : new[k] = [who |-> new[i].who, n |-> n]
    BY DEF GoesOn
  <2>1. CASE i = len + 1
    BY <1>1, <1>3, <2>1
  <2>2. CASE i # len + 1
    <3>1. i \in 1 .. len /\ new[i] = list[i]
      BY <1>1, <2>2
    <3> DEFINE t == list[i].who
    <3>2. t \in Threads /\ last[t] \in Int /\ list[i].n \in Nat /\ list[i].n <= last[t]
      BY <1>2, <1>4, <3>1
    <3>5. next[t] \in Int /\ (next[t] = last[t] \/ next[t] = last[t] + 1)
      BY <3>2
    <3>3. list[i].n <= next[t]
      BY <3>2, <3>5
    <3>4. ASSUME NEW n \in list[i].n + 1 .. next[t]
          PROVE  \E k \in i + 1 .. len + 1 : new[k] = [who |-> t, n |-> n]
      <4>1. CASE n <= last[t]
        <5>1. PICK k \in i + 1 .. len : new[k] = [who |-> t, n |-> n]
          BY <1>4, <3>1, <3>2, <3>4, <4>1
        <5>2. k \in i + 1 .. len + 1
          BY <1>1, <5>1
        <5> QED BY <5>1, <5>2
      <4>2. CASE ~(n <= last[t])
        <5>1. t = e.who /\ n = e.n
          BY <3>2, <3>4, <4>2, <1>3
        <5>2. new[len + 1] = [who |-> t, n |-> n] /\ len + 1 \in i + 1 .. len + 1
          BY <1>1, <1>3, <3>1, <5>1
        <5> QED BY <5>2
      <4> QED BY <4>1, <4>2
    <3> QED BY <1>1, <3>1, <3>3, <3>4
  <2> QED BY <2>1, <2>2
<1> QED BY <1>5, <1>6 DEF Follows, new

LEMMA PushFollows ==
  ASSUME NEW list \in Seq(Entry), NEW e \in Entry, NEW max \in Nat \ {0},
         NEW last \in [Threads -> Int], NEW next \in [Threads -> Int],
         Follows(list, last),
         CountsOn(last, next, e)
  PROVE  Follows(Pushed(list, max, e), next)
<1>1. ASSUME NEW rest \in Seq(Entry), Follows(rest, last)
      PROVE  Follows(Append(rest, e), next)
  BY <1>1, AppendFollows
<1>2. CASE Len(list) >= max
  <2>1. list # <<>> /\ Tail(list) \in Seq(Entry)
    BY <1>2
  <2>2. Follows(Tail(list), last)
    BY <2>1, TailFollows
  <2> DEFINE rest == Tail(list)
  <2> HIDE DEF rest
  <2>3. rest \in Seq(Entry) /\ Follows(rest, last)
    BY <2>1, <2>2 DEF rest
  <2>4. Follows(Append(rest, e), next)
    BY <1>1, <2>3
  <2> QED BY <1>2, <2>4 DEF Pushed, rest
<1>3. CASE ~(Len(list) >= max)
  BY <1>1, <1>3 DEF Pushed
<1> QED BY <1>2, <1>3

LEMMA LatestType ==
  ASSUME TypeOK
  PROVE  Latest \in [Threads -> Int]
BY DEF TypeOK, Latest

GapInv == Follows(entries, Latest)

(* A record of the log itself.                                             *)
LEMMA SystemFollows ==
  ASSUME TypeOK, Follows(entries, Latest), NEW max \in Nat \ {0}
  PROVE  Follows(Pushed(entries, max, SystemEntry), Latest)
<1>1. SystemEntry \in Entry /\ SystemEntry.who \notin Threads
  BY EntriesAreEntries, ThreadsAssumption DEF SystemEntry
<1>2. entries \in Seq(Entry) /\ Latest \in [Threads -> Int]
  BY LatestType DEF TypeOK
<1>3. \A t \in Threads : Latest[t] = IF t = SystemEntry.who THEN Latest[t] + 1 ELSE Latest[t]
  BY <1>1
<1>4. CountsOn(Latest, Latest, SystemEntry)
  BY <1>1, <1>3 DEF CountsOn
<1> QED BY <1>1, <1>2, <1>4, PushFollows

(* A record of a thread, the one call Look() has let through.              *)
LEMMA RecordFollows ==
  ASSUME TypeOK, TypeOK', Follows(entries, Latest), NEW t \in Threads, Record(t)
  PROVE  Follows(entries', Latest')
<1>1. /\ entries' = Pushed(entries, maxEntries, EntryOf(t))
      /\ pc[t] = "lock" /\ pc' = [pc EXCEPT ![t] = "look"] /\ calls' = calls
  BY DEF Record, Goto
<1>2. /\ EntryOf(t) \in Entry /\ EntryOf(t).who = t /\ EntryOf(t).n = calls[t]
      /\ entries \in Seq(Entry) /\ maxEntries \in Nat \ {0}
  BY EntriesAreEntries DEF EntryOf, TypeOK
<1>3. Latest \in [Threads -> Int] /\ Latest' \in [Threads -> Int]
  BY LatestType DEF Latest, TypeOK
<1>4. Latest'[t] = calls[t] /\ Latest[t] = calls[t] - 1 /\ calls[t] \in Nat
  BY <1>1 DEF Latest, TypeOK
<1>5. \A u \in Threads : u # t => Latest'[u] = Latest[u]
  BY <1>1 DEF Latest, TypeOK
<1>6. \A u \in Threads : Latest'[u] = IF u = EntryOf(t).who THEN Latest[u] + 1 ELSE Latest[u]
  BY <1>2, <1>4, <1>5
<1>7. EntryOf(t).n = Latest'[EntryOf(t).who]
  BY <1>2, <1>4
<1>9. CountsOn(Latest, Latest', EntryOf(t))
  BY <1>6, <1>7 DEF CountsOn
<1>8. Follows(Pushed(entries, maxEntries, EntryOf(t)), Latest')
  BY <1>2, <1>3, <1>9, PushFollows
<1> QED BY <1>1, <1>8

(* Between the look and the record a call is a number that Latest does not *)
(* count yet, so whatever control calls come in between, a thread's        *)
(* records stay consecutive in the list, and in any tail of it.            *)
THEOREM RecordsWithoutGaps == Spec => []NoGaps
<1>1. Init => GapInv
  BY DEF Init, GapInv, Follows, Gapless, GoesOn
<1>2. TypeOK /\ TypeOK' /\ GapInv /\ [Next]_vars => GapInv'
  <2> SUFFICES ASSUME TypeOK, TypeOK', Follows(entries, Latest), [Next]_vars
               PROVE  Follows(entries', Latest')
    BY DEF GapInv
  <2>1. ASSUME UNCHANGED <<pc, calls>>
        PROVE  Latest' = Latest
    BY <2>1 DEF Latest
  <2>2. ASSUME NEW max \in Sizes, NEW on \in BOOLEAN, InitLog(max, on)
        PROVE  Follows(entries', Latest')
    <3>1. max \in Nat \ {0} /\ Latest' = Latest
      BY <2>1, <2>2, SizesAssumption DEF InitLog, ControlCall
    <3>2. entries' = entries \/ entries' = Pushed(entries, max, SystemEntry)
      BY <2>2 DEF InitLog
    <3> QED BY <3>1, <3>2, SystemFollows
  <2>3. ASSUME NEW on \in BOOLEAN, SetEnabled(on)
        PROVE  Follows(entries', Latest')
    <3>1. Latest' = Latest /\ maxEntries \in Nat \ {0}
      BY <2>1, <2>3 DEF SetEnabled, ControlCall, TypeOK
    <3>2. entries' = entries \/ entries' = Pushed(entries, maxEntries, SystemEntry)
      BY <2>3 DEF SetEnabled
    <3> QED BY <3>1, <3>2, SystemFollows
  <2>4. ASSUME NEW set \in BOOLEAN, SetAuditCallback(set)
        PROVE  Follows(entries', Latest')
    BY <2>1, <2>4 DEF SetAuditCallback, ControlCall, logVars
  <2>5. CASE Shutdown
    <3>1. entries' = <<>>
      BY <2>5 DEF Shutdown
    <3> QED BY <3>1 DEF Follows, Gapless, GoesOn
  <2>6. ASSUME NEW t \in Threads, Look(t)
        PROVE  Follows(entries', Latest')
    <3>1. entries' = entries
      BY <2>6 DEF Look, logVars
    <3>2. Latest' = Latest
      BY <2>6 DEF Look, Goto, Latest, TypeOK
    <3> QED BY <3>1, <3>2
  <2>7. ASSUME NEW t \in Threads, LookForCallback(t) \/ CallBack(t)
        PROVE  Follows(entries', Latest')
    <3>1. entries' = entries
      BY <2>7 DEF LookForCallback, CallBack, logVars
    <3>2. Latest' = Latest
      BY <2>7 DEF LookForCallback, CallBack, Goto, Latest, TypeOK
    <3> QED BY <3>1, <3>2
  <2>8. CASE UNCHANGED vars
    BY <2>1, <2>8 DEF vars, logVars
  <2> QED
    BY <2>2, <2>3, <2>4, <2>5, <2>6, <2>7, <2>8, RecordFollows DEF Next, Control, LogAction
<1>3. TypeOK /\ GapInv => NoGaps
  <2> SUFFICES ASSUME TypeOK, Gapless(entries), NEW count \in 0 .. Len(entries)
               PROVE  Gapless(RecentEntries(count))
    BY DEF GapInv, Follows, NoGaps
  <2>1. CASE ~enabled \/ ~initialized
    BY <2>1 DEF RecentEntries, Gapless
  <2>2. CASE enabled /\ initialized /\ count >= Len(entries)
    BY <2>2 DEF RecentEntries
  <2>3. CASE enabled /\ initialized /\ ~(count >= Len(entries))
    <3> DEFINE first == Len(entries) - count + 1
               tail == SubSeq(entries, first, Len(entries))
    <3>1. entries \in Seq(Entry) /\ Len(entries) \in Nat /\ first \in 1 .. Len(entries) + 1
      BY DEF TypeOK
    <3>2. tail \in Seq(Entry) /\ Len(tail) = count
      BY <3>1
    <3>3. \A i \in 1 .. Len(tail) : tail[i] = entries[i + (Len(entries) - count)]
      BY <3>1, <3>2
    <3>4. Len(entries) - count \in Nat /\ Len(tail) + (Len(entries) - count) = Len(entries)
      BY <3>1, <3>2
    <3>5. RecentEntries(count) = tail
      BY <2>3 DEF RecentEntries
    <3> HIDE DEF tail
    <3>6. Gapless(tail)
      BY <3>1, <3>2, <3>3, <3>4, SuffixIsGapless
    <3> QED BY <3>5, <3>6
  <2> QED BY <2>1, <2>2, <2>3
<1> QED
  BY <1>1, <1>2, <1>3, AuditTypeCorrect, PTL DEF Spec
=============================================================================
