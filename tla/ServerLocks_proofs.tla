------------------------- MODULE ServerLocks_proofs -------------------------
(***************************************************************************)
(* ServerLocks_proofs: the server's threads keep to its hierarchy of       *)
(* mutexes and threads, so that they never wait for each other, and one of *)
(* them can always go on.                                                  *)
(*                                                                         *)
(* Threads change their programs while they run them, and a program says   *)
(* nothing about what is held.  The proof therefore follows programs       *)
(* instruction by instruction (Through): each of them takes the mutexes    *)
(* held before it to those held after it.  Such programs can be put one    *)
(* after the other, in a critical section, or on top of what a thread was  *)
(* doing, which is all the steps do with them.                             *)
(***************************************************************************)
EXTENDS ServerLocks, SequenceTheorems, WellFoundedInduction, TLAPS

H == INSTANCE LockHierarchy_proofs WITH MaxRank <- 4

(* The server's hierarchy ranks every mutex and every thread.              *)
LEMMA ServerWellRanked == H!WellRanked
<1>1. Rank \in [Resources -> 0 .. 4]
  BY DEF Rank
<1> QED BY <1>1, UsersAssumption DEF H!WellRanked, Resources

LEMMA InitHInv == Hierarchy!Init => H!HInv
<1>1. Hierarchy!Init => H!Init
  BY DEF Hierarchy!Init, H!Init
<1> QED BY <1>1, ServerWellRanked, H!InitHInv

LEMMA FreeHInv == H!HInv => DeadlockFree
<1>1. H!DeadlockFree => DeadlockFree
  BY DEF DeadlockFree, Hierarchy!DeadlockFree, H!DeadlockFree, Hierarchy!Waits, H!Waits
<1> QED BY <1>1, H!OrderedIsFree

LEMMA RunHInv ==
  ASSUME H!HInv, NEW t \in Threads, Hierarchy!Run(t)
  PROVE  H!HInv'
<1>1. H!Run(t)
  BY DEF H!Run, Hierarchy!Run, H!GoOn, Hierarchy!GoOn, H!Waits, Hierarchy!Waits,
         H!Above, Hierarchy!Above, H!Owned, Hierarchy!Owned
<1> QED BY <1>1, H!RunHInv

LEMMA CallAwayHInv ==
  ASSUME H!HInv, NEW t \in Threads, Hierarchy!CallAway(t)
  PROVE  H!HInv'
<1>1. H!CallAway(t)
  BY DEF H!CallAway, Hierarchy!CallAway, H!GoOn, Hierarchy!GoOn, H!Waits, Hierarchy!Waits,
         H!Above, Hierarchy!Above, H!Owned, Hierarchy!Owned
<1> QED BY <1>1, H!CallAwayHInv

LEMMA StutterHInv == H!HInv /\ UNCHANGED Hierarchy!vars => H!HInv'
BY DEF Hierarchy!vars, H!HInv, H!WellRanked, H!TypeOK, H!Ordered, H!Waits, H!Above, H!Owned

(* However many users there are and whatever they call: as long as every   *)
(* step keeps to the hierarchy of Rank, a set of threads that wait for     *)
(* each other never comes about.                                           *)
THEOREM HierarchySuffices == HierarchySpec => []DeadlockFree
<1>1. H!HInv /\ [Hierarchy!Next]_(Hierarchy!vars) => H!HInv'
  BY RunHInv, CallAwayHInv, StutterHInv DEF Hierarchy!Next
<1> QED BY <1>1, InitHInv, FreeHInv, PTL DEF HierarchySpec, Hierarchy!Spec

-----------------------------------------------------------------------------
(* Programs by what they do to the mutexes held: S says which instructions *)
(* take a thread from what it holds to what it then holds, and a program   *)
(* goes through S from h to g when each of its instructions in turn does.  *)
Moves == (SUBSET Mutexes) \X Instruction \X (SUBSET Mutexes)

Along(S, p, held) ==
  /\ held \in [1 .. Len(p) + 1 -> SUBSET Mutexes]
  /\ \A n \in 1 .. Len(p) : <<held[n], p[n], held[n + 1]>> \in S

Through(S, h, p, g) ==
  /\ p \in Seq(Instruction)
  /\ \E held : Along(S, p, held) /\ held[1] = h /\ held[Len(p) + 1] = g

LEMMA ThroughNothing ==
  ASSUME NEW S, NEW h \in SUBSET Mutexes
  PROVE  Through(S, h, <<>>, h)
<1> DEFINE held == [n \in 1 .. 1 |-> h]
<1>1. Along(S, <<>>, held) /\ held[1] = h /\ held[Len(<<>>) + 1] = h
  BY DEF Along
<1> QED BY <1>1 DEF Through

LEMMA ThroughOne ==
  ASSUME NEW S, NEW h \in SUBSET Mutexes, NEW g \in SUBSET Mutexes,
         NEW i \in Instruction, <<h, i, g>> \in S
  PROVE  Through(S, h, <<i>>, g)
<1> DEFINE held == [n \in 1 .. 2 |-> IF n = 1 THEN h ELSE g]
<1>1. Along(S, <<i>>, held) /\ held[1] = h /\ held[Len(<<i>>) + 1] = g
  BY DEF Along
<1> QED BY <1>1 DEF Through

LEMMA ThroughBoth ==
  ASSUME NEW S, NEW h, NEW p, NEW k, NEW q, NEW g, Through(S, h, p, k), Through(S, k, q, g)
  PROVE  Through(S, h, p \o q, g)
<1>1. PICK a : Along(S, p, a) /\ a[1] = h /\ a[Len(p) + 1] = k
  BY DEF Through
<1>2. PICK b : Along(S, q, b) /\ b[1] = k /\ b[Len(q) + 1] = g
  BY DEF Through
<1> DEFINE l == Len(p)
           held == [n \in 1 .. l + Len(q) + 1 |-> IF n <= l THEN a[n] ELSE b[n - l]]
<1>3. /\ p \in Seq(Instruction) /\ q \in Seq(Instruction)
      /\ l \in Nat /\ Len(q) \in Nat
  BY DEF Through
<1>4. /\ p \o q \in Seq(Instruction)
      /\ Len(p \o q) = l + Len(q)
      /\ \A n \in 1 .. l + Len(q) : (p \o q)[n] = IF n <= l THEN p[n] ELSE q[n - l]
  BY <1>3, ConcatProperties
<1>5. held \in [1 .. Len(p \o q) + 1 -> SUBSET Mutexes]
  BY <1>1, <1>2, <1>3, <1>4 DEF Along
<1>6. ASSUME NEW n \in 1 .. Len(p \o q)
      PROVE  <<held[n], (p \o q)[n], held[n + 1]>> \in S
  <2>1. CASE n < l
    <3>1. held[n] = a[n] /\ held[n + 1] = a[n + 1] /\ (p \o q)[n] = p[n] /\ n \in 1 .. Len(p)
      BY <1>3, <1>4, <2>1
    <3> HIDE DEF held
    <3> QED BY <1>1, <3>1 DEF Along
  <2>2. CASE n = l
    <3>1. held[n] = a[n] /\ held[n + 1] = b[1] /\ (p \o q)[n] = p[n] /\ n \in 1 .. Len(p)
      BY <1>3, <1>4, <2>2
    <3> HIDE DEF held
    <3> QED BY <1>1, <1>2, <2>2, <3>1 DEF Along
  <2>3. CASE n > l
    <3>1. /\ held[n] = b[n - l] /\ held[n + 1] = b[n - l + 1]
          /\ (p \o q)[n] = q[n - l] /\ n - l \in 1 .. Len(q)
      BY <1>3, <1>4, <2>3
    <3> HIDE DEF held
    <3> QED BY <1>2, <3>1 DEF Along
  <2>4. n \in Nat /\ l \in Nat
    BY <1>3, <1>4
  <2> HIDE DEF held, l
  <2> QED BY <2>1, <2>2, <2>3, <2>4
<1>7. held[1] = h
  BY <1>1, <1>2, <1>3
<1>8. held[Len(p \o q) + 1] = g
  BY <1>2, <1>3, <1>4
<1> HIDE DEF held
<1>9. Along(S, p \o q, held)
  BY <1>5, <1>6 DEF Along
<1> QED BY <1>4, <1>7, <1>8, <1>9 DEF Through

LEMMA ThroughFirst ==
  ASSUME NEW S, NEW h, NEW p, NEW g, Through(S, h, p, g), p # <<>>
  PROVE  /\ Head(p) \in Instruction /\ Tail(p) \in Seq(Instruction)
         /\ \E k \in SUBSET Mutexes : <<h, Head(p), k>> \in S /\ Through(S, k, Tail(p), g)
<1>1. PICK a : Along(S, p, a) /\ a[1] = h /\ a[Len(p) + 1] = g
  BY DEF Through
<1>2. p \in Seq(Instruction) /\ Len(p) \in Nat /\ Len(p) # 0
  BY EmptySeq DEF Through
<1>3. /\ Head(p) = p[1] /\ Head(p) \in Instruction
      /\ Tail(p) \in Seq(Instruction)
      /\ Len(Tail(p)) = Len(p) - 1
      /\ \A n \in 1 .. Len(Tail(p)) : Tail(p)[n] = p[n + 1]
  BY <1>2, HeadTailProperties
<1> DEFINE held == [n \in 1 .. Len(Tail(p)) + 1 |-> a[n + 1]]
<1>4. held \in [1 .. Len(Tail(p)) + 1 -> SUBSET Mutexes]
  BY <1>1, <1>2, <1>3 DEF Along
<1>5. ASSUME NEW n \in 1 .. Len(Tail(p))
      PROVE  <<held[n], Tail(p)[n], held[n + 1]>> \in S
  <2>1. /\ held[n] = a[n + 1] /\ held[n + 1] = a[n + 1 + 1]
        /\ Tail(p)[n] = p[n + 1] /\ n + 1 \in 1 .. Len(p)
    BY <1>2, <1>3
  <2> HIDE DEF held
  <2> QED BY <1>1, <2>1 DEF Along
<1>6. held[1] = a[2] /\ held[Len(Tail(p)) + 1] = g
  BY <1>1, <1>2, <1>3
<1>7. <<h, Head(p), a[2]>> \in S /\ a[2] \in SUBSET Mutexes
  BY <1>1, <1>2, <1>3 DEF Along
<1> HIDE DEF held
<1>8. Through(S, a[2], Tail(p), g)
  BY <1>3, <1>4, <1>5, <1>6 DEF Through, Along
<1> QED BY <1>3, <1>7, <1>8

LEMMA ThroughEnd ==
  ASSUME NEW S, NEW h, NEW g, Through(S, h, <<>>, g)
  PROVE  h = g
BY DEF Through

LEMMA ThroughSets ==
  ASSUME NEW S, NEW h, NEW p, NEW g, Through(S, h, p, g)
  PROVE  h \in SUBSET Mutexes /\ g \in SUBSET Mutexes
<1>1. Len(p) \in Nat
  BY DEF Through
<1> QED BY <1>1 DEF Through, Along

(* A mutex that is held before a program and not after it is given up by   *)
(* an instruction of it: the one after which it is first not held.         *)
LEMMA ThroughLeaves ==
  ASSUME NEW S, NEW h, NEW p, NEW g, Through(S, h, p, g), NEW m \in h \ g
  PROVE  \E n \in 1 .. Len(p) : \E k, l \in SUBSET Mutexes :
           <<k, p[n], l>> \in S /\ m \in k \ l
<1>1. PICK held : Along(S, p, held) /\ held[1] = h /\ held[Len(p) + 1] = g
  BY DEF Through
<1> DEFINE Without == {n \in 1 .. Len(p) + 1 : m \notin held[n]}
           Less == OpToRel(<, Nat)
<1>2. Len(p) \in Nat
  BY DEF Through
<1>3. Without \subseteq Nat /\ Without # {}
  BY <1>1, <1>2
<1>4. PICK n \in Without : \A o \in Without : <<o, n>> \notin Less
  <2>1. IsWellFoundedOn(Less, Nat)
    BY NatLessThanWellFounded
  <2> HIDE DEF Without, Less
  <2> QED BY <1>3, <2>1, WFMin
<1>5. \A o \in Without : ~(o < n)
  BY <1>3, <1>4 DEF OpToRel
<1>6. n # 1
  BY <1>1
<1>7. n - 1 \in 1 .. Len(p) /\ n - 1 + 1 = n
  BY <1>2, <1>6
<1>8. m \in held[n - 1] \ held[n]
  BY <1>2, <1>5, <1>7
<1>9. <<held[n - 1], p[n - 1], held[n]>> \in S
  BY <1>1, <1>7 DEF Along
<1>10. held[n - 1] \in SUBSET Mutexes /\ held[n] \in SUBSET Mutexes
  BY <1>1, <1>2, <1>7 DEF Along
<1> QED BY <1>7, <1>8, <1>9, <1>10

-----------------------------------------------------------------------------
(* The types.  Whatever the settings, a mutex that a thread holds is one   *)
(* that the rest of its program unlocks.                                   *)

(* The instructions that take a thread that will unlock the mutexes of h   *)
(* to one that will then unlock those of g.                                *)
Kept ==
  {v \in Moves :
     LET h == v[1]
         i == v[2]
         g == v[3]
     IN /\ i.op \in {"lock", "unlock"} => i.on \in Mutexes
        /\ i.op = "await" => i.on \in Resources
        /\ i.op \in {"spawn", "reap"} => i.on \in Threads
        /\ i.op \in {"raise", "lower"} => i.on \in Flags
        /\ i.op = "lock" => h \union {i.on} \subseteq g
        /\ i.op = "unlock" => h \subseteq g \union {i.on}
        /\ i.op \notin {"lock", "unlock"} => h \subseteq g}

(* A program that unlocks whatever it locks, on top of any other.          *)
Balanced == {p \in Seq(Instruction) : \A h \in SUBSET Mutexes : Through(Kept, h, p, h)}

LEMMA KeptMove ==
  ASSUME NEW h \in SUBSET Mutexes, NEW g \in SUBSET Mutexes, NEW i \in Instruction
  PROVE  <<h, i, g>> \in Kept <=>
           /\ i.op \in {"lock", "unlock"} => i.on \in Mutexes
           /\ i.op = "await" => i.on \in Resources
           /\ i.op \in {"spawn", "reap"} => i.on \in Threads
           /\ i.op \in {"raise", "lower"} => i.on \in Flags
           /\ i.op = "lock" => h \union {i.on} \subseteq g
           /\ i.op = "unlock" => h \subseteq g \union {i.on}
           /\ i.op \notin {"lock", "unlock"} => h \subseteq g
<1>1. <<h, i, g>> \in Moves
  BY DEF Moves
<1> QED BY <1>1 DEF Kept

LEMMA BalancedNothing == <<>> \in Balanced
BY ThroughNothing DEF Balanced

LEMMA BalancedBoth == \A p, q \in Balanced : p \o q \in Balanced
BY ThroughBoth, ConcatProperties DEF Balanced

LEMMA BalancedOne ==
  ASSUME NEW op \in Ops \ {"lock", "unlock"}, NEW on \in Resources \union Flags,
         op = "await" => on \in Resources,
         op \in {"spawn", "reap"} => on \in Threads,
         op \in {"raise", "lower"} => on \in Flags
  PROVE  Do(op, on) \in Balanced
<1> DEFINE i == [op |-> op, on |-> on]
<1>1. i \in Instruction /\ i.op = op /\ i.on = on
  BY DEF Instruction
<1> HIDE DEF i
<1>2. \A h \in SUBSET Mutexes : Through(Kept, h, <<i>>, h)
  BY <1>1, KeptMove, ThroughOne
<1>3. <<i>> \in Balanced
  BY <1>1, <1>2 DEF Balanced
<1> QED BY <1>3 DEF i, Do

LEMMA BalancedDo ==
  /\ \A c \in Flags : /\ Do("raise", c) \in Balanced /\ Do("lower", c) \in Balanced
                      /\ Do("open", c) \in Balanced /\ Do("shutdown", c) \in Balanced
                      /\ Do("destroy", c) \in Balanced
  /\ \A t \in Threads : /\ Do("spawn", t) \in Balanced /\ Do("reap", t) \in Balanced
                        /\ Do("call", t) \in Balanced
  /\ \A r \in Resources : Do("await", r) \in Balanced
<1>1. {"raise", "lower", "open", "shutdown", "destroy", "spawn", "reap", "call", "await"}
        \subseteq Ops \ {"lock", "unlock"}
  BY DEF Ops
<1>2. Threads \subseteq Resources
  BY DEF Resources
<1> QED BY <1>1, <1>2, BalancedOne

LEMMA BalancedSection ==
  ASSUME NEW m \in Mutexes, NEW p \in Balanced
  PROVE  Do("lock", m) \o p \o Do("unlock", m) \in Balanced
<1> DEFINE i == [op |-> "lock", on |-> m]
           j == [op |-> "unlock", on |-> m]
<1>1. /\ i \in Instruction /\ i.op = "lock" /\ i.on = m
      /\ j \in Instruction /\ j.op = "unlock" /\ j.on = m
  BY DEF Instruction, Ops, Resources
<1> HIDE DEF i, j
<1>2. ASSUME NEW h \in SUBSET Mutexes
      PROVE  Through(Kept, h, <<i>> \o p \o <<j>>, h)
  <2>1. h \union {m} \in SUBSET Mutexes
    OBVIOUS
  <2>2. Through(Kept, h, <<i>>, h \union {m})
    <3>1. <<h, i, h \union {m}>> \in Kept
      BY <1>1, <2>1, KeptMove
    <3> QED BY <1>1, <2>1, <3>1, ThroughOne
  <2>3. Through(Kept, h \union {m}, p, h \union {m})
    BY <2>1 DEF Balanced
  <2>4. Through(Kept, h \union {m}, <<j>>, h)
    <3>1. <<h \union {m}, j, h>> \in Kept
      BY <1>1, <2>1, KeptMove
    <3> QED BY <1>1, <2>1, <3>1, ThroughOne
  <2> QED BY <2>2, <2>3, <2>4, ThroughBoth
<1>3. <<i>> \o p \o <<j>> \in Seq(Instruction)
  BY <1>2 DEF Through
<1>4. <<i>> \o p \o <<j>> \in Balanced
  BY <1>2, <1>3 DEF Balanced
<1> QED BY <1>4 DEF i, j, Do

LEMMA BalancedHolding == \A m \in Mutexes : \A p \in Balanced : Holding(m, p) \in Balanced
BY BalancedSection, BalancedDo DEF Holding, Resources

LEMMA BalancedLog == Log \in Balanced /\ Line \in Balanced
BY BalancedHolding, BalancedNothing DEF Log, Line, Mutexes

(* What the threads run and call unlocks what it locks.                    *)
LEMMA BalancedCalls == \A t \in Threads : Calls(t) \subseteq Balanced
<1>1. {"clients", "routes", "audit", "world", "debug"} \subseteq Mutexes
  BY DEF Mutexes
<1> USE BalancedLog, BalancedHolding, BalancedNothing, BalancedBoth
<1>2. HandleAccept \subseteq Balanced /\ CleanupClients \subseteq Balanced
  <2>1. \A gone \in {<<>>, Log} : Holding("clients", gone) \in Balanced
    BY <1>1
  <2>2. \A gone \in {<<>>, Log} : Holding("clients", <<>>) \o Holding("clients", gone) \in Balanced
    BY <2>1
  <2> QED BY <2>1, <2>2 DEF HandleAccept, CleanupClients
<1>3. Requests \subseteq Balanced
  BY <1>1, BalancedDo DEF Requests, ProcessRequest, Threads, Workers
<1>4. Recent \in Balanced
  BY <1>1 DEF Recent
<1>5. LogAction \subseteq Balanced /\ EntriesByFilter \subseteq Balanced
  <2>1. \A callback \in {<<>>, Log, Recent} : Holding("audit", <<>>) \o callback \in Balanced
    BY <1>1, <1>4
  <2> QED BY <1>1, <2>1 DEF LogAction, EntriesByFilter
<1>6. WorldCalls \subseteq Balanced /\ DebugCalls \subseteq Balanced
  BY <1>1 DEF WorldCalls, DebugCalls
<1> QED BY <1>2, <1>3, <1>4, <1>5, <1>6 DEF Calls, AuditCalls

LEMMA BalancedBody == \A t \in Threads : Body(t) \in Balanced
<1>1. /\ {"server", "rest", "game", "bn"} \subseteq Flags
      /\ {"main", "bnRun", "gameRun", "restRun", "bnIo", "restIo"} \subseteq Threads
      /\ "routes" \in Mutexes
  BY DEF Flags, Threads, Workers, Mutexes
<1>2. RegisterRoutes \in Balanced /\ Line \in Balanced
  BY <1>1, BalancedLog, BalancedHolding DEF RegisterRoutes
<1>3. \A t \in Threads : Loop(t) \in Balanced
  BY BalancedDo DEF Loop
<1> DEFINE Start == Do("raise", "game") \o RegisterRoutes \o Do("raise", "server") \o Line
                      \o Do("spawn", "bnRun") \o Do("spawn", "gameRun") \o Do("spawn", "restRun")
<1>4. Start \in Balanced
  BY <1>1, <1>2, BalancedDo, BalancedBoth
<1>5. ASSUME NEW s \in Balanced
      PROVE  s \o Loop("main") \o Line \o Do("destroy", "server") \o Do("destroy", "rest")
               \o Do("destroy", "game") \o Do("destroy", "bn") \o Line \in Balanced
  BY <1>1, <1>2, <1>3, BalancedDo, BalancedBoth
<1>6. Body("main") \in Balanced
  BY <1>4, <1>5 DEF Body
<1>7. ASSUME NEW t \in Threads \ {"main"}
      PROVE  Body(t) \in Balanced
  BY <1>1, <1>3, BalancedDo, BalancedBoth DEF Body
<1> QED BY <1>6, <1>7

LEMMA BalancedShutdown ==
  /\ \A c : Shutdown(c) \subseteq Balanced
  /\ SignalHandler \in Balanced
<1>1. /\ {"server", "rest", "game", "bn", "gameStop"} \subseteq Flags
      /\ {"bnRun", "gameRun", "restRun", "bnIo", "gameLoop", "restIo"} \subseteq Threads
      /\ "clients" \in Mutexes
  BY DEF Flags, Threads, Workers, Mutexes
<1> USE BalancedLog, BalancedBoth
<1>2. ShutdownRest \in Balanced /\ ShutdownGame \in Balanced
  BY <1>1, BalancedDo DEF ShutdownRest, ShutdownGame
<1>3. \A gone \in {<<>>, Log} : ShutdownBn(gone) \in Balanced
  BY <1>1, BalancedDo, BalancedHolding, BalancedNothing DEF ShutdownBn
<1>4. ShutdownServer \in Balanced
  BY <1>1, BalancedDo DEF ShutdownServer
<1>5. SignalHandler \in Balanced
  BY <1>1, BalancedDo DEF SignalHandler
<1> QED BY <1>2, <1>3, <1>4, <1>5 DEF Shutdown

LEMMA BalancedExpansions ==
  ASSUME NEW i \in Instruction, i.op = "reap" => i.on \in Threads
  PROVE  Expansions(i) \subseteq Balanced
<1>1. "gameLoop" \in Threads /\ Threads \subseteq Resources
  BY DEF Threads, Workers, Resources
<1> QED BY <1>1, BalancedShutdown, BalancedNothing, BalancedDo DEF Expansions

(* A thread's first instruction is one that does not wait.                 *)
Ready == {p \in Seq(Instruction) : p # <<>> /\ Head(p).op \notin {"lock", "await"}}

LEMMA ReadyDo ==
  /\ \A c \in Flags : /\ Do("raise", c) \in Ready /\ Do("open", c) \in Ready
                      /\ Do("destroy", c) \in Ready
  /\ \A t \in Threads : Do("call", t) \in Ready
<1>1. ASSUME NEW op \in Ops \ {"lock", "await"}, NEW on \in Resources \union Flags
      PROVE  Do(op, on) \in Ready
  <2> DEFINE i == [op |-> op, on |-> on]
  <2>1. i \in Instruction /\ i.op = op
    BY DEF Instruction
  <2> HIDE DEF i
  <2>2. <<i>> \in Ready
    BY <2>1 DEF Ready
  <2> QED BY <2>2 DEF i, Do
<1>2. {"raise", "open", "destroy", "call"} \subseteq Ops \ {"lock", "await"}
  BY DEF Ops
<1> QED BY <1>1, <1>2 DEF Resources

LEMMA ReadyBoth == \A p \in Ready : \A q \in Balanced : p \o q \in Ready
<1> SUFFICES ASSUME NEW p \in Ready, NEW q \in Balanced
             PROVE  p \o q \in Ready
  OBVIOUS
<1>1. /\ p \in Seq(Instruction) /\ q \in Seq(Instruction) /\ p # <<>>
      /\ Head(p).op \notin {"lock", "await"}
  BY DEF Ready, Balanced
<1>2. Len(p) \in Nat \ {0} /\ Len(q) \in Nat
  BY <1>1, EmptySeq
<1>3. p \o q \in Seq(Instruction) /\ Len(p \o q) # 0 /\ (p \o q)[1] = p[1]
  BY <1>1, <1>2, ConcatProperties
<1>4. p \o q # <<>> /\ Head(p \o q) = Head(p)
  BY <1>1, <1>2, <1>3
<1> QED BY <1>1, <1>3, <1>4 DEF Ready

LEMMA ReadyBody == \A t \in Threads : Body(t) \in Ready
<1>1. /\ {"server", "rest", "game", "bn"} \subseteq Flags
      /\ {"main", "bnRun", "gameRun", "restRun", "bnIo", "restIo"} \subseteq Threads
      /\ "routes" \in Mutexes
  BY DEF Flags, Threads, Workers, Mutexes
<1>2. RegisterRoutes \in Balanced /\ Line \in Balanced
  BY <1>1, BalancedLog, BalancedHolding DEF RegisterRoutes
<1>3. \A t \in Threads : Loop(t) \in Balanced
  BY BalancedDo DEF Loop
<1> DEFINE Start == Do("raise", "game") \o RegisterRoutes \o Do("raise", "server") \o Line
                      \o Do("spawn", "bnRun") \o Do("spawn", "gameRun") \o Do("spawn", "restRun")
<1>4. Start \in Ready
  BY <1>1, <1>2, BalancedDo, ReadyDo, ReadyBoth
<1>5. ASSUME NEW s \in Ready
      PROVE  s \o Loop("main") \o Line \o Do("destroy", "server") \o Do("destroy", "rest")
               \o Do("destroy", "game") \o Do("destroy", "bn") \o Line \in Ready
  BY <1>1, <1>2, <1>3, BalancedDo, ReadyBoth
<1>6. Body("main") \in Ready
  BY <1>4, <1>5 DEF Body
<1>7. ASSUME NEW t \in Threads \ {"main"}
      PROVE  Body(t) \in Ready
  BY <1>1, <1>3, BalancedDo, ReadyDo, ReadyBoth DEF Body, Loop
<1> QED BY <1>6, <1>7

(* A mutex to unlock, and none left to unlock at the end: it is unlocked.  *)
LEMMA KeptUnlocks ==
  ASSUME NEW h, NEW p, Through(Kept, h, p, {}), NEW m \in h
  PROVE  \E n \in DOMAIN p : p[n] = [op |-> "unlock", on |-> m]
<1>1. p \in Seq(Instruction) /\ DOMAIN p = 1 .. Len(p)
  BY LenProperties DEF Through
<1>2. PICK n \in 1 .. Len(p) : \E k, l \in SUBSET Mutexes :
        <<k, p[n], l>> \in Kept /\ m \in k \ l
  <2>1. m \in h \ {}
    OBVIOUS
  <2> QED BY <2>1, ThroughLeaves
<1>3. PICK k \in SUBSET Mutexes, l \in SUBSET Mutexes : <<k, p[n], l>> \in Kept /\ m \in k \ l
  BY <1>2
<1>4. p[n] \in Instruction
  BY <1>1, ElementOfSeq
<1>5. p[n].op = "unlock" /\ p[n].on = m
  BY <1>3, <1>4, KeptMove
<1> QED BY <1>1, <1>4, <1>5 DEF Instruction
-----------------------------------------------------------------------------
Held(t) == {m \in Mutexes : owner[m] = t}

(* What t still has to execute unlocks every mutex it has locked, or will  *)
(* have; and it has something left to execute as long as it lives.         *)
KeepsProgram(t) ==
  /\ \E h \in SUBSET Mutexes : Held(t) \subseteq h /\ Through(Kept, h, rest[t], {})
  /\ owner[t] = t => rest[t] # <<>>

KInv ==
  /\ owner \in [Resources -> Threads \union {Nobody}]
  /\ rest \in [Threads -> Seq(Instruction)]
  /\ \A t \in Threads : /\ owner[t] \in {t, Nobody} /\ KeepsProgram(t)
                        /\ t \notin started => rest[t] \in Ready
  /\ started \subseteq Threads /\ up \subseteq Flags /\ signals \subseteq Signals
  /\ wants = Waiting

LEMMA Apart ==
  /\ Mutexes \intersect Threads = {} /\ Mutexes \subseteq Resources /\ Threads \subseteq Resources
  /\ Nobody \notin Threads /\ Nobody \notin Mutexes
BY UsersAssumption DEF Resources, Threads, Mutexes, Workers

(* What an active thread is at: an instruction of the right type, with     *)
(* what comes after it.                                                    *)
LEMMA AtKept ==
  ASSUME KInv, NEW t \in Threads, Active(t)
  PROVE  /\ Head(rest[t]) \in Instruction /\ Tail(rest[t]) \in Seq(Instruction)
         /\ \E h, k \in SUBSET Mutexes :
              /\ Held(t) \subseteq h /\ <<h, Head(rest[t]), k>> \in Kept
              /\ Through(Kept, h, rest[t], {}) /\ Through(Kept, k, Tail(rest[t]), {})
<1>1. PICK h \in SUBSET Mutexes : Held(t) \subseteq h /\ Through(Kept, h, rest[t], {})
  BY DEF KInv, KeepsProgram
<1>2. rest[t] # <<>>
  BY DEF KInv, KeepsProgram, Active
<1> QED BY <1>1, <1>2, ThroughFirst

LEMMA KInvTypes == KInv => TypeOK
<1> SUFFICES ASSUME KInv
             PROVE  TypeOK
  OBVIOUS
<1> USE DEF KInv
<1>1. ASSUME NEW m \in Mutexes, owner[m] # Nobody
      PROVE  \E n \in DOMAIN rest[owner[m]] : rest[owner[m]][n] = [op |-> "unlock", on |-> m]
  <2> DEFINE t == owner[m]
  <2>1. t \in Threads /\ m \in Held(t)
    BY <1>1, Apart DEF Held
  <2>2. PICK h \in SUBSET Mutexes : m \in h /\ Through(Kept, h, rest[t], {})
    BY <2>1 DEF KeepsProgram
  <2> QED BY <2>2, KeptUnlocks
<1>2. ASSUME NEW t \in Threads, At(t, {"lock", "await"})
      PROVE  On(t) \in Resources
  <2>1. Active(t) /\ Head(rest[t]).op \in {"lock", "await"}
    BY <1>2 DEF At
  <2>2. Head(rest[t]) \in Instruction
    BY <2>1, AtKept
  <2>3. PICK h \in SUBSET Mutexes, k \in SUBSET Mutexes : <<h, Head(rest[t]), k>> \in Kept
    BY <2>1, AtKept
  <2> QED BY <2>1, <2>2, <2>3, KeptMove, Apart DEF On
<1>3. wants \in [Threads -> Resources \union {Nobody}]
  BY <1>2 DEF Waiting
<1> QED BY <1>1, <1>3 DEF TypeOK

LEMMA InitKInv == Init => KInv
<1> SUFFICES ASSUME Init
             PROVE  KInv
  OBVIOUS
<1> USE DEF Init
<1>1. ASSUME NEW t \in Threads
      PROVE  KeepsProgram(t)
  <2>1. Held(t) = {}
    BY Apart DEF Held
  <2>2. Through(Kept, {}, rest[t], {})
    BY BalancedBody DEF Balanced
  <2>3. rest[t] # <<>>
    BY ReadyBody DEF Ready
  <2> QED BY <2>1, <2>2, <2>3 DEF KeepsProgram
<1>2. rest \in [Threads -> Seq(Instruction)]
  BY BalancedBody DEF Balanced
<1> QED BY <1>1, <1>2, ReadyBody, Apart, StartsAssumption DEF KInv

(* A step of t to the program p, which t enters with k to unlock.          *)
StepTo(t, p, k) ==
  /\ rest' = [rest EXCEPT ![t] = p]
  /\ owner' \in [Resources -> Threads \union {Nobody}]
  /\ \A m \in Mutexes : owner'[m] \in {owner[m], t, Nobody} /\ (owner'[m] = t => m \in k)
  /\ \A u \in Threads \ {t} : owner'[u] = owner[u]
  /\ owner'[t] \in {t, Nobody} /\ (owner'[t] = t => p # <<>>)
  /\ started \subseteq started' /\ started' \subseteq Threads /\ t \in started
  /\ up' \subseteq Flags /\ signals' \subseteq signals
  /\ wants' = Waiting'

LEMMA StepKInv ==
  ASSUME KInv, NEW t \in Threads, NEW p, NEW k, Through(Kept, k, p, {}), StepTo(t, p, k)
  PROVE  KInv'
<1>1. rest' \in [Threads -> Seq(Instruction)] /\ rest'[t] = p
      /\ \A u \in Threads \ {t} : rest'[u] = rest[u]
  BY DEF KInv, StepTo, Through
<1>2. KeepsProgram(t)'
  <2>1. Held(t)' \subseteq k
    BY DEF Held, StepTo
  <2>2. k \in SUBSET Mutexes
    BY ThroughSets
  <2>3. Through(Kept, k, rest'[t], {})
    BY <1>1
  <2> QED BY <1>1, <2>1, <2>2, <2>3 DEF KeepsProgram, StepTo
<1>3. ASSUME NEW u \in Threads \ {t}
      PROVE  KeepsProgram(u)'
  <2>1. Held(u)' \subseteq Held(u)
    BY Apart DEF Held, StepTo
  <2>2. KeepsProgram(u)
    BY DEF KInv
  <2>3. rest'[u] = rest[u] /\ owner'[u] = owner[u]
    BY <1>1 DEF StepTo
  <2> QED BY <2>1, <2>2, <2>3 DEF KeepsProgram
<1>4. ASSUME NEW u \in Threads
      PROVE  /\ owner'[u] \in {u, Nobody}
             /\ u \notin started' => rest'[u] \in Ready
  BY <1>1 DEF KInv, StepTo
<1> QED BY <1>1, <1>2, <1>3, <1>4 DEF KInv, StepTo

(* Going on with a balanced program on top of what comes after.            *)
LEMMA GoOnStepTo ==
  ASSUME KInv, NEW t \in Threads, Active(t),
         NEW p \in Balanced, NEW k, Through(Kept, k, Tail(rest[t]), {}), NEW locks,
         GoOn(t, p, locks),
         locks \in [Resources -> Threads \union {Nobody}],
         \A m \in Mutexes : locks[m] \in {owner[m], t, Nobody} /\ (locks[m] = t => m \in k),
         \A u \in Threads : locks[u] = owner[u],
         started \subseteq started', started' \subseteq Threads,
         up' \subseteq Flags, signals' = signals, wants' = Waiting'
  PROVE  /\ Through(Kept, k, p \o Tail(rest[t]), {})
         /\ StepTo(t, p \o Tail(rest[t]), k)
<1>1. k \in SUBSET Mutexes
  BY ThroughSets
<1>2. Through(Kept, k, p \o Tail(rest[t]), {})
  BY <1>1, ThroughBoth DEF Balanced
<1>3. rest' = [rest EXCEPT ![t] = p \o Tail(rest[t])] /\ rest'[t] = p \o Tail(rest[t])
  BY DEF GoOn, KInv
<1>4. owner' = IF rest'[t] = <<>> THEN [locks EXCEPT ![t] = Nobody] ELSE locks
  BY DEF GoOn
<1>5. locks[t] = t /\ t \in Resources
  BY Apart DEF Active
<1>6. owner' \in [Resources -> Threads \union {Nobody}]
  BY <1>4
<1>7. \A m \in Mutexes : owner'[m] = locks[m]
  BY <1>4, Apart
<1>8. \A u \in Threads \ {t} : owner'[u] = owner[u]
  BY <1>4, Apart
<1>9. owner'[t] \in {t, Nobody} /\ (owner'[t] = t => rest'[t] # <<>>)
  BY <1>4, <1>5, Apart
<1> QED BY <1>2, <1>3, <1>6, <1>7, <1>8, <1>9 DEF StepTo, Active

LEMMA LockKInv ==
  ASSUME KInv, NEW t \in Threads, Lock(t), wants' = Waiting'
  PROVE  KInv'
<1> DEFINE m == On(t)
           locks == [owner EXCEPT ![m] = t]
<1>1. Active(t) /\ Head(rest[t]).op = "lock" /\ Head(rest[t]).on = m
  BY DEF Lock, At, On
<1>2. PICK h \in SUBSET Mutexes, k \in SUBSET Mutexes :
        /\ Held(t) \subseteq h /\ <<h, Head(rest[t]), k>> \in Kept
        /\ Through(Kept, k, Tail(rest[t]), {})
  BY <1>1, AtKept
<1>3. m \in Mutexes /\ Held(t) \union {m} \subseteq k
  BY <1>1, <1>2, AtKept, KeptMove
<1>4. /\ GoOn(t, <<>>, locks) /\ owner[m] = Nobody
      /\ started' = started /\ up' = up /\ signals' = signals
  BY DEF Lock
<1>5. /\ locks \in [Resources -> Threads \union {Nobody}]
      /\ \A n \in Mutexes : locks[n] \in {owner[n], t, Nobody} /\ (locks[n] = t => n \in k)
      /\ \A u \in Threads : locks[u] = owner[u]
  BY <1>3, Apart DEF KInv, Held
<1> HIDE DEF locks, m
<1>6. \E p : Through(Kept, k, p, {}) /\ StepTo(t, p, k)
  BY <1>1, <1>2, <1>4, <1>5, BalancedNothing, GoOnStepTo DEF KInv
<1> QED BY <1>6, StepKInv

LEMMA UnlockKInv ==
  ASSUME KInv, NEW t \in Threads, Unlock(t), wants' = Waiting'
  PROVE  KInv'
<1> DEFINE m == On(t)
           locks == [owner EXCEPT ![m] = Nobody]
<1>1. Active(t) /\ Head(rest[t]).op = "unlock" /\ Head(rest[t]).on = m
  BY DEF Unlock, At, On
<1>2. PICK h \in SUBSET Mutexes, k \in SUBSET Mutexes :
        /\ Held(t) \subseteq h /\ <<h, Head(rest[t]), k>> \in Kept
        /\ Through(Kept, k, Tail(rest[t]), {})
  BY <1>1, AtKept
<1>3. m \in Mutexes /\ Held(t) \subseteq k \union {m}
  BY <1>1, <1>2, AtKept, KeptMove
<1>4. /\ GoOn(t, <<>>, locks)
      /\ started' = started /\ up' = up /\ signals' = signals
  BY DEF Unlock
<1>5. /\ locks \in [Resources -> Threads \union {Nobody}]
      /\ \A n \in Mutexes : locks[n] \in {owner[n], t, Nobody} /\ (locks[n] = t => n \in k)
      /\ \A u \in Threads : locks[u] = owner[u]
  BY <1>3, Apart DEF KInv, Held
<1> HIDE DEF locks, m
<1>6. \E p : Through(Kept, k, p, {}) /\ StepTo(t, p, k)
  BY <1>1, <1>2, <1>4, <1>5, BalancedNothing, GoOnStepTo DEF KInv
<1> QED BY <1>6, StepKInv

(* The steps that change no mutex.                                         *)
LEMMA GoOnKInv ==
  ASSUME KInv, NEW t \in Threads, Active(t), Head(rest[t]).op \notin {"lock", "unlock"},
         NEW p \in Balanced, GoOn(t, p, owner),
         started \subseteq started', started' \subseteq Threads,
         up' \subseteq Flags, signals' = signals, wants' = Waiting'
  PROVE  KInv'
<1>1. PICK h \in SUBSET Mutexes, k \in SUBSET Mutexes :
        /\ Held(t) \subseteq h /\ <<h, Head(rest[t]), k>> \in Kept
        /\ Through(Kept, k, Tail(rest[t]), {})
  BY AtKept
<1>2. Held(t) \subseteq k
  BY <1>1, AtKept, KeptMove
<1>3. /\ owner \in [Resources -> Threads \union {Nobody}]
      /\ \A n \in Mutexes : owner[n] \in {owner[n], t, Nobody} /\ (owner[n] = t => n \in k)
  BY <1>2 DEF KInv, Held
<1>4. \E q : Through(Kept, k, q, {}) /\ StepTo(t, q, k)
  BY <1>1, <1>3, GoOnStepTo
<1> QED BY <1>4, StepKInv

(* What the instructions are about.                                        *)
LEMMA AtTypes ==
  ASSUME KInv, NEW t \in Threads, Active(t)
  PROVE  /\ Head(rest[t]).op \in {"lock", "unlock"} => On(t) \in Mutexes
         /\ Head(rest[t]).op \in {"spawn", "reap"} => On(t) \in Threads
         /\ Head(rest[t]).op \in {"raise", "lower"} => On(t) \in Flags
<1>1. PICK h \in SUBSET Mutexes, k \in SUBSET Mutexes : <<h, Head(rest[t]), k>> \in Kept
  BY AtKept
<1> QED BY <1>1, AtKept, KeptMove DEF On

LEMMA AwaitKInv ==
  ASSUME KInv, NEW t \in Threads, Await(t), wants' = Waiting'
  PROVE  KInv'
BY GoOnKInv, BalancedNothing DEF Await, At, KInv

LEMMA SpawnKInv ==
  ASSUME KInv, NEW t \in Threads, Spawn(t), wants' = Waiting'
  PROVE  KInv'
<1>1. Active(t) /\ Head(rest[t]).op = "spawn"
  BY DEF Spawn, At
<1>2. started \subseteq started' /\ started' \subseteq Threads
  BY <1>1, AtTypes DEF Spawn, KInv
<1> QED BY <1>1, <1>2, GoOnKInv, BalancedNothing DEF Spawn, KInv

LEMMA SetFlagKInv ==
  ASSUME KInv, NEW t \in Threads, SetFlag(t), wants' = Waiting'
  PROVE  KInv'
<1>1. Active(t) /\ Head(rest[t]).op \in {"raise", "lower"}
  BY DEF SetFlag, At
<1>2. up' \subseteq Flags
  BY <1>1, AtTypes DEF SetFlag, KInv
<1> QED BY <1>1, <1>2, GoOnKInv, BalancedNothing DEF SetFlag, KInv

LEMMA DecideKInv ==
  ASSUME KInv, NEW t \in Threads, Decide(t), wants' = Waiting'
  PROVE  KInv'
<1>1. Active(t) /\ Head(rest[t]).op \in {"open", "shutdown", "destroy", "reap"}
  BY DEF Decide, At
<1>2. PICK p \in Expansions(Head(rest[t])) : GoOn(t, p, owner)
  BY DEF Decide
<1>3. p \in Balanced
  <2>1. Head(rest[t]) \in Instruction
    BY <1>1, AtKept
  <2>2. Head(rest[t]).op = "reap" => Head(rest[t]).on \in Threads
    BY <1>1, AtTypes DEF On
  <2> QED BY <2>1, <2>2, BalancedExpansions
<1> QED BY <1>1, <1>2, <1>3, GoOnKInv DEF Decide, KInv

LEMMA LeaveKInv ==
  ASSUME KInv, NEW t \in Threads, Leave(t), wants' = Waiting'
  PROVE  KInv'
BY GoOnKInv, BalancedNothing DEF Leave, At, KInv

(* A call, and a handler, put a program on top of what was going on.       *)
LEMMA PushKInv ==
  ASSUME KInv, NEW t \in Threads, Active(t), NEW p \in Balanced,
         rest' = [rest EXCEPT ![t] = p \o @],
         owner' = owner, started' = started, up' = up, signals' \subseteq signals,
         wants' = Waiting'
  PROVE  KInv'
<1>1. PICK h \in SUBSET Mutexes : Held(t) \subseteq h /\ Through(Kept, h, rest[t], {})
  BY AtKept
<1>2. Through(Kept, h, p \o rest[t], {})
  BY <1>1, ThroughBoth DEF Balanced
<1>3. p \o rest[t] # <<>>
  <2>1. p \in Seq(Instruction) /\ rest[t] \in Seq(Instruction) /\ rest[t] # <<>>
    BY DEF Balanced, KInv, KeepsProgram, Active
  <2> QED BY <2>1, ConcatEqualIffEmpty
<1>4. StepTo(t, p \o rest[t], h)
  BY <1>1, <1>3 DEF StepTo, KInv, Held, Active
<1> QED BY <1>2, <1>4, StepKInv

LEMMA NextKInv == KInv /\ [Next]_vars => KInv'
<1> SUFFICES ASSUME KInv, [Next]_vars
             PROVE  KInv'
  OBVIOUS
<1>1. ASSUME NEW t \in Threads, Call(t), wants' = Waiting'
      PROVE  KInv'
  BY <1>1, BalancedCalls, PushKInv DEF Call, At
<1>2. ASSUME NEW s \in Signals, Interrupt(s), wants' = Waiting'
      PROVE  KInv'
  <2>1. "main" \in Threads /\ SignalHandler \in Balanced
    BY BalancedShutdown DEF Threads
  <2> QED BY <1>2, <2>1, PushKInv DEF Interrupt
<1>3. CASE Next
  BY <1>1, <1>2, <1>3, LockKInv, UnlockKInv, AwaitKInv, SpawnKInv, SetFlagKInv, DecideKInv,
     LeaveKInv DEF Next, Step
<1>4. CASE UNCHANGED vars
  BY <1>4 DEF vars, KInv, KeepsProgram, Held, Waiting, At, On, Active
<1> QED BY <1>3, <1>4

(* Types, for every setting: in particular whoever has locked a mutex is a *)
(* thread with an unlock of it still to come, so that no thread ends with  *)
(* a mutex locked, whatever it calls and whatever handlers interrupt it.   *)
THEOREM LocksTypeCorrect == Spec => []TypeOK
BY InitKInv, NextKInv, KInvTypes, PTL DEF Spec

-----------------------------------------------------------------------------
(* The hierarchy.  A handler that interrupts a critical section breaks it, *)
(* and so does turning the debug log on: neither happens in what follows.  *)
Undisturbed == ~DebugOn /\ (Anywhere => Signals = {})

(* What an instruction does to the mutexes held by a thread of rank r that *)
(* keeps to the hierarchy: they are exactly those it has locked; it waits  *)
(* for what ranks above them and itself; it decides what to do next, and   *)
(* may be called away, with none.                                          *)
Ordered(r) ==
  {v \in Kept :
     LET h == v[1]
         i == v[2]
         g == v[3]
     IN /\ i.op = "lock" => i.on \notin h /\ g = h \union {i.on}
        /\ i.op = "unlock" => i.on \in h /\ g = h \ {i.on}
        /\ i.op \notin {"lock", "unlock"} => g = h
        /\ i.op \in {"lock", "await"} => Rank[i.on] > r /\ \A m \in h : Rank[m] < Rank[i.on]
        /\ i.op \in {"call", "open", "shutdown", "destroy", "reap"} => h = {}
        /\ i.op \in {"shutdown", "destroy", "reap"} => r = 0
        /\ i.op = "reap" => i.on \in Workers \ {"timer"}}

(* The programs a thread of rank r can run while it holds the mutexes of h.*)
Orderly(r, h) == {p \in Seq(Instruction) : Through(Ordered(r), h, p, h)}

LEMMA OrderedMove ==
  ASSUME NEW r, NEW h \in SUBSET Mutexes, NEW g \in SUBSET Mutexes, NEW i \in Instruction
  PROVE  <<h, i, g>> \in Ordered(r) <=>
           /\ <<h, i, g>> \in Kept
           /\ i.op = "lock" => i.on \notin h /\ g = h \union {i.on}
           /\ i.op = "unlock" => i.on \in h /\ g = h \ {i.on}
           /\ i.op \notin {"lock", "unlock"} => g = h
           /\ i.op \in {"lock", "await"} => Rank[i.on] > r /\ \A m \in h : Rank[m] < Rank[i.on]
           /\ i.op \in {"call", "open", "shutdown", "destroy", "reap"} => h = {}
           /\ i.op \in {"shutdown", "destroy", "reap"} => r = 0
           /\ i.op = "reap" => i.on \in Workers \ {"timer"}
BY DEF Ordered

LEMMA OrderlyNothing == \A r : \A h \in SUBSET Mutexes : <<>> \in Orderly(r, h)
BY ThroughNothing DEF Orderly

LEMMA OrderlyBoth ==
  \A r : \A h \in SUBSET Mutexes : \A p, q \in Orderly(r, h) : p \o q \in Orderly(r, h)
BY ThroughBoth, ConcatProperties DEF Orderly

LEMMA OrderlyOne ==
  ASSUME NEW r, NEW h \in SUBSET Mutexes,
         NEW op \in Ops \ {"lock", "unlock"}, NEW on \in Resources \union Flags,
         op = "await" => /\ on \in Resources /\ Rank[on] > r
                         /\ \A m \in h : Rank[m] < Rank[on],
         op \in {"spawn", "reap"} => on \in Threads,
         op \in {"raise", "lower"} => on \in Flags,
         op \in {"call", "open", "shutdown", "destroy", "reap"} => h = {},
         op \in {"shutdown", "destroy", "reap"} => r = 0,
         op = "reap" => on \in Workers \ {"timer"}
  PROVE  Do(op, on) \in Orderly(r, h)
<1> DEFINE i == [op |-> op, on |-> on]
<1>1. i \in Instruction /\ i.op = op /\ i.on = on
  BY DEF Instruction
<1> HIDE DEF i
<1>2. <<h, i, h>> \in Kept
  BY <1>1, KeptMove
<1>3. <<h, i, h>> \in Ordered(r)
  BY <1>1, <1>2, OrderedMove
<1>4. <<i>> \in Orderly(r, h)
  BY <1>1, <1>3, ThroughOne DEF Orderly
<1> QED BY <1>4 DEF i, Do

LEMMA OrderlyDo ==
  ASSUME NEW r
  PROVE  /\ \A h \in SUBSET Mutexes : /\ \A c \in Flags : /\ Do("raise", c) \in Orderly(r, h)
                                                          /\ Do("lower", c) \in Orderly(r, h)
                                      /\ \A t \in Threads : Do("spawn", t) \in Orderly(r, h)
         /\ \A t \in Threads : Do("call", t) \in Orderly(r, {})
         /\ \A c \in Flags : Do("open", c) \in Orderly(r, {})
<1>1. {"raise", "lower", "spawn", "call", "open"} \subseteq Ops \ {"lock", "unlock"}
  BY DEF Ops
<1>2. Threads \subseteq Resources
  BY DEF Resources
<1> QED BY <1>1, <1>2, OrderlyOne

(* Only main() and the timer, which nothing joins, shut down and join.     *)
LEMMA OrderlyShut ==
  /\ \A c \in Flags : Do("shutdown", c) \in Orderly(0, {}) /\ Do("destroy", c) \in Orderly(0, {})
  /\ \A t \in Workers \ {"timer"} : Do("reap", t) \in Orderly(0, {})
<1>1. {"shutdown", "destroy", "reap"} \subseteq Ops \ {"lock", "unlock"}
  BY DEF Ops
<1>2. Workers \subseteq Resources /\ Workers \subseteq Threads
  BY DEF Resources, Threads
<1> QED BY <1>1, <1>2, OrderlyOne

LEMMA OrderlyAwait ==
  ASSUME NEW r, NEW h \in SUBSET Mutexes, NEW a \in Resources, Rank[a] > r,
         \A m \in h : Rank[m] < Rank[a]
  PROVE  Do("await", a) \in Orderly(r, h)
<1>1. "await" \in Ops \ {"lock", "unlock"}
  BY DEF Ops
<1> QED BY <1>1, OrderlyOne

(* A critical section, with a program in it that is orderly with the mutex *)
(* held as well.                                                           *)
LEMMA OrderlyHolding ==
  ASSUME NEW r, NEW h \in SUBSET Mutexes, NEW m \in Mutexes \ h, Rank[m] > r,
         \A n \in h : Rank[n] < Rank[m],
         NEW p \in Orderly(r, h \union {m})
  PROVE  Holding(m, p) \in Orderly(r, h)
<1> DEFINE i == [op |-> "lock", on |-> m]
           j == [op |-> "unlock", on |-> m]
<1>1. /\ i \in Instruction /\ i.op = "lock" /\ i.on = m
      /\ j \in Instruction /\ j.op = "unlock" /\ j.on = m
  BY DEF Instruction, Ops, Resources
<1> HIDE DEF i, j
<1>2. h \union {m} \in SUBSET Mutexes
  OBVIOUS
<1>3. Through(Ordered(r), h, <<i>>, h \union {m})
  <2>1. <<h, i, h \union {m}>> \in Kept
    BY <1>1, <1>2, KeptMove
  <2>2. <<h, i, h \union {m}>> \in Ordered(r)
    <3> DEFINE g == h \union {m}
    <3>1. /\ i.on \notin h /\ g = h \union {i.on} /\ g \in SUBSET Mutexes
          /\ Rank[i.on] > r /\ \A n \in h : Rank[n] < Rank[i.on]
      BY <1>1
    <3>2. <<h, i, g>> \in Kept
      BY <2>1
    <3> HIDE DEF g
    <3>3. <<h, i, g>> \in Ordered(r)
      BY <1>1, <3>1, <3>2 DEF Ordered
    <3> QED BY <3>3 DEF g
  <2> QED BY <1>1, <1>2, <2>2, ThroughOne
<1>4. Through(Ordered(r), h \union {m}, p, h \union {m})
  BY DEF Orderly
<1>5. Through(Ordered(r), h \union {m}, <<j>>, h)
  <2>1. <<h \union {m}, j, h>> \in Kept
    BY <1>1, <1>2, KeptMove
  <2>2. <<h \union {m}, j, h>> \in Ordered(r)
    <3>1. h = (h \union {m}) \ {m}
      OBVIOUS
    <3> QED BY <1>1, <1>2, <2>1, <3>1, OrderedMove
  <2> QED BY <1>1, <1>2, <2>2, ThroughOne
<1>6. Through(Ordered(r), h, <<i>> \o p \o <<j>>, h)
  BY <1>3, <1>4, <1>5, ThroughBoth
<1>7. <<i>> \o p \o <<j>> \in Orderly(r, h)
  BY <1>6 DEF Orderly, Through
<1>8. Do("lock", m) \o p \o Do("unlock", m) \in Orderly(r, h)
  BY <1>7 DEF i, j, Do
<1>9. Do("await", m) \in Orderly(r, h)
  BY OrderlyAwait DEF Resources
<1> QED BY <1>8, <1>9 DEF Holding

LEMMA Ranks ==
  /\ \A t \in Threads : Rank[t] \in {0, 1}
  /\ \A t \in Workers \ {"timer"} : Rank[t] = 1
  /\ \A t \in Users \union {"main", "timer"} : Rank[t] = 0
  /\ \A m \in {"routes", "clients", "world", "audit"} : Rank[m] = 2
  /\ Rank["debug"] = 3 /\ Rank["sink"] = 4
<1>1. \A t \in Users : t \notin Workers /\ t \notin Mutexes
  BY UsersAssumption
<1>2. \A r \in Resources :
        Rank[r] = CASE r \in Workers \ {"timer"} -> 1
                    [] r \in {"routes", "clients", "world", "audit"} -> 2
                    [] r = "debug" -> 3
                    [] r = "sink" -> 4
                    [] OTHER -> 0
  BY DEF Rank
<1>3. \A t \in Users : Rank[t] = 0
  BY <1>1, <1>2 DEF Resources, Threads, Mutexes
<1>4. \A t \in Workers \ {"timer"} : Rank[t] = 1
  <2>1. \A t \in Workers \ {"timer"} : t \in Resources
    BY DEF Resources, Threads
  <2>2. \A t \in Workers : t \notin {"routes", "clients", "world", "audit", "debug", "sink"}
    BY DEF Workers
  <2> QED BY <1>2, <2>1, <2>2
<1>5. \A t \in {"main", "timer"} : Rank[t] = 0
  BY <1>2 DEF Resources, Threads, Workers
<1>6. /\ \A m \in {"routes", "clients", "world", "audit"} : Rank[m] = 2
      /\ Rank["debug"] = 3 /\ Rank["sink"] = 4
  BY <1>2 DEF Resources, Mutexes, Workers
<1> QED BY <1>3, <1>4, <1>5, <1>6 DEF Threads

(* A log line is orderly anywhere but inside another one.                  *)
LEMMA OrderlyLog ==
  ASSUME NEW r \in {0, 1}, NEW h \in SUBSET Mutexes, "sink" \notin h
  PROVE  Log \in Orderly(r, h) /\ Line \in Orderly(r, h)
<1>1. "sink" \in Mutexes \ h /\ Rank["sink"] > r
  BY Ranks DEF Mutexes
<1>2. \A n \in h : Rank[n] < Rank["sink"]
  BY Ranks DEF Mutexes
<1>3. <<>> \in Orderly(r, h \union {"sink"})
  <2>1. h \union {"sink"} \in SUBSET Mutexes
    BY <1>1
  <2> QED BY <2>1, OrderlyNothing
<1>4. Log \in Orderly(r, h)
  BY <1>1, <1>2, <1>3, OrderlyHolding DEF Log
<1> QED BY <1>4, OrderlyNothing DEF Line

(* A critical section of a thread that holds nothing, with log lines in it.*)
LEMMA OrderlySection ==
  ASSUME NEW r \in {0, 1}, NEW m \in {"routes", "clients", "world", "audit"}
  PROVE  /\ \A p \in Orderly(r, {m}) : Holding(m, p) \in Orderly(r, {})
         /\ \A p \in {<<>>, Log} : p \in Orderly(r, {m}) /\ Holding(m, p) \in Orderly(r, {})
<1>1. m \in Mutexes \ {} /\ Rank[m] > r /\ {m} \in SUBSET Mutexes /\ "sink" \notin {m}
  BY Ranks DEF Mutexes
<1>2. \A p \in Orderly(r, {m}) : Holding(m, p) \in Orderly(r, {})
  <2>1. {} \union {m} = {m}
    OBVIOUS
  <2> QED BY <1>1, <2>1, OrderlyHolding
<1>3. \A p \in {<<>>, Log} : p \in Orderly(r, {m})
  BY <1>1, OrderlyNothing, OrderlyLog
<1> QED BY <1>2, <1>3

LEMMA OrderlyCalls ==
  ASSUME ~DebugOn, NEW t \in Threads
  PROVE  Calls(t) \subseteq Orderly(Rank[t], {})
<1> DEFINE r == Rank[t]
<1>1. r \in {0, 1} /\ {} \in SUBSET Mutexes /\ "sink" \notin {}
  BY Ranks
<1> HIDE DEF r
<1>2. \A p, q \in Orderly(r, {}) : p \o q \in Orderly(r, {})
  BY <1>1, OrderlyBoth
<1>3. <<>> \in Orderly(r, {}) /\ Log \in Orderly(r, {})
  BY <1>1, OrderlyNothing, OrderlyLog
<1>4. \A gone \in {<<>>, Log} : Holding("clients", gone) \in Orderly(r, {})
  BY <1>1, OrderlySection
<1>5. HandleAccept \subseteq Orderly(r, {}) /\ CleanupClients \subseteq Orderly(r, {})
  <2>1. \A gone \in {<<>>, Log} :
          Holding("clients", <<>>) \o Holding("clients", gone) \in Orderly(r, {})
    BY <1>2, <1>4
  <2> QED BY <1>4, <2>1 DEF HandleAccept, CleanupClients
<1>6. Requests \subseteq Orderly(r, {})
  <2>1. "timer" \in Threads /\ {"routes"} \in SUBSET Mutexes
    BY DEF Threads, Workers, Mutexes
  <2>2. Log \in Orderly(r, {"routes"}) /\ Do("spawn", "timer") \in Orderly(r, {"routes"})
    BY <1>1, <2>1, OrderlySection, OrderlyDo
  <2>3. Log \o Do("spawn", "timer") \in Orderly(r, {"routes"})
    BY <2>1, <2>2, OrderlyBoth
  <2> QED BY <1>1, <2>2, <2>3, OrderlySection DEF Requests, ProcessRequest
<1>7. Recent \in Orderly(r, {})
  BY <1>1, OrderlySection DEF Recent
<1>8. LogAction \subseteq Orderly(r, {}) /\ EntriesByFilter \subseteq Orderly(r, {})
  <2>1. \A p \in {<<>>, Log} : Holding("audit", p) \in Orderly(r, {})
    BY <1>1, OrderlySection
  <2>2. \A p \in {<<>>, Log, Recent} : Holding("audit", <<>>) \o p \in Orderly(r, {})
    BY <1>2, <1>3, <1>7, <2>1
  <2> QED BY <2>1, <2>2 DEF LogAction, EntriesByFilter
<1>9. WorldCalls \subseteq Orderly(r, {})
  <2>1. \A p \in {<<>>, Log} : Holding("world", p) \in Orderly(r, {})
    BY <1>1, OrderlySection
  <2> QED BY <2>1 DEF WorldCalls
<1>10. DebugCalls \subseteq Orderly(r, {})
  <2>1. "debug" \in Mutexes /\ Rank["debug"] > r
    BY <1>1, Ranks DEF Mutexes
  <2>2. {} \union {"debug"} = {"debug"} /\ {"debug"} \in SUBSET Mutexes
    BY <2>1
  <2>3. Holding("debug", <<>>) \in Orderly(r, {})
    BY <2>1, <2>2, OrderlyNothing, OrderlyHolding
  <2> QED BY <2>3 DEF DebugCalls
<1> QED BY <1>5, <1>6, <1>7, <1>8, <1>9, <1>10 DEF Calls, AuditCalls, r

LEMMA OrderlyShutdown ==
  /\ \A c : Shutdown(c) \subseteq Orderly(0, {})
  /\ SignalHandler \in Orderly(0, {})
<1>1. /\ {"server", "rest", "game", "bn", "gameStop"} \subseteq Flags
      /\ {"bnRun", "gameRun", "restRun", "bnIo", "gameLoop", "restIo"} \subseteq Workers \ {"timer"}
  BY DEF Flags, Workers
<1>2. \A p, q \in Orderly(0, {}) : p \o q \in Orderly(0, {})
  BY OrderlyBoth
<1>3. <<>> \in Orderly(0, {}) /\ Log \in Orderly(0, {}) /\ Line \in Orderly(0, {})
  BY OrderlyNothing, OrderlyLog
<1>4. \A c \in Flags : /\ Do("raise", c) \in Orderly(0, {}) /\ Do("lower", c) \in Orderly(0, {})
                       /\ Do("shutdown", c) \in Orderly(0, {})
  BY OrderlyDo, OrderlyShut
<1>5. \A t \in Workers \ {"timer"} : Do("reap", t) \in Orderly(0, {})
  BY OrderlyShut
<1>6. ShutdownRest \in Orderly(0, {}) /\ ShutdownGame \in Orderly(0, {})
  BY <1>1, <1>2, <1>3, <1>4, <1>5 DEF ShutdownRest, ShutdownGame
<1>7. \A gone \in {<<>>, Log} : ShutdownBn(gone) \in Orderly(0, {})
  <2>1. \A gone \in {<<>>, Log} : Holding("clients", gone) \in Orderly(0, {})
    BY OrderlySection
  <2> QED BY <1>1, <1>2, <1>3, <1>4, <1>5, <2>1 DEF ShutdownBn
<1>8. ShutdownServer \in Orderly(0, {})
  BY <1>1, <1>2, <1>3, <1>4, <1>5 DEF ShutdownServer
<1>9. SignalHandler \in Orderly(0, {})
  BY <1>1, <1>2, <1>3, <1>4 DEF SignalHandler
<1> QED BY <1>3, <1>6, <1>7, <1>8, <1>9 DEF Shutdown

LEMMA OrderlyExpansions ==
  ASSUME NEW r \in {0, 1}, NEW i \in Instruction,
         i.op \in {"shutdown", "destroy", "reap"} => r = 0,
         i.op = "reap" => i.on \in Workers \ {"timer"}
  PROVE  Expansions(i) \subseteq Orderly(r, {})
<1>1. <<>> \in Orderly(r, {})
  BY OrderlyNothing
<1>2. Do("spawn", "gameLoop") \in Orderly(r, {})
  BY OrderlyDo DEF Threads, Workers
<1>3. i.op = "reap" => Do("await", i.on) \in Orderly(r, {})
  <2> SUFFICES ASSUME i.op = "reap"
               PROVE  Do("await", i.on) \in Orderly(r, {})
    OBVIOUS
  <2>1. i.on \in Resources /\ Rank[i.on] > r /\ {} \in SUBSET Mutexes
    BY Ranks DEF Resources, Threads
  <2> QED BY <2>1, OrderlyAwait
<1> QED BY <1>1, <1>2, <1>3, OrderlyShutdown DEF Expansions

LEMMA OrderlyBody == \A t \in Threads : Body(t) \in Orderly(Rank[t], {})
<1>1. /\ {"server", "rest", "game", "bn"} \subseteq Flags
      /\ {"main", "bnRun", "gameRun", "restRun", "bnIo", "restIo"} \subseteq Threads
  BY DEF Flags, Threads, Workers
<1>2. \A r : \A p, q \in Orderly(r, {}) : p \o q \in Orderly(r, {})
  BY OrderlyBoth
<1>3. \A r : /\ \A c \in Flags : /\ Do("raise", c) \in Orderly(r, {})
                               /\ Do("open", c) \in Orderly(r, {})
             /\ \A t \in Threads : Do("spawn", t) \in Orderly(r, {}) /\ Loop(t) \in Orderly(r, {})
  BY OrderlyDo DEF Loop
<1>4. Line \in Orderly(0, {}) /\ RegisterRoutes \in Orderly(0, {})
  BY OrderlyLog, OrderlySection DEF RegisterRoutes
<1>5. \A c \in Flags : Do("destroy", c) \in Orderly(0, {})
  BY OrderlyShut
<1> DEFINE Start == Do("raise", "game") \o RegisterRoutes \o Do("raise", "server") \o Line
                      \o Do("spawn", "bnRun") \o Do("spawn", "gameRun") \o Do("spawn", "restRun")
<1>6. Start \in Orderly(0, {})
  BY <1>1, <1>2, <1>3, <1>4
<1>7. ASSUME NEW s \in Orderly(0, {})
      PROVE  s \o Loop("main") \o Line \o Do("destroy", "server") \o Do("destroy", "rest")
               \o Do("destroy", "game") \o Do("destroy", "bn") \o Line \in Orderly(0, {})
  BY <1>1, <1>2, <1>3, <1>4, <1>5
<1>8. Body("main") \in Orderly(Rank["main"], {})
  BY <1>6, <1>7, Ranks DEF Body
<1>9. Body("timer") \in Orderly(Rank["timer"], {})
  BY <1>1, <1>5, Ranks DEF Body
<1>10. ASSUME NEW t \in Threads \ {"main", "timer"}
       PROVE  Body(t) \in Orderly(Rank[t], {})
  BY <1>1, <1>2, <1>3 DEF Body
<1> QED BY <1>8, <1>9, <1>10

-----------------------------------------------------------------------------
(* The mutexes a thread holds are exactly those that the rest of its       *)
(* program, which keeps to the hierarchy, gives back.                      *)
OInv == KInv /\ \A t \in Threads : Through(Ordered(Rank[t]), Held(t), rest[t], {})

LEMMA InitOInv == Init => OInv
<1> SUFFICES ASSUME Init
             PROVE  OInv
  OBVIOUS
<1>1. ASSUME NEW t \in Threads
      PROVE  Through(Ordered(Rank[t]), Held(t), rest[t], {})
  <2>1. Held(t) = {}
    BY Apart DEF Held, Init
  <2>2. rest[t] = Body(t)
    BY DEF Init
  <2> QED BY <2>1, <2>2, OrderlyBody DEF Orderly
<1> QED BY <1>1, InitKInv DEF OInv

(* The types, in the state after a step.                                   *)
LEMMA NextTypes == KInv' => TypeOK'
BY KInvTypes, PTL

(* t goes on as Hierarchy has it: what it then wants ranks above all it    *)
(* then owns, and nobody else wants anything new.                          *)
LEMMA StepOInv ==
  ASSUME OInv, KInv', NEW t \in Threads, t \in started, started \subseteq started',
         Through(Ordered(Rank[t]), Held(t)', rest'[t], {}),
         \A u \in Threads \ {t} : /\ rest'[u] = rest[u] /\ owner'[u] = owner[u]
                                  /\ Held(u)' = Held(u)
  PROVE  OInv' /\ Hierarchy!GoOn(t)
<1>1. OInv'
  BY DEF OInv
<1>2. wants = Waiting /\ wants' = Waiting'
  BY DEF KInv, OInv
<1>3. ASSUME NEW u \in Threads \ {t}
      PROVE  wants'[u] = wants[u]
  <2>1. rest'[u] = rest[u] /\ owner'[u] = owner[u]
    OBVIOUS
  <2>2. CASE u \in started
    <3>1. u \in started'
      BY <2>2
    <3> QED BY <1>2, <2>1, <2>2, <3>1 DEF Waiting, At, On, Active
  <2>3. CASE u \notin started
    <3>1. Head(rest[u]).op \notin {"lock", "await"}
      BY <2>3 DEF OInv, KInv, Ready
    <3> QED BY <1>2, <2>1, <2>3, <3>1 DEF Waiting, At, On, Active
  <2> QED BY <2>2, <2>3
<1>4. wants' \in [Threads -> Resources \union {Nobody}]
  BY NextTypes DEF TypeOK
<1>5. ASSUME Hierarchy!Waits(t)'
      PROVE  Hierarchy!Above(wants[t], t)'
  <2>1. /\ t \in started' /\ owner'[t] = t /\ Head(rest'[t]).op \in {"lock", "await"}
        /\ wants'[t] = Head(rest'[t]).on
    BY <1>2, <1>5 DEF Hierarchy!Waits, Waiting, At, On, Active
  <2>2. rest'[t] # <<>>
    BY <2>1 DEF KInv, KeepsProgram
  <2>3. PICK k \in SUBSET Mutexes : <<Held(t)', Head(rest'[t]), k>> \in Ordered(Rank[t])
    BY <2>2, ThroughFirst
  <2>4. Rank[wants'[t]] > Rank[t] /\ \A m \in Held(t)' : Rank[m] < Rank[wants'[t]]
    BY <2>1, <2>3 DEF Ordered
  <2>5. ASSUME NEW r \in Resources, owner'[r] = t
        PROVE  r = t \/ r \in Held(t)'
    BY <2>5, Apart DEF KInv, Held, Resources
  <2>6. ASSUME NEW r \in Resources, owner'[r] = t
        PROVE  Rank[r] < Rank[wants'[t]]
    <3>1. Rank[t] \in {0, 1} /\ Rank[wants'[t]] \in Nat
      <4>1. wants'[t] \in Resources
        BY <1>4, <1>5 DEF Hierarchy!Waits
      <4> QED BY <4>1, Ranks, ServerWellRanked DEF H!WellRanked
    <3> QED BY <2>4, <2>5, <2>6, <3>1
  <2> QED BY <2>6 DEF Hierarchy!Above, Hierarchy!Owned
<1> QED BY <1>1, <1>3, <1>4, <1>5 DEF Hierarchy!GoOn

(* A thread that is at another instruction waits for nothing.              *)
LEMMA Wants ==
  ASSUME KInv, NEW t \in Threads, Active(t)
  PROVE  wants[t] = IF Head(rest[t]).op \in {"lock", "await"} THEN On(t) ELSE Nobody
BY DEF KInv, Waiting, At

(* What an active thread is at, and what it holds after it.                *)
LEMMA AtOrdered ==
  ASSUME OInv, NEW t \in Threads, Active(t)
  PROVE  /\ Held(t) \in SUBSET Mutexes
         /\ Head(rest[t]) \in Instruction
         /\ \E k \in SUBSET Mutexes :
              /\ <<Held(t), Head(rest[t]), k>> \in Ordered(Rank[t])
              /\ Through(Ordered(Rank[t]), k, Tail(rest[t]), {})
<1>1. rest[t] # <<>> /\ Through(Ordered(Rank[t]), Held(t), rest[t], {})
  BY DEF OInv, KInv, KeepsProgram, Active
<1> QED BY <1>1, ThroughFirst DEF Held

(* The owners after a step of t that takes or gives up mutexes, so that it *)
(* then holds k.                                                           *)
Handover(t, k, locks) ==
  /\ locks \in [Resources -> Threads \union {Nobody}]
  /\ \A m \in Mutexes : /\ locks[m] = t <=> m \in k
                        /\ \/ locks[m] = owner[m]
                           \/ {locks[m], owner[m]} = {t, Nobody}
  /\ \A u \in Threads : locks[u] = owner[u]

LEMMA GoOnOInv ==
  ASSUME OInv, KInv', NEW t \in Threads, Active(t), started \subseteq started',
         NEW p, NEW k, NEW locks, GoOn(t, p, locks),
         Through(Ordered(Rank[t]), k, p, k), Through(Ordered(Rank[t]), k, Tail(rest[t]), {}),
         Handover(t, k, locks)
  PROVE  /\ OInv' /\ Hierarchy!GoOn(t)
         /\ \A r \in Resources : owner'[r] = locks[r] \/ (owner'[r] = Nobody /\ owner[r] = t)
<1> USE DEF Handover
<1>1. /\ rest'[t] = p \o Tail(rest[t])
      /\ \A u \in Threads \ {t} : rest'[u] = rest[u]
  BY DEF GoOn, OInv, KInv
<1>2. owner' = IF rest'[t] = <<>> THEN [locks EXCEPT ![t] = Nobody] ELSE locks
  BY DEF GoOn
<1>3. t \in started /\ owner[t] = t
  BY DEF Active
<1>4. \A m \in Mutexes : owner'[m] = locks[m]
  BY <1>2, Apart
<1>5. Held(t)' = k
  <2>1. k \in SUBSET Mutexes
    BY ThroughSets
  <2> QED BY <1>4, <2>1 DEF Held
<1>6. ASSUME NEW u \in Threads \ {t}
      PROVE  rest'[u] = rest[u] /\ owner'[u] = owner[u] /\ Held(u)' = Held(u)
  <2>1. owner'[u] = owner[u]
    BY <1>2, Apart
  <2>2. \A m \in Mutexes : owner'[m] = u <=> owner[m] = u
    BY <1>4, Apart
  <2> QED BY <1>1, <2>1, <2>2 DEF Held
<1>7. Through(Ordered(Rank[t]), Held(t)', rest'[t], {})
  BY <1>1, <1>5, ThroughBoth
<1>8. OInv' /\ Hierarchy!GoOn(t)
  BY <1>3, <1>6, <1>7, StepOInv
<1>9. \A r \in Resources : owner'[r] = locks[r] \/ (owner'[r] = Nobody /\ owner[r] = t)
  BY <1>2, <1>3
<1> QED BY <1>8, <1>9

LEMMA LockOInv ==
  ASSUME OInv, KInv', NEW t \in Threads, Lock(t)
  PROVE  OInv' /\ Hierarchy!Run(t)
<1> DEFINE m == On(t)
           locks == [owner EXCEPT ![m] = t]
<1>1. Active(t) /\ Head(rest[t]).op = "lock" /\ Head(rest[t]).on = m
  BY DEF Lock, At, On
<1>2. PICK k \in SUBSET Mutexes :
        /\ <<Held(t), Head(rest[t]), k>> \in Ordered(Rank[t])
        /\ Through(Ordered(Rank[t]), k, Tail(rest[t]), {})
  BY <1>1, AtOrdered
<1>3. m \in Mutexes /\ k = Held(t) \union {m}
  <2>1. m \in Mutexes
    BY <1>1, <1>2 DEF Ordered, Kept
  <2>2. k = Held(t) \union {m}
    BY <1>1, <1>2 DEF Ordered
  <2> QED BY <2>1, <2>2
<1>4. GoOn(t, <<>>, locks) /\ owner[m] = Nobody /\ started' = started
  BY DEF Lock
<1>5. Through(Ordered(Rank[t]), k, <<>>, k)
  BY ThroughNothing
<1>6. owner \in [Resources -> Threads \union {Nobody}]
  BY DEF OInv, KInv
<1>7. Handover(t, k, locks)
  BY <1>3, <1>4, <1>6, Apart DEF Handover, Held
<1>8. \A r \in Resources : locks[r] = owner[r] \/ (r = m /\ locks[r] = t)
  BY <1>6
<1>9. wants[t] = m
  BY <1>1, Wants DEF OInv
<1> HIDE DEF locks, m
<1>10. /\ OInv' /\ Hierarchy!GoOn(t)
       /\ \A r \in Resources : owner'[r] = locks[r] \/ (owner'[r] = Nobody /\ owner[r] = t)
  BY <1>1, <1>2, <1>4, <1>5, <1>7, GoOnOInv
<1>11. owner' \in [Resources -> Threads \union {Nobody}]
  BY DEF KInv
<1> QED BY <1>4, <1>8, <1>9, <1>10, <1>11 DEF Hierarchy!Run

LEMMA UnlockOInv ==
  ASSUME OInv, KInv', NEW t \in Threads, Unlock(t)
  PROVE  OInv' /\ Hierarchy!Run(t)
<1> DEFINE m == On(t)
           locks == [owner EXCEPT ![m] = Nobody]
<1>1. Active(t) /\ Head(rest[t]).op = "unlock" /\ Head(rest[t]).on = m
  BY DEF Unlock, At, On
<1>2. PICK k \in SUBSET Mutexes :
        /\ <<Held(t), Head(rest[t]), k>> \in Ordered(Rank[t])
        /\ Through(Ordered(Rank[t]), k, Tail(rest[t]), {})
  BY <1>1, AtOrdered
<1>3. m \in Held(t) /\ k = Held(t) \ {m}
  BY <1>1, <1>2 DEF Ordered
<1>4. GoOn(t, <<>>, locks) /\ started' = started
  BY DEF Unlock
<1>5. Through(Ordered(Rank[t]), k, <<>>, k)
  BY ThroughNothing
<1>6. owner \in [Resources -> Threads \union {Nobody}]
  BY DEF OInv, KInv
<1>7. Handover(t, k, locks)
  BY <1>3, <1>6, Apart DEF Handover, Held
<1>8. \A r \in Resources : locks[r] = owner[r] \/ (locks[r] = Nobody /\ owner[r] = t)
  BY <1>3, <1>6 DEF Held
<1>9. wants[t] = Nobody
  BY <1>1, Wants DEF OInv
<1> HIDE DEF locks, m
<1>10. /\ OInv' /\ Hierarchy!GoOn(t)
       /\ \A r \in Resources : owner'[r] = locks[r] \/ (owner'[r] = Nobody /\ owner[r] = t)
  BY <1>1, <1>2, <1>4, <1>5, <1>7, GoOnOInv
<1>11. owner' \in [Resources -> Threads \union {Nobody}]
  BY DEF KInv
<1> QED BY <1>8, <1>9, <1>10, <1>11 DEF Hierarchy!Run, Hierarchy!Waits

(* The steps that change no mutex.                                         *)
LEMMA PlainOInv ==
  ASSUME OInv, KInv', NEW t \in Threads, Active(t), started \subseteq started',
         Head(rest[t]).op \notin {"lock", "unlock"},
         Head(rest[t]).op = "await" => owner[On(t)] = Nobody,
         NEW p, Through(Ordered(Rank[t]), Held(t), p, Held(t)), GoOn(t, p, owner)
  PROVE  OInv' /\ Hierarchy!Run(t)
<1>1. PICK k \in SUBSET Mutexes :
        /\ <<Held(t), Head(rest[t]), k>> \in Ordered(Rank[t])
        /\ Through(Ordered(Rank[t]), k, Tail(rest[t]), {})
  BY AtOrdered
<1>2. k = Held(t)
  BY <1>1 DEF Ordered
<1>3. Handover(t, k, owner)
  BY <1>2 DEF Handover, OInv, KInv, Held
<1>4. /\ OInv' /\ Hierarchy!GoOn(t)
      /\ \A r \in Resources : owner'[r] = owner[r] \/ (owner'[r] = Nobody /\ owner[r] = t)
  BY <1>1, <1>2, <1>3, GoOnOInv
<1>5. owner' \in [Resources -> Threads \union {Nobody}]
  BY DEF KInv
<1>6. wants[t] = IF Head(rest[t]).op \in {"lock", "await"} THEN On(t) ELSE Nobody
  BY Wants DEF OInv
<1>7. ~Hierarchy!Waits(t) \/ owner[wants[t]] = Nobody
  BY <1>6 DEF Hierarchy!Waits
<1> QED BY <1>4, <1>5, <1>7 DEF Hierarchy!Run

(* Waiting no longer, starting a thread, setting a flag, leaving the loop. *)
LEMMA SimpleOInv ==
  ASSUME OInv, KInv', NEW t \in Threads, Await(t) \/ Spawn(t) \/ SetFlag(t) \/ Leave(t)
  PROVE  OInv' /\ Hierarchy!Run(t)
<1>1. Active(t) /\ Head(rest[t]).op \in {"await", "spawn", "raise", "lower", "call"}
  BY DEF Await, Spawn, SetFlag, Leave, At
<1>2. GoOn(t, <<>>, owner) /\ started \subseteq started'
  BY DEF Await, Spawn, SetFlag, Leave
<1>3. Head(rest[t]).op = "await" => owner[On(t)] = Nobody
  BY DEF Await, Spawn, SetFlag, Leave, At
<1>4. Through(Ordered(Rank[t]), Held(t), <<>>, Held(t))
  BY ThroughNothing DEF Held
<1> QED BY <1>1, <1>2, <1>3, <1>4, PlainOInv

LEMMA DecideOInv ==
  ASSUME OInv, KInv', NEW t \in Threads, Decide(t)
  PROVE  OInv' /\ Hierarchy!Run(t)
<1>1. Active(t) /\ Head(rest[t]).op \in {"open", "shutdown", "destroy", "reap"}
  BY DEF Decide, At
<1>2. started' = started
  BY DEF Decide
<1>3. PICK p \in Expansions(Head(rest[t])) : GoOn(t, p, owner)
  BY DEF Decide
<1>4. PICK k \in SUBSET Mutexes : <<Held(t), Head(rest[t]), k>> \in Ordered(Rank[t])
  BY <1>1, AtOrdered
<1>5. /\ Held(t) = {}
      /\ Head(rest[t]).op \in {"shutdown", "destroy", "reap"} => Rank[t] = 0
      /\ Head(rest[t]).op = "reap" => Head(rest[t]).on \in Workers \ {"timer"}
  BY <1>1, <1>4 DEF Ordered
<1>6. Head(rest[t]) \in Instruction
  BY <1>1, AtOrdered
<1>7. p \in Orderly(Rank[t], {})
  BY <1>3, <1>5, <1>6, Ranks, OrderlyExpansions
<1>8. Through(Ordered(Rank[t]), Held(t), p, Held(t))
  BY <1>5, <1>7 DEF Orderly
<1> QED BY <1>1, <1>2, <1>3, <1>8, PlainOInv

(* A call, and a handler, put a program on top of what was going on, when  *)
(* no mutex is held.                                                       *)
LEMMA PushOInv ==
  ASSUME OInv, KInv', NEW t \in Threads, Active(t), Held(t) = {},
         NEW p \in Orderly(Rank[t], {}), rest' = [rest EXCEPT ![t] = p \o @],
         owner' = owner, started' = started
  PROVE  OInv' /\ Hierarchy!GoOn(t)
<1>1. /\ rest'[t] = p \o rest[t]
      /\ \A u \in Threads \ {t} : rest'[u] = rest[u]
  BY DEF OInv, KInv
<1>2. \A u \in Threads : Held(u)' = Held(u)
  BY DEF Held
<1>3. Through(Ordered(Rank[t]), {}, p, {}) /\ Through(Ordered(Rank[t]), {}, rest[t], {})
  BY DEF Orderly, OInv
<1>4. Through(Ordered(Rank[t]), Held(t)', rest'[t], {})
  <2>1. Through(Ordered(Rank[t]), {}, p \o rest[t], {})
    BY <1>3, ThroughBoth
  <2> QED BY <1>1, <1>2, <2>1
<1>5. t \in started
  BY DEF Active
<1> QED BY <1>1, <1>2, <1>4, <1>5, StepOInv

LEMMA CallOInv ==
  ASSUME ~DebugOn, OInv, KInv', NEW t \in Threads, Call(t)
  PROVE  OInv' /\ Hierarchy!Run(t)
<1>1. Active(t) /\ Head(rest[t]).op = "call"
  BY DEF Call, At
<1>2. PICK p \in Calls(t) : rest' = [rest EXCEPT ![t] = p \o @]
  BY DEF Call
<1>3. PICK k \in SUBSET Mutexes : <<Held(t), Head(rest[t]), k>> \in Ordered(Rank[t])
  BY <1>1, AtOrdered
<1>4. Held(t) = {}
  BY <1>1, <1>3 DEF Ordered
<1>5. p \in Orderly(Rank[t], {})
  BY OrderlyCalls
<1>6. owner' = owner /\ started' = started
  BY DEF Call
<1>7. OInv' /\ Hierarchy!GoOn(t)
  BY <1>1, <1>2, <1>4, <1>5, <1>6, PushOInv
<1>8. wants[t] = Nobody
  BY <1>1, Wants DEF OInv
<1>9. owner' \in [Resources -> Threads \union {Nobody}]
  BY DEF KInv
<1> QED BY <1>6, <1>7, <1>8, <1>9 DEF Hierarchy!Run, Hierarchy!Waits

LEMMA InterruptOInv ==
  ASSUME Undisturbed, OInv, KInv', NEW s \in Signals, Interrupt(s)
  PROVE  OInv' /\ Hierarchy!CallAway("main")
<1>1. /\ Active("main") /\ "main" \in Threads
      /\ rest' = [rest EXCEPT !["main"] = SignalHandler \o @]
      /\ owner' = owner /\ started' = started
  BY DEF Interrupt, Threads
<1>2. Held("main") = {}
  BY DEF Interrupt, Undisturbed, Held
<1>3. SignalHandler \in Orderly(Rank["main"], {})
  BY OrderlyShutdown, Ranks
<1>4. OInv' /\ Hierarchy!GoOn("main")
  BY <1>1, <1>2, <1>3, PushOInv
<1> QED BY <1>1, <1>4 DEF Hierarchy!CallAway

LEMMA NextOInv ==
  ASSUME Undisturbed
  PROVE  OInv /\ [Next]_vars => OInv' /\ [Hierarchy!Next]_(Hierarchy!vars)
<1> SUFFICES ASSUME OInv, [Next]_vars
             PROVE  OInv' /\ [Hierarchy!Next]_(Hierarchy!vars)
  OBVIOUS
<1>1. KInv'
  BY NextKInv DEF OInv
<1>2. ASSUME NEW t \in Threads,
             \/ Lock(t) \/ Unlock(t) \/ Await(t) \/ Spawn(t) \/ SetFlag(t)
             \/ Decide(t) \/ Call(t) \/ Leave(t)
      PROVE  OInv' /\ Hierarchy!Run(t)
  BY <1>1, <1>2, LockOInv, UnlockOInv, SimpleOInv, DecideOInv, CallOInv DEF Undisturbed
<1>3. ASSUME NEW s \in Signals, Interrupt(s)
      PROVE  OInv' /\ Hierarchy!CallAway("main") /\ "main" \in Threads
  BY <1>1, <1>3, InterruptOInv DEF Threads
<1>4. CASE Next
  BY <1>2, <1>3, <1>4 DEF Next, Step, Hierarchy!Next
<1>5. CASE UNCHANGED vars
  BY <1>1, <1>5 DEF vars, OInv, Held, Hierarchy!vars
<1> QED BY <1>4, <1>5

LEMMA InitRefines == Init => Hierarchy!Init
<1> SUFFICES ASSUME Init
             PROVE  Hierarchy!Init
  OBVIOUS
<1>1. \A t \in Threads : ~At(t, {"lock", "await"})
  BY ReadyBody DEF Init, At, Ready
<1>2. wants = [t \in Threads |-> Nobody]
  BY <1>1 DEF Init, Waiting
<1>3. owner \in [Resources -> Threads \union {Nobody}]
  BY DEF Init
<1> QED BY <1>2, <1>3 DEF Hierarchy!Init

(* The server's threads, and any number of users of its libraries, keep to *)
(* the hierarchy with every step, whatever interleaving, signal or admin   *)
(* shutdown: as long as no handler runs inside a critical section of       *)
(* main(), and nobody turns the debug log on.                              *)
THEOREM LocksAreOrdered ==
  ASSUME Undisturbed
  PROVE  Spec => HierarchySpec
<1>1. OInv /\ [Next]_vars => OInv' /\ [Hierarchy!Next]_(Hierarchy!vars)
  BY NextOInv
<1> QED BY <1>1, InitOInv, InitRefines, PTL DEF Spec, HierarchySpec, Hierarchy!Spec

(* Then no threads ever wait for each other: neither the IO threads and    *)
(* who joins them, nor a handler and what it interrupted, nor callers of   *)
(* the libraries and their callbacks.                                      *)
THEOREM NoDeadlock ==
  ASSUME Undisturbed
  PROVE  Spec => []DeadlockFree
BY LocksAreOrdered, HierarchySuffices, PTL

-----------------------------------------------------------------------------
(* Nobody is stuck.  Who waits for a mutex waits for a thread that is      *)
(* there to unlock it, and who joins a thread joins one that was started.  *)

(* The instructions that join no thread but those of st, and the programs  *)
(* of them.                                                                *)
Joining(st) == {i \in Instruction : i.op = "await" /\ i.on \in Threads => i.on \in st}

LEMMA JoiningNothing == \A st : <<>> \in Seq(Joining(st))
OBVIOUS

LEMMA JoiningBoth == \A st : \A p, q \in Seq(Joining(st)) : p \o q \in Seq(Joining(st))
BY ConcatProperties

LEMMA JoiningDo ==
  ASSUME NEW st
  PROVE  /\ \A op \in Ops \ {"await"} : \A on \in Resources \union Flags :
              Do(op, on) \in Seq(Joining(st))
         /\ \A on \in Mutexes \union (st \intersect Threads) : Do("await", on) \in Seq(Joining(st))
<1>1. ASSUME NEW op \in Ops, NEW on \in Resources \union Flags,
             op = "await" /\ on \in Threads => on \in st
      PROVE  Do(op, on) \in Seq(Joining(st))
  <2> DEFINE i == [op |-> op, on |-> on]
  <2>1. i \in Instruction /\ i.op = op /\ i.on = on
    BY DEF Instruction
  <2> HIDE DEF i
  <2>2. i \in Joining(st)
    BY <1>1, <2>1 DEF Joining
  <2>3. <<i>> \in Seq(Joining(st))
    BY <2>2
  <2> QED BY <2>3 DEF i, Do
<1>2. "await" \in Ops
  BY DEF Ops
<1> QED BY <1>1, <1>2, Apart

LEMMA JoiningHolding ==
  \A st : \A m \in Mutexes : \A p \in Seq(Joining(st)) : Holding(m, p) \in Seq(Joining(st))
<1> SUFFICES ASSUME NEW st, NEW m \in Mutexes, NEW p \in Seq(Joining(st))
             PROVE  Holding(m, p) \in Seq(Joining(st))
  OBVIOUS
<1>1. {"lock", "unlock"} \subseteq Ops \ {"await"} /\ m \in Resources
  BY Apart DEF Ops
<1>2. /\ Do("lock", m) \in Seq(Joining(st)) /\ Do("unlock", m) \in Seq(Joining(st))
      /\ Do("await", m) \in Seq(Joining(st))
  BY <1>1, JoiningDo
<1>3. Do("lock", m) \o p \o Do("unlock", m) \in Seq(Joining(st))
  BY <1>2, JoiningBoth
<1> QED BY <1>2, <1>3 DEF Holding

(* No program has a join in it: joins are decided on while it runs.        *)
LEMMA JoiningPrograms ==
  ASSUME NEW st, NEW t \in Threads
  PROVE  Body(t) \in Seq(Joining(st)) /\ Calls(t) \subseteq Seq(Joining(st))
<1> DEFINE J == Seq(Joining(st))
<1>1. /\ {"raise", "lower", "open", "shutdown", "destroy", "spawn", "reap", "call"}
            \subseteq Ops \ {"await"}
      /\ {"server", "rest", "game", "bn"} \subseteq Resources \union Flags
      /\ {"main", "timer", "bnRun", "gameRun", "restRun", "bnIo", "restIo"} \subseteq Resources
      /\ t \in Resources \union Flags
      /\ Mutexes = {"routes", "clients", "world", "audit", "debug", "sink"}
  BY DEF Ops, Flags, Resources, Threads, Workers, Mutexes
<1>2. /\ <<>> \in J
      /\ \A p, q \in J : p \o q \in J
      /\ \A m \in Mutexes : \A p \in J : Holding(m, p) \in J
      /\ \A op \in Ops \ {"await"} : \A on \in Resources \union Flags : Do(op, on) \in J
  BY JoiningNothing, JoiningBoth, JoiningHolding, JoiningDo
<1> HIDE DEF J
<1>3. Log \in J /\ Line \in J
  BY <1>1, <1>2 DEF Log, Line
<1>4. RegisterRoutes \in J /\ Loop(t) \in J /\ Loop("main") \in J
  BY <1>1, <1>2, <1>3 DEF RegisterRoutes, Loop
<1>5. Body(t) \in J
  <2> DEFINE Start == Do("raise", "game") \o RegisterRoutes \o Do("raise", "server") \o Line
                        \o Do("spawn", "bnRun") \o Do("spawn", "gameRun") \o Do("spawn", "restRun")
  <2>1. Start \in J
    BY <1>1, <1>2, <1>3, <1>4
  <2>2. ASSUME NEW s \in J
        PROVE  s \o Loop("main") \o Line \o Do("destroy", "server") \o Do("destroy", "rest")
                 \o Do("destroy", "game") \o Do("destroy", "bn") \o Line \in J
    BY <1>1, <1>2, <1>3, <1>4
  <2>3. CASE t = "main"
    BY <2>1, <2>2, <2>3 DEF Body
  <2>4. CASE t # "main"
    BY <1>1, <1>2, <1>4, <2>4 DEF Body
  <2> QED BY <2>3, <2>4
<1>6. HandleAccept \subseteq J /\ CleanupClients \subseteq J
  <2>1. \A gone \in {<<>>, Log} : Holding("clients", gone) \in J
    BY <1>1, <1>2, <1>3
  <2>2. \A gone \in {<<>>, Log} : Holding("clients", <<>>) \o Holding("clients", gone) \in J
    BY <1>2, <2>1
  <2> QED BY <2>1, <2>2 DEF HandleAccept, CleanupClients
<1>7. Requests \subseteq J
  BY <1>1, <1>2, <1>3 DEF Requests, ProcessRequest
<1>8. Recent \in J
  BY <1>1, <1>2 DEF Recent
<1>9. LogAction \subseteq J /\ EntriesByFilter \subseteq J
  <2>1. \A p \in {<<>>, Log, Recent} : Holding("audit", p) \in J
    BY <1>1, <1>2, <1>3, <1>8
  <2>2. \A p \in {<<>>, Log, Recent} : Holding("audit", <<>>) \o p \in J
    BY <1>2, <1>3, <1>8, <2>1
  <2> QED BY <2>1, <2>2 DEF LogAction, EntriesByFilter
<1>10. WorldCalls \subseteq J /\ DebugCalls \subseteq J
  BY <1>1, <1>2, <1>3 DEF WorldCalls, DebugCalls
<1>11. Calls(t) \subseteq J
  BY <1>6, <1>7, <1>8, <1>9, <1>10 DEF Calls, AuditCalls
<1> QED BY <1>5, <1>11 DEF J

LEMMA JoiningShutdown ==
  ASSUME NEW st
  PROVE  SignalHandler \in Seq(Joining(st)) /\ \A c : Shutdown(c) \subseteq Seq(Joining(st))
<1> DEFINE J == Seq(Joining(st))
<1>1. /\ {"raise", "lower", "shutdown", "reap"} \subseteq Ops \ {"await"}
      /\ {"server", "rest", "game", "bn", "gameStop"} \subseteq Resources \union Flags
      /\ {"bnRun", "gameRun", "restRun"} \subseteq Resources \union Flags
      /\ {"bnIo", "gameLoop", "restIo"} \subseteq Resources \union Flags
      /\ {"clients", "sink"} \subseteq Mutexes
  BY DEF Ops, Flags, Resources, Threads, Workers, Mutexes
<1>2. /\ <<>> \in J
      /\ \A p, q \in J : p \o q \in J
      /\ \A m \in Mutexes : \A p \in J : Holding(m, p) \in J
      /\ \A op \in Ops \ {"await"} : \A on \in Resources \union Flags : Do(op, on) \in J
  BY JoiningNothing, JoiningBoth, JoiningHolding, JoiningDo
<1> HIDE DEF J
<1>3. Log \in J /\ Line \in J
  BY <1>1, <1>2 DEF Log, Line
<1>4. ShutdownRest \in J /\ ShutdownGame \in J
  BY <1>1, <1>2, <1>3 DEF ShutdownRest, ShutdownGame
<1>5. \A gone \in {<<>>, Log} : ShutdownBn(gone) \in J
  BY <1>1, <1>2, <1>3 DEF ShutdownBn
<1>6. ShutdownServer \in J
  BY <1>1, <1>2, <1>3 DEF ShutdownServer
<1>7. SignalHandler \in J
  BY <1>1, <1>2, <1>3 DEF SignalHandler
<1> QED BY <1>3, <1>4, <1>5, <1>6, <1>7 DEF Shutdown, J

LEMMA JoiningExpansions ==
  ASSUME started \subseteq Threads, NEW i \in Instruction
  PROVE  Expansions(i) \subseteq Seq(Joining(started))
<1>1. Do("spawn", "gameLoop") \in Seq(Joining(started))
  BY JoiningDo DEF Ops, Resources, Threads, Workers
<1>2. i.on \in started => Do("await", i.on) \in Seq(Joining(started))
  BY JoiningDo
<1> QED BY <1>1, <1>2, JoiningShutdown, JoiningNothing DEF Expansions

LEMMA JoiningMore == \A a, b : a \subseteq b => Seq(Joining(a)) \subseteq Seq(Joining(b))
<1> SUFFICES ASSUME NEW a, NEW b, a \subseteq b, NEW p \in Seq(Joining(a))
             PROVE  p \in Seq(Joining(b))
  OBVIOUS
<1>1. Joining(a) \subseteq Joining(b)
  BY DEF Joining
<1> QED BY <1>1, SeqMonotonic

(* A thread joins only started ones, ends with its last instruction, and   *)
(* locks nothing before it starts.                                         *)
SInv ==
  /\ KInv
  /\ \A t \in Threads : /\ rest[t] \in Seq(Joining(started))
                        /\ owner[t] = Nobody => rest[t] = <<>>
                        /\ t \notin started => Held(t) = {}

LEMMA InitSInv == Init => SInv
<1> SUFFICES ASSUME Init
             PROVE  SInv
  OBVIOUS
<1>1. ASSUME NEW t \in Threads
      PROVE  /\ rest[t] \in Seq(Joining(started))
             /\ owner[t] = Nobody => rest[t] = <<>>
             /\ Held(t) = {}
  BY JoiningPrograms, Apart DEF Init, Held
<1> QED BY <1>1, InitKInv DEF SInv

LEMMA StepSInv ==
  ASSUME SInv, KInv', NEW t \in Threads, t \in started, started \subseteq started',
         rest'[t] \in Seq(Joining(started)), owner'[t] = Nobody => rest'[t] = <<>>,
         \A u \in Threads \ {t} : rest'[u] = rest[u] /\ owner'[u] = owner[u],
         \A m \in Mutexes : owner'[m] \in {owner[m], t, Nobody}
  PROVE  SInv'
<1>1. ASSUME NEW u \in Threads
      PROVE  /\ rest'[u] \in Seq(Joining(started'))
             /\ owner'[u] = Nobody => rest'[u] = <<>>
             /\ u \notin started' => Held(u)' = {}
  <2>1. rest'[u] \in Seq(Joining(started))
    BY DEF SInv
  <2>2. rest'[u] \in Seq(Joining(started'))
    BY <2>1, JoiningMore
  <2>3. owner'[u] = Nobody => rest'[u] = <<>>
    BY DEF SInv
  <2>4. ASSUME u \notin started'
        PROVE  Held(u)' = {}
    <3>1. u # t /\ u \notin started
      BY <2>4
    <3>2. \A m \in Mutexes : owner[m] # u
      BY <3>1 DEF SInv, Held
    <3> QED BY <3>1, <3>2, Apart DEF Held
  <2> QED BY <2>2, <2>3, <2>4
<1> QED BY <1>1 DEF SInv

LEMMA GoOnSInv ==
  ASSUME SInv, KInv', NEW t \in Threads, Active(t), started \subseteq started',
         NEW p \in Seq(Joining(started)), NEW locks, GoOn(t, p, locks),
         \A m \in Mutexes : locks[m] \in {owner[m], t, Nobody},
         \A u \in Threads : locks[u] = owner[u],
         locks \in [Resources -> Threads \union {Nobody}]
  PROVE  SInv'
<1>1. t \in started /\ owner[t] = t /\ rest[t] # <<>>
  BY DEF Active, SInv, KInv, KeepsProgram
<1>2. /\ rest'[t] = p \o Tail(rest[t])
      /\ \A u \in Threads \ {t} : rest'[u] = rest[u]
  BY DEF GoOn, SInv, KInv
<1>3. owner' = IF rest'[t] = <<>> THEN [locks EXCEPT ![t] = Nobody] ELSE locks
  BY DEF GoOn
<1>4. rest'[t] \in Seq(Joining(started))
  <2>1. Tail(rest[t]) \in Seq(Joining(started))
    BY <1>1, HeadTailProperties DEF SInv
  <2> QED BY <1>2, <2>1, JoiningBoth
<1>5. owner'[t] = Nobody => rest'[t] = <<>>
  BY <1>1, <1>3, Apart
<1>6. \A u \in Threads \ {t} : owner'[u] = owner[u]
  BY <1>3, Apart
<1>7. \A m \in Mutexes : owner'[m] \in {owner[m], t, Nobody}
  BY <1>3, Apart
<1> QED BY <1>1, <1>2, <1>4, <1>5, <1>6, <1>7, StepSInv

LEMMA PushSInv ==
  ASSUME SInv, KInv', NEW t \in Threads, Active(t), NEW p \in Seq(Joining(started)),
         rest' = [rest EXCEPT ![t] = p \o @], owner' = owner, started' = started
  PROVE  SInv'
<1>1. t \in started /\ owner[t] = t
  BY DEF Active
<1>2. /\ rest'[t] = p \o rest[t]
      /\ \A u \in Threads \ {t} : rest'[u] = rest[u]
  BY DEF SInv, KInv
<1>3. rest'[t] \in Seq(Joining(started))
  BY <1>2, JoiningBoth DEF SInv
<1> QED BY <1>1, <1>2, <1>3, Apart, StepSInv

LEMMA NextSInv == SInv /\ [Next]_vars => SInv'
<1> SUFFICES ASSUME SInv, [Next]_vars
             PROVE  SInv'
  OBVIOUS
<1>1. KInv'
  BY NextKInv DEF SInv
<1>2. owner \in [Resources -> Threads \union {Nobody}] /\ started \subseteq Threads
  BY DEF SInv, KInv
<1>3. ASSUME NEW t \in Threads, Lock(t)
      PROVE  SInv'
  <2> DEFINE locks == [owner EXCEPT ![On(t)] = t]
  <2>1. Active(t) /\ GoOn(t, <<>>, locks) /\ started' = started /\ owner[On(t)] = Nobody
    BY <1>3 DEF Lock, At
  <2>2. On(t) \in Mutexes
    BY <1>3, <2>1, AtTypes DEF Lock, At, SInv
  <2>3. /\ locks \in [Resources -> Threads \union {Nobody}]
        /\ \A m \in Mutexes : locks[m] \in {owner[m], t, Nobody}
        /\ \A u \in Threads : locks[u] = owner[u]
    BY <1>2, <2>2, Apart
  <2> HIDE DEF locks
  <2> QED BY <1>1, <2>1, <2>3, JoiningNothing, GoOnSInv
<1>4. ASSUME NEW t \in Threads, Unlock(t)
      PROVE  SInv'
  <2> DEFINE locks == [owner EXCEPT ![On(t)] = Nobody]
  <2>1. Active(t) /\ GoOn(t, <<>>, locks) /\ started' = started
    BY <1>4 DEF Unlock, At
  <2>2. On(t) \in Mutexes
    BY <1>4, <2>1, AtTypes DEF Unlock, At, SInv
  <2>3. /\ locks \in [Resources -> Threads \union {Nobody}]
        /\ \A m \in Mutexes : locks[m] \in {owner[m], t, Nobody}
        /\ \A u \in Threads : locks[u] = owner[u]
    BY <1>2, <2>2, Apart
  <2> HIDE DEF locks
  <2> QED BY <1>1, <2>1, <2>3, JoiningNothing, GoOnSInv
<1>5. ASSUME NEW t \in Threads, Await(t) \/ Spawn(t) \/ SetFlag(t) \/ Leave(t)
      PROVE  SInv'
  <2>1. Active(t) /\ GoOn(t, <<>>, owner) /\ started \subseteq started'
    BY <1>5 DEF Await, Spawn, SetFlag, Leave, At
  <2> QED BY <1>1, <1>2, <2>1, JoiningNothing, GoOnSInv
<1>6. ASSUME NEW t \in Threads, Decide(t)
      PROVE  SInv'
  <2>1. Active(t) /\ started' = started
    BY <1>6 DEF Decide, At
  <2>2. PICK p \in Expansions(Head(rest[t])) : GoOn(t, p, owner)
    BY <1>6 DEF Decide
  <2>3. Head(rest[t]) \in Instruction
    BY <2>1, AtKept DEF SInv
  <2>4. p \in Seq(Joining(started))
    BY <1>2, <2>3, JoiningExpansions
  <2> QED BY <1>1, <1>2, <2>1, <2>2, <2>4, GoOnSInv
<1>7. ASSUME NEW t \in Threads, Call(t)
      PROVE  SInv'
  <2>1. Active(t) /\ owner' = owner /\ started' = started
    BY <1>7 DEF Call, At
  <2>2. PICK p \in Calls(t) : rest' = [rest EXCEPT ![t] = p \o @]
    BY <1>7 DEF Call
  <2>3. p \in Seq(Joining(started))
    BY JoiningPrograms
  <2> QED BY <1>1, <2>1, <2>2, <2>3, PushSInv
<1>8. ASSUME NEW s \in Signals, Interrupt(s)
      PROVE  SInv'
  <2>1. /\ Active("main") /\ "main" \in Threads /\ owner' = owner /\ started' = started
        /\ rest' = [rest EXCEPT !["main"] = SignalHandler \o @]
    BY <1>8 DEF Interrupt, Threads
  <2> QED BY <1>1, <2>1, JoiningShutdown, PushSInv
<1>9. CASE Next
  BY <1>3, <1>4, <1>5, <1>6, <1>7, <1>8, <1>9 DEF Next, Step
<1>10. CASE UNCHANGED vars
  BY <1>1, <1>10 DEF vars, SInv, Held
<1> QED BY <1>9, <1>10

(* Of the threads that wait, one waits for what none of them owns; and who *)
(* owns it is there.                                                       *)
LEMMA FreeIsNotStuck == SInv /\ DeadlockFree => NeverStuck
<1> SUFFICES ASSUME SInv, DeadlockFree, NEW a \in Threads, Active(a)
             PROVE  \E t \in Threads : Active(t) /\ (wants[t] = Nobody \/ owner[wants[t]] = Nobody)
  BY DEF NeverStuck
<1>1. CASE wants[a] = Nobody
  BY <1>1
<1>2. CASE wants[a] # Nobody
  <2> DEFINE D == {t \in Threads : wants[t] # Nobody}
  <2>1. PICK t \in D : owner[wants[t]] \notin D
    BY <1>2 DEF DeadlockFree, Hierarchy!DeadlockFree, Hierarchy!Waits
  <2>2. At(t, {"lock", "await"}) /\ wants[t] = On(t) /\ Active(t)
    BY <2>1 DEF SInv, KInv, Waiting, At
  <2>3. CASE owner[wants[t]] = Nobody
    BY <2>2, <2>3
  <2>4. CASE owner[wants[t]] # Nobody
    <3> DEFINE u == owner[wants[t]]
    <3>1. PICK h \in SUBSET Mutexes, k \in SUBSET Mutexes : <<h, Head(rest[t]), k>> \in Kept
      BY <2>2, AtKept DEF SInv
    <3>2. On(t) \in Resources
      BY <2>2, <3>1, Apart DEF At, On, Kept
    <3>3. u \in Threads
      BY <2>2, <2>4, <3>2 DEF SInv, KInv
    <3>4. wants[u] = Nobody
      BY <2>1, <3>3
    <3>5. Active(u)
      <4>1. CASE On(t) \in Mutexes
        <5>1. On(t) \in Held(u)
          BY <2>2, <4>1 DEF Held
        <5>2. u \in started
          BY <3>3, <5>1 DEF SInv
        <5>3. rest[u] # <<>>
          <6>1. PICK g \in SUBSET Mutexes : On(t) \in g /\ Through(Kept, g, rest[u], {})
            BY <3>3, <5>1 DEF SInv, KInv, KeepsProgram
          <6> QED BY <6>1, ThroughEnd
        <5> QED BY <3>3, <5>2, <5>3 DEF Active, SInv, KInv
      <4>2. CASE On(t) \in Threads
        <5>1. u = On(t) /\ owner[u] = u
          BY <2>2, <2>4, <4>2 DEF SInv, KInv
        <5>2. Head(rest[t]).op = "await"
          BY <2>2, <3>1, <4>2, Apart DEF At, On, Kept
        <5>3. rest[t] # <<>> /\ rest[t] \in Seq(Joining(started))
          BY <2>2 DEF SInv, KInv, KeepsProgram, Active
        <5>4. Head(rest[t]) \in Joining(started)
          BY <5>3, HeadTailProperties
        <5>5. u \in started
          BY <4>2, <5>1, <5>2, <5>4 DEF Joining, On
        <5> QED BY <5>1, <5>5 DEF Active
      <4> QED BY <3>2, <4>1, <4>2 DEF Resources
    <3> QED BY <3>3, <3>4, <3>5
  <2> QED BY <2>3, <2>4
<1> QED BY <1>1, <1>2

(* However many threads there are and however they are interleaved: as     *)
(* long as one of them runs, one can take a step.  Nobody waits for a      *)
(* mutex that an ended thread has kept, nor joins one that never started.  *)
THEOREM NobodyIsStuck ==
  ASSUME Undisturbed
  PROVE  Spec => []NeverStuck
BY InitSInv, NextSInv, FreeIsNotStuck, NoDeadlock, PTL DEF Spec
=============================================================================
