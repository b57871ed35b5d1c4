---------------------------- MODULE ServerLocks ----------------------------
(***************************************************************************)
(* ServerLocks: every mutex of the process and every join(), to see        *)
(* whether its threads can come to wait for each other.  A thread has a    *)
(* program, the instructions it still has to execute: mutexes it locks and *)
(* unlocks, threads it starts and joins, flags it tests.  What it does in  *)
(* between is left out, and where the code takes one of two branches for   *)
(* data that is left out, either may be taken.                             *)
(*                                                                         *)
(* A program of threads is the server, or another one that uses its        *)
(* libraries, as the unit tests do: Users call the audit log, the world    *)
(* and the debug log's control, which the server does not use yet.  What   *)
(* is written to the debug log, and its timers, are left out:              *)
(* they do nothing as long as it is off, and no call turns it on without   *)
(* staying in it (see DebugCalls).                                         *)
(***************************************************************************)
EXTENDS Naturals, Sequences

CONSTANTS
  Users,       \* threads that call the libraries
  Starts,      \* the sets of threads a program may start with
  Signals,     \* bound: the signals that arrive, each once
  Anywhere,    \* a handler may run while main() is inside a critical section
  DebugOn,     \* Debug::init() may be called to turn the debug log on, its default
  Nobody       \* the owner of what nobody owns

VARIABLES
  rest,     \* rest[t]: the instructions t still has to execute
  owner,    \* owner[r]: the thread that has locked r, or is r and has not ended
  started,  \* the threads that have been created
  up,       \* the flags that are set
  signals,  \* the signals that may still arrive
  wants     \* wants[t]: what t waits for, Nobody when t can run (see Waiting)

vars == <<rest, owner, started, up, signals, wants>>

Workers == {"bnRun", "gameRun", "restRun", "bnIo", "gameLoop", "restIo", "timer"}
Threads == {"main"} \union Workers \union Users
Mutexes == {"routes", "clients", "world", "audit", "debug", "sink"}
Resources == Mutexes \union Threads

(* The "running" flags, and the game server's m_shutdownSignal.  That an   *)
(* io_context has been stopped is that its server's flag is down: they are *)
(* changed one after the other.                                            *)
Flags == {"server", "bn", "game", "rest", "gameStop"}

ASSUME UsersAssumption ==
  /\ Users \intersect ({"main"} \union Workers \union Mutexes) = {}
  /\ Nobody \notin Resources
ASSUME StartsAssumption == Starts \subseteq SUBSET Threads
ASSUME SwitchAssumption == Anywhere \in BOOLEAN /\ DebugOn \in BOOLEAN

Ops == {"lock", "unlock", "await", "spawn", "raise", "lower", "call",
        "open", "shutdown", "destroy", "reap"}
Instruction == [op : Ops, on : Resources \union Flags]

(* The types, and that a locked mutex is owned by a thread that is still   *)
(* to unlock it, which it does before it ends.                             *)
TypeOK ==
  /\ rest \in [Threads -> Seq(Instruction)]
  /\ owner \in [Resources -> Threads \union {Nobody}]
  /\ \A t \in Threads : owner[t] \in {t, Nobody}
  /\ \A m \in Mutexes : owner[m] # Nobody =>
       \E n \in DOMAIN rest[owner[m]] : rest[owner[m]][n] = [op |-> "unlock", on |-> m]
  /\ started \subseteq Threads /\ up \subseteq Flags
  /\ signals \subseteq Signals
  /\ wants \in [Threads -> Resources \union {Nobody}]

-----------------------------------------------------------------------------
(* Programs                                                                *)
Do(op, on) == <<[op |-> op, on |-> on]>>

(* A critical section.  When nothing is done in it but what is left out,   *)
(* and no handler can interrupt it, it is a wait until the mutex is free.  *)
Holding(m, p) ==
  IF p = <<>> /\ ~Anywhere
  THEN Do("await", m)
  ELSE Do("lock", m) \o p \o Do("unlock", m)

(* LOG_*: the _mt sinks of spdlog lock a mutex while they write.  A thread *)
(* that logs a Line owns no mutex, and who owns the sink's waits for       *)
(* nothing: the line matters to others only if a handler can interrupt it. *)
Log == Holding("sink", <<>>)
Line == IF Anywhere THEN Log ELSE <<>>

(* handleAccept(): the table is counted; a connection that is not turned   *)
(* away is entered in it, where it may replace a client, which then logs.  *)
HandleAccept ==
  {Holding("clients", <<>>)}
    \union {Holding("clients", <<>>) \o Holding("clients", gone) : gone \in {<<>>, Log}}

(* cleanupClients() with a client to remove, which logs, and without one.  *)
CleanupClients == {Holding("clients", gone) : gone \in {<<>>, Log}}

(* processRequest(): the handler runs, and the answer is started, under    *)
(* m_routesMutex.  A shutdown request starts the timer thread.             *)
ProcessRequest(handler) == Holding("routes", handler)

(* Deviant of Requests: the shutdown request is carried out in the handler.*)
RequestsExitInline == {ProcessRequest(Log), ProcessRequest(Log \o Do("destroy", "server"))}

Requests == {ProcessRequest(Log), ProcessRequest(Log \o Do("spawn", "timer"))}
RegisterRoutes == Holding("routes", Log)

(* The audit log.  The callback and the filter are the caller's; they may  *)
(* log, and the callback may use the audit log itself.  Recent stands for  *)
(* every call that only reads or sets something under the mutex.           *)
Recent == Holding("audit", <<>>)

(* Deviant of LogAction: the callback is called under the mutex.           *)
LogActionCallsInside == {Holding("audit", callback) : callback \in {<<>>, Log, Recent}}

LogAction == {Holding("audit", <<>>) \o callback : callback \in {<<>>, Log, Recent}}
EntriesByFilter == {Holding("audit", filter) : filter \in {<<>>, Log}}
AuditCalls == LogAction \union EntriesByFilter \union {Recent}

(* Deviant of WorldCalls: a duplicate player is an early return that does  *)
(* not unlock.                                                             *)
WorldCallsKeepLock == {Holding("world", <<>>), Do("lock", "world") \o Log}

(* World::update, and adding or removing a player.                         *)
WorldCalls == {Holding("world", <<>>), Holding("world", Log)}

(* Debug::setLogCallback and Debug::init(false); init(true), which calls   *)
(* log() under the mutex that log() locks, and its callback, which logs.   *)
DebugCalls ==
  {Holding("debug", <<>>)}
    \union (IF DebugOn THEN {Holding("debug", Holding("debug", Log))} ELSE {})

(* What each thread calls in its loop, and when it leaves the loop.        *)
Calls(t) ==
  CASE t = "bnRun" -> CleanupClients
    [] t = "bnIo" -> HandleAccept
    [] t = "restIo" -> Requests
    [] t \in Users -> AuditCalls \union WorldCalls \union DebugCalls
    [] OTHER -> {}

Leaves(t) ==
  CASE t = "main" -> "server" \notin up
    [] t \in {"bnRun", "bnIo"} -> "bn" \notin up
    [] t = "restIo" -> "rest" \notin up
    [] t = "gameLoop" -> "gameStop" \in up
    [] OTHER -> FALSE

Loop(t) == Do("call", t)

(* The functions the threads run.  main() has built the server; after its  *)
(* loop it returns, and the destructors run, each with a last log line.    *)
(* The timer of an admin request calls exit(), which runs ~Server.         *)
Body(t) ==
  CASE t = "main" ->
         Do("raise", "game") \o RegisterRoutes \o Do("raise", "server") \o Line
           \o Do("spawn", "bnRun") \o Do("spawn", "gameRun") \o Do("spawn", "restRun")
           \o Loop(t) \o Line
           \o Do("destroy", "server") \o Do("destroy", "rest")
           \o Do("destroy", "game") \o Do("destroy", "bn") \o Line
    [] t = "bnRun" -> Do("raise", "bn") \o Do("spawn", "bnIo") \o Loop(t)
    [] t = "restRun" -> Do("raise", "rest") \o Do("spawn", "restIo")
    [] t = "gameRun" -> Do("open", "game")
    [] t = "timer" -> Do("destroy", "server")
    [] OTHER -> Loop(t)

(* shutdown() of the server and of its components, gone being what the     *)
(* clients log that are destroyed with the table.                          *)
ShutdownRest == Line \o Do("lower", "rest") \o Do("reap", "restIo")
ShutdownGame ==
  Line \o Do("raise", "gameStop") \o Do("reap", "gameLoop") \o Do("lower", "game")

(* Deviant of ShutdownBn: the table is locked for the whole shutdown.      *)
ShutdownBnLocked(gone) ==
  Line \o Do("lower", "bn") \o Holding("clients", Do("reap", "bnIo") \o gone)

ShutdownBn(gone) ==
  Line \o Do("lower", "bn") \o Do("reap", "bnIo") \o Holding("clients", gone)
ShutdownServer ==
  Line \o Do("lower", "server")
    \o Do("shutdown", "rest") \o Do("shutdown", "game") \o Do("shutdown", "bn")
    \o Do("reap", "bnRun") \o Do("reap", "gameRun") \o Do("reap", "restRun") \o Line

Running(c) == c \in up \/ (c = "game" /\ "gameStop" \in up)

Shutdown(c) ==
  CASE ~Running(c) -> {Line}
    [] c = "server" -> {ShutdownServer}
    [] c = "rest" -> {ShutdownRest}
    [] c = "game" -> {ShutdownGame}
    [] OTHER -> {ShutdownBn(gone) : gone \in {<<>>, Log}}

SignalHandler == Line \o Do("shutdown", "server")

(* Deviant of Expansions: shutdown() waits for the end of a thread without *)
(* asking whether it is joinable.                                          *)
ExpansionsJoinAnyway(i) ==
  CASE i.op = "shutdown" -> Shutdown(i.on)
    [] i.op = "destroy" -> IF i.on \in up THEN Shutdown(i.on) ELSE {<<>>}
    [] i.op = "open" -> {IF i.on \in up THEN Do("spawn", "gameLoop") ELSE <<>>}
    [] i.op = "reap" -> {Do("await", i.on)}
    [] OTHER -> {}

(* What an instruction that only decides what to do next turns into; that  *)
(* a std::thread is joinable is that it has been started.                  *)
Expansions(i) ==
  CASE i.op = "shutdown" -> Shutdown(i.on)
    [] i.op = "destroy" -> IF i.on \in up THEN Shutdown(i.on) ELSE {<<>>}
    [] i.op = "open" -> {IF i.on \in up THEN Do("spawn", "gameLoop") ELSE <<>>}
    [] i.op = "reap" -> {IF i.on \in started THEN Do("await", i.on) ELSE <<>>}
    [] OTHER -> {}

-----------------------------------------------------------------------------
(* Steps                                                                   *)

(* The process ends when main() or the thread that called exit() has run   *)
(* the destructors.                                                        *)
Over == owner["main"] = Nobody \/ owner["timer"] = Nobody

Active(t) == t \in started /\ owner[t] = t

At(t, ops) == Active(t) /\ Head(rest[t]).op \in ops
On(t) == Head(rest[t]).on

(* What each thread waits for: a mutex, or the end of a thread.            *)
Waiting == [t \in Threads |-> IF At(t, {"lock", "await"}) THEN On(t) ELSE Nobody]

(* t goes on with p and the rest of its program, locks being the owners of *)
(* the mutexes; the thread ends with its last instruction.                 *)
GoOn(t, p, locks) ==
  /\ rest' = [rest EXCEPT ![t] = p \o Tail(@)]
  /\ owner' = IF rest'[t] = <<>> THEN [locks EXCEPT ![t] = Nobody] ELSE locks

(* The mutexes are not recursive: a thread waits for one it holds itself.  *)
Lock(t) ==
  /\ At(t, {"lock"})
  /\ owner[On(t)] = Nobody
  /\ GoOn(t, <<>>, [owner EXCEPT ![On(t)] = t])
  /\ UNCHANGED <<started, up, signals>>

Unlock(t) ==
  /\ At(t, {"unlock"})
  /\ GoOn(t, <<>>, [owner EXCEPT ![On(t)] = Nobody])
  /\ UNCHANGED <<started, up, signals>>

(* join(), or a short critical section (see Holding).                      *)
Await(t) ==
  /\ At(t, {"await"})
  /\ owner[On(t)] = Nobody
  /\ GoOn(t, <<>>, owner)
  /\ UNCHANGED <<started, up, signals>>

Spawn(t) ==
  /\ At(t, {"spawn"})
  /\ started' = started \union {On(t)}
  /\ GoOn(t, <<>>, owner)
  /\ UNCHANGED <<up, signals>>

SetFlag(t) ==
  /\ \/ At(t, {"raise"}) /\ up' = up \union {On(t)}
     \/ At(t, {"lower"}) /\ up' = up \ {On(t)}
  /\ GoOn(t, <<>>, owner)
  /\ UNCHANGED <<started, signals>>

Decide(t) ==
  /\ At(t, {"open", "shutdown", "destroy", "reap"})
  /\ \E p \in Expansions(Head(rest[t])) : GoOn(t, p, owner)
  /\ UNCHANGED <<started, up, signals>>

Call(t) ==
  /\ At(t, {"call"})
  /\ ~Leaves(t)
  /\ \E p \in Calls(t) : rest' = [rest EXCEPT ![t] = p \o @]
  /\ UNCHANGED <<owner, started, up, signals>>

Leave(t) ==
  /\ At(t, {"call"})
  /\ Leaves(t)
  /\ GoOn(t, <<>>, owner)
  /\ UNCHANGED <<started, up, signals>>

(* A signal once the server has been built: its handler runs on the main   *)
(* thread, on top of whatever this was doing or waiting for.               *)
Interrupt(s) ==
  /\ s \in signals
  /\ Active("main")
  /\ Anywhere \/ \A m \in Mutexes : owner[m] # "main"
  /\ signals' = signals \ {s}
  /\ rest' = [rest EXCEPT !["main"] = SignalHandler \o @]
  /\ UNCHANGED <<owner, started, up>>

Init ==
  /\ rest = [t \in Threads |-> Body(t)]
  /\ owner = [r \in Resources |-> IF r \in Threads THEN r ELSE Nobody]
  /\ started \in Starts
  /\ up = {}
  /\ signals = Signals
  /\ wants = Waiting

Step ==
  \/ \E t \in Threads :
       \/ Lock(t) \/ Unlock(t) \/ Await(t) \/ Spawn(t) \/ SetFlag(t)
       \/ Decide(t) \/ Call(t) \/ Leave(t)
  \/ \E s \in Signals : Interrupt(s)

Next == ~Over /\ Step /\ wants' = Waiting'

Spec == Init /\ [][Next]_vars
-----------------------------------------------------------------------------
(* Properties                                                              *)

(* The hierarchy the code keeps to: main() and the threads nobody joins,   *)
(* then the threads that are joined, the mutexes that are held across      *)
(* calls into other parts, the debug log's, and last the sinks'.           *)
Rank == [r \in Resources |->
           CASE r \in Workers \ {"timer"} -> 1
             [] r \in {"routes", "clients", "world", "audit"} -> 2
             [] r = "debug" -> 3
             [] r = "sink" -> 4
             [] OTHER -> 0]

Hierarchy == INSTANCE LockHierarchy WITH MaxRank <- 4

(* The server's threads keep to the hierarchy: a mutex is taken, and a     *)
(* thread is joined, only above everything the thread holds; in particular *)
(* nothing is joined, and no caller's code is run that locks the same      *)
(* mutex, under a mutex.                                                   *)
HierarchySpec == Hierarchy!Spec

(* No threads wait for each other, or for themselves: not the IO threads   *)
(* and who joins them, not a handler and the code it interrupted.          *)
DeadlockFree == Hierarchy!DeadlockFree

(* As long as a thread runs, some thread can take a step: nobody is left   *)
(* waiting for a mutex whose owner has ended, or for the end of a thread   *)
(* that was never started, once all others have ended or wait as well.     *)
NeverStuck ==
  (\E t \in Threads : Active(t)) =>
    \E t \in Threads : Active(t) /\ (wants[t] = Nobody \/ owner[wants[t]] = Nobody)
=============================================================================
