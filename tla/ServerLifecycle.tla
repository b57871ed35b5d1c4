--------------------------- MODULE ServerLifecycle ---------------------------
(***************************************************************************)
(* Start-up and shutdown of D3Server: main(), the Server class, and the    *)
(* threads of the Battle.net, game and REST servers it coordinates.        *)
(*                                                                         *)
(* A step is what a thread does between two places where another thread,   *)
(* or a signal handler on the main thread, can see a difference.  The      *)
(* handler runs on the main thread: it interrupts whatever main is doing,  *)
(* main goes on when it returns, and a second signal interrupts the first  *)
(* one's handler.  The timer thread is the one that the shutdown and       *)
(* restart requests of the admin API detach, and that calls exit().        *)
(***************************************************************************)
EXTENDS Naturals, Sequences

CONSTANTS
  Signals,       \* the signals that are delivered, each at most once (bound)
  Settled,       \* no signal, no admin request before the server is up
  InitCanFail,   \* a component's init() may return false
  SpawnCanFail,  \* the creation of a server thread may throw
  AdminExit,     \* shutdown or restart is requested through the admin API
  HandlersThrow  \* an exception may leave a handler of the REST IO thread

ASSUME SignalsAssumption == Signals \cap {"main", "timer"} = {}
ASSUME SwitchAssumption ==
  {Settled, InitCanFail, SpawnCanFail, AdminExit, HandlersThrow} \subseteq BOOLEAN

Comp    == {"bn", "game", "rest"}
NetComp == {"bn", "rest"}          \* the ones built on an io_context
Exiter  == {"main", "timer"}       \* the threads that call exit()
Frame   == Signals \union Exiter   \* who may be inside Server::shutdown()

VARIABLES
  pc,         \* pc[e]: where main() and the timer thread are
  sp,         \* sp[f]: where frame f is inside shutdown(), "idle" if outside
  stack,      \* handlers on the main thread, innermost first
  delivered,  \* signals delivered so far
  running,    \* Server::m_running
  slot,       \* slot[c]: m_serverThreads holds a joinable thread for c
  ready,      \* components whose init() returned true
  outer,      \* outer[c]: the thread that executes c's run()
  inner,      \* inner[c]: the IO thread, or the game loop's thread, of c
  handle,     \* handle[c]: m_ioThread / m_gameThread is joinable
  up,         \* up[c]: m_running / GameServer::m_isRunning
  halt,       \* halt[c]: io_context stopped / m_shutdownSignal
  connected,  \* the Battle.net server's m_clients is not empty
  fate        \* "alive", "exited" or "terminated" (std::terminate)

compVars == <<slot, ready, outer, inner, handle, up, halt, connected>>
vars == <<pc, sp, stack, delivered, running, fate, compVars>>

InitPc    == [bn |-> "initBn",  game |-> "initGame",  rest |-> "initRest"]
SpawnPc   == [bn |-> "spawnBn", game |-> "spawnGame", rest |-> "spawnRest"]
DestroyPc == [bn |-> "dBn",     game |-> "dGame",     rest |-> "dRest"]
CheckSp   == [bn |-> "bnCheck", game |-> "gameCheck", rest |-> "restCheck"]
StopSp    == [bn |-> "bnStop",  game |-> "gameStop",  rest |-> "restStop"]
JoinSp    == [bn |-> "bnJoin",  game |-> "gameJoin",  rest |-> "restJoin"]

AfterInit  == [bn |-> "initGame",  game |-> "initRest",  rest |-> "run"]
AfterSpawn == [bn |-> "spawnGame", game |-> "spawnRest", rest |-> "loop"]
AfterStop  == [bn |-> "joinAll",   game |-> "bnCheck",   rest |-> "gameCheck"]

Booting    == {"initBn", "initGame", "initRest", "run"}
Spawning   == {"spawnBn", "spawnGame", "spawnRest"}
Destroying == {"dServer", "dThreads", "dRest", "dGame", "dBn"}
Exiting    == {"exit", "ending"} \union Destroying

MainPc  == Booting \union Spawning \union {"loop", "catch", "exit"} \union Destroying
TimerPc == {"idle", "sleep"} \union Exiting
ShutPc  == {"idle", "check", "store", "restCheck", "restStop", "restJoin",
            "gameCheck", "gameStop", "gameJoin", "gameStore",
            "bnCheck", "bnStop", "bnJoin", "bnClear", "joinAll"}
OuterPc == {"none", "start", "spawn", "store", "loop", "done"}
InnerPc == {"none", "start", "run", "done"}
Fate    == {"alive", "exited", "terminated"}

TypeOK ==
  /\ pc \in [Exiter -> MainPc \union TimerPc]
  /\ pc["main"] \in MainPc /\ pc["timer"] \in TimerPc
  /\ sp \in [Frame -> ShutPc]
  /\ stack \in Seq(Signals)
  /\ delivered \subseteq Signals
  /\ running \in BOOLEAN
  /\ slot \in [Comp -> BOOLEAN]
  /\ ready \subseteq Comp
  /\ outer \in [Comp -> OuterPc]
  /\ inner \in [Comp -> InnerPc]
  /\ handle \in [Comp -> BOOLEAN]
  /\ up \in [Comp -> BOOLEAN]
  /\ halt \in [Comp -> BOOLEAN]
  /\ connected \in BOOLEAN
  /\ fate \in Fate

(* main() after the objects are constructed and g_server is set.  A signal *)
(* before that finds g_server empty and is dropped, as one during init is. *)
Init ==
  /\ pc = [e \in Exiter |-> IF e = "main" THEN "initBn" ELSE "idle"]
  /\ sp = [f \in Frame |-> "idle"]
  /\ stack = <<>> /\ delivered = {}
  /\ running = FALSE
  /\ slot = [c \in Comp |-> FALSE]
  /\ ready = {}
  /\ outer = [c \in Comp |-> "none"]
  /\ inner = [c \in Comp |-> "none"]
  /\ handle = [c \in Comp |-> FALSE]
  /\ up = [c \in Comp |-> FALSE]
  /\ halt = [c \in Comp |-> FALSE]
  /\ connected = FALSE
  /\ fate = "alive"

-----------------------------------------------------------------------------
(* Who may take a step.                                                    *)

(* The main thread is executing main() itself: no handler is on top of it  *)
(* and it is not inside a shutdown() that it called.                       *)
MainFree == stack = <<>> /\ sp["main"] = "idle"

Free(e) == IF e = "main" THEN MainFree ELSE sp["timer"] = "idle"

(* Frame f is the one its thread is executing.                             *)
Active(f) ==
  IF f \in Signals THEN stack # <<>> /\ Head(stack) = f
                   ELSE f = "main" => stack = <<>>

Goto(e, from, to) == pc[e] = from /\ pc' = [pc EXCEPT ![e] = to]

(* Every component has passed its start-up and main() is in mainLoop().    *)
AllStarted ==
  /\ pc["main"] = "loop"
  /\ \A c \in Comp : outer[c] \in {"loop", "done"}

-----------------------------------------------------------------------------
(* main() and Server::run()                                                *)

(* Server::init(), one component; a failure ends init(), and main() goes   *)
(* on to run() all the same.                                               *)
InitComponent(c) ==
  /\ MainFree
  /\ \/ /\ Goto("main", InitPc[c], AfterInit[c])
        /\ ready' = ready \union {c}
        /\ up' = [up EXCEPT ![c] = (c = "game")]
     \/ /\ InitCanFail /\ c # "game"
        /\ Goto("main", InitPc[c], "run")
        /\ UNCHANGED <<ready, up>>
  /\ UNCHANGED <<sp, stack, delivered, running, fate>>
  /\ UNCHANGED <<slot, outer, inner, handle, halt, connected>>

(* The check of m_running finds FALSE: nothing sets it before this step.   *)
ServerRun ==
  /\ MainFree
  /\ ~running
  /\ Goto("main", "run", "spawnBn")
  /\ running' = TRUE
  /\ UNCHANGED <<sp, stack, delivered, fate, compVars>>

(* m_serverThreads.emplace_back: the thread starts, or its creation throws *)
(* and the handler of run() calls shutdown().                              *)
SpawnServerThread(c) ==
  /\ MainFree
  /\ \/ /\ Goto("main", SpawnPc[c], AfterSpawn[c])
        /\ slot' = [slot EXCEPT ![c] = TRUE]
        /\ outer' = [outer EXCEPT ![c] = "start"]
        /\ UNCHANGED sp
     \/ /\ SpawnCanFail
        /\ Goto("main", SpawnPc[c], "catch")
        /\ sp' = [sp EXCEPT !["main"] = "check"]
        /\ UNCHANGED <<slot, outer>>
  /\ UNCHANGED <<stack, delivered, running, fate>>
  /\ UNCHANGED <<ready, inner, handle, up, halt, connected>>

(* run() returns when mainLoop() sees m_running false or the handler of    *)
(* run() is done, and main() returns.  Its references to the components    *)
(* are the last ones if the timer thread has destroyed g_server already.   *)
ServerRunReturns ==
  /\ MainFree
  /\ \E from \in {"loop", "catch"} :
       /\ from = "loop" => ~running
       /\ Goto("main", from, IF pc["timer"] = "ending" THEN "dRest" ELSE "exit")
  /\ UNCHANGED <<sp, stack, delivered, running, fate, compVars>>

-----------------------------------------------------------------------------
(* signalHandler() and Server::shutdown()                                  *)

Deliver(s) ==
  /\ s \notin delivered
  /\ Settled => AllStarted \/ delivered # {}
  /\ delivered' = delivered \union {s}
  /\ stack' = <<s>> \o stack
  /\ sp' = [sp EXCEPT ![s] = "check"]
  /\ UNCHANGED <<pc, running, fate, compVars>>

(* Frame f goes on at p; a handler that is done leaves the stack.          *)
Step(f, from, to) ==
  /\ Active(f)
  /\ sp[f] = from
  /\ sp' = [sp EXCEPT ![f] = to]
  /\ stack' = IF to = "idle" /\ f \in Signals THEN Tail(stack) ELSE stack
  /\ UNCHANGED <<pc, delivered, fate>>

ShutdownCheck(f) ==
  /\ Step(f, "check", IF running THEN "store" ELSE "idle")
  /\ UNCHANGED <<running, compVars>>

(* Deviant of ShutdownStore: the REST server is forgotten.                 *)
ShutdownStoreSkipsRest(f) ==
  /\ Step(f, "store", "gameCheck")
  /\ running' = FALSE
  /\ UNCHANGED compVars

ShutdownStore(f) ==
  /\ Step(f, "store", "restCheck")
  /\ running' = FALSE
  /\ UNCHANGED compVars

(* Where f goes when component c is down: to the next component, or back   *)
(* to the destructor of c that called its shutdown().                      *)
AfterComponent(f, c) ==
  IF f \in Exiter /\ pc[f] = DestroyPc[c] THEN "idle" ELSE AfterStop[c]

(* The early return of the component's shutdown(): not up, and for the     *)
(* game server not signalled either.                                       *)
ComponentCheck(f, c) ==
  /\ Step(f, CheckSp[c],
          IF up[c] \/ (c = "game" /\ halt[c]) THEN StopSp[c] ELSE AfterComponent(f, c))
  /\ UNCHANGED <<running, compVars>>

(* Deviants of ComponentStop: the Battle.net flag stays up; the game       *)
(* server's flag is lowered before the join; nobody is told to stop.       *)
ComponentStopKeepsFlag(f, c) ==
  /\ Step(f, StopSp[c], JoinSp[c])
  /\ halt' = [halt EXCEPT ![c] = TRUE]
  /\ UNCHANGED <<running, slot, ready, outer, inner, handle, up, connected>>

ComponentStopLowersFlag(f, c) ==
  /\ Step(f, StopSp[c], JoinSp[c])
  /\ halt' = [halt EXCEPT ![c] = TRUE]
  /\ up' = [up EXCEPT ![c] = FALSE]
  /\ UNCHANGED <<running, slot, ready, outer, inner, handle, connected>>

ComponentStopSilent(f, c) ==
  /\ Step(f, StopSp[c], JoinSp[c])
  /\ up' = [up EXCEPT ![c] = (c = "game") /\ @]
  /\ UNCHANGED <<running, slot, ready, outer, inner, handle, halt, connected>>

(* m_running = false and io_context.stop(); the game server only signals,  *)
(* its flag stays until the thread has been joined.                        *)
ComponentStop(f, c) ==
  /\ Step(f, StopSp[c], JoinSp[c])
  /\ halt' = [halt EXCEPT ![c] = TRUE]
  /\ up' = [up EXCEPT ![c] = (c = "game") /\ @]
  /\ UNCHANGED <<running, slot, ready, outer, inner, handle, connected>>

AfterJoin(f, c) ==
  CASE c = "game" -> "gameStore"
    [] c = "bn"   -> "bnClear"
    [] OTHER      -> AfterComponent(f, c)

(* Deviants of ComponentJoin: no join at all, and detach() in its place.   *)
ComponentJoinSkipped(f, c) ==
  /\ Step(f, JoinSp[c], AfterJoin(f, c))
  /\ UNCHANGED <<running, compVars>>

ComponentJoinDetached(f, c) ==
  /\ Step(f, JoinSp[c], AfterJoin(f, c))
  /\ handle' = [handle EXCEPT ![c] = FALSE]
  /\ UNCHANGED <<running, slot, ready, outer, inner, up, halt, connected>>

(* join() returns once the thread has ended; a handle that is not joinable *)
(* is skipped.                                                             *)
ComponentJoin(f, c) ==
  /\ handle[c] => inner[c] = "done"
  /\ Step(f, JoinSp[c], AfterJoin(f, c))
  /\ handle' = [handle EXCEPT ![c] = FALSE]
  /\ UNCHANGED <<running, slot, ready, outer, inner, up, halt, connected>>

GameStore(f) ==
  /\ Step(f, "gameStore", AfterComponent(f, "game"))
  /\ up' = [up EXCEPT !["game"] = FALSE]
  /\ UNCHANGED <<running, slot, ready, outer, inner, handle, halt, connected>>

ClearClients(f) ==
  /\ Step(f, "bnClear", AfterComponent(f, "bn"))
  /\ connected' = FALSE
  /\ UNCHANGED <<running, slot, ready, outer, inner, handle, up, halt>>

(* Server::shutdown joins every entry of m_serverThreads and clears it.    *)
JoinServerThreads(f) ==
  /\ \A c \in Comp : slot[c] => outer[c] = "done"
  /\ Step(f, "joinAll", "idle")
  /\ slot' = [c \in Comp |-> FALSE]
  /\ UNCHANGED <<running, ready, outer, inner, handle, up, halt, connected>>

Shutdown(f) ==
  \/ ShutdownCheck(f)
  \/ ShutdownStore(f)
  \/ \E c \in Comp : ComponentCheck(f, c) \/ ComponentStop(f, c) \/ ComponentJoin(f, c)
  \/ GameStore(f)
  \/ ClearClients(f)
  \/ JoinServerThreads(f)

-----------------------------------------------------------------------------
(* The threads of the components                                           *)

(* run(): the network servers raise their flag and start accepting, the    *)
(* game server refuses to run when init() or a shutdown left the flag low. *)
OuterStart(c) ==
  /\ outer[c] = "start"
  /\ \/ c \in NetComp /\ up' = [up EXCEPT ![c] = TRUE]
                      /\ outer' = [outer EXCEPT ![c] = "spawn"]
     \/ c = "game" /\ outer' = [outer EXCEPT ![c] = IF up[c] THEN "spawn" ELSE "done"]
                   /\ UNCHANGED up
  /\ UNCHANGED <<pc, sp, stack, delivered, running, fate>>
  /\ UNCHANGED <<slot, ready, inner, handle, halt, connected>>

(* std::thread(...) starts the thread before the handle is assigned; when  *)
(* it throws, the thread that executes run() logs the exception and ends.  *)
OuterSpawn(c) ==
  /\ outer[c] = "spawn"
  /\ \/ outer' = [outer EXCEPT ![c] = "store"] /\ inner' = [inner EXCEPT ![c] = "start"]
     \/ SpawnCanFail /\ outer' = [outer EXCEPT ![c] = "done"] /\ UNCHANGED inner
  /\ UNCHANGED <<pc, sp, stack, delivered, running, fate>>
  /\ UNCHANGED <<slot, ready, handle, up, halt, connected>>

(* Deviant of OuterStore: the thread is detached.                          *)
OuterStoreDetached(c) ==
  /\ outer[c] = "store"
  /\ outer' = [outer EXCEPT ![c] = IF c = "bn" THEN "loop" ELSE "done"]
  /\ UNCHANGED <<pc, sp, stack, delivered, running, fate>>
  /\ UNCHANGED <<slot, ready, inner, handle, up, halt, connected>>

OuterStore(c) ==
  /\ outer[c] = "store"
  /\ handle' = [handle EXCEPT ![c] = TRUE]
  /\ outer' = [outer EXCEPT ![c] = IF c = "bn" THEN "loop" ELSE "done"]
  /\ UNCHANGED <<pc, sp, stack, delivered, running, fate>>
  /\ UNCHANGED <<slot, ready, inner, up, halt, connected>>

(* The command loop of BattleNetServer::run: it removes the clients that   *)
(* have disconnected, and ends when m_running is low.                      *)
BattleNetLoop ==
  /\ outer["bn"] = "loop"
  /\ \/ up["bn"] /\ connected /\ connected' = FALSE /\ UNCHANGED outer
     \/ ~up["bn"] /\ outer' = [outer EXCEPT !["bn"] = "done"] /\ UNCHANGED connected
  /\ UNCHANGED <<pc, sp, stack, delivered, running, fate>>
  /\ UNCHANGED <<slot, ready, inner, handle, up, halt>>

(* io_context::run() returns at once when the context is stopped already,  *)
(* and the game loop tests m_shutdownSignal before its first tick.         *)
InnerStart(c) ==
  /\ inner[c] = "start"
  /\ inner' = [inner EXCEPT ![c] = IF halt[c] THEN "done" ELSE "run"]
  /\ UNCHANGED <<pc, sp, stack, delivered, running, fate>>
  /\ UNCHANGED <<slot, ready, outer, handle, up, halt, connected>>

InnerEnd(c) ==
  /\ inner[c] = "run"
  /\ halt[c] \/ (c = "rest" /\ HandlersThrow)
  /\ inner' = [inner EXCEPT ![c] = "done"]
  /\ UNCHANGED <<pc, sp, stack, delivered, running, fate>>
  /\ UNCHANGED <<slot, ready, outer, handle, up, halt, connected>>

(* An accept handler registers a client; one that is under way when the    *)
(* context is stopped still completes.                                     *)
AcceptClient ==
  /\ inner["bn"] = "run" /\ "bn" \in ready
  /\ ~connected /\ connected' = TRUE
  /\ UNCHANGED <<pc, sp, stack, delivered, running, fate>>
  /\ UNCHANGED <<slot, ready, outer, inner, handle, up, halt>>

(* Deviant of AdminShutdown: it is main() that is made to sleep.           *)
AdminShutdownOnMain ==
  /\ AdminExit
  /\ Settled => AllStarted
  /\ inner["rest"] = "run" /\ "rest" \in ready
  /\ Goto("main", "loop", "sleep")
  /\ UNCHANGED <<sp, stack, delivered, running, fate, compVars>>

(* POST /api/server/shutdown or restart: the handler detaches a thread     *)
(* that sleeps and calls exit(0).  At most one request (bound).            *)
AdminShutdown ==
  /\ AdminExit
  /\ Settled => AllStarted
  /\ inner["rest"] = "run" /\ "rest" \in ready
  /\ Goto("timer", "idle", "sleep")
  /\ UNCHANGED <<sp, stack, delivered, running, fate, compVars>>

TimerFires ==
  /\ Goto("timer", "sleep", "exit")
  /\ UNCHANGED <<sp, stack, delivered, running, fate, compVars>>

-----------------------------------------------------------------------------
(* exit(): static destruction of g_server                                  *)

Other(e) == IF e = "main" THEN "timer" ELSE "main"

(* Both main() and the timer thread have called exit().                    *)
Contended == \A e \in Exiter : pc[e] \in Exiting

(* The C library runs each static destructor once.  A second call of       *)
(* exit() while the first is inside ~Server finds no destructor left and   *)
(* ends the process (with a C library that serialises exit() it waits:     *)
(* the step is not fair).                                                  *)
BeginExit(e) ==
  /\ Free(e) /\ pc[e] = "exit"
  /\ IF pc[Other(e)] \in Destroying
       THEN fate' = "exited" /\ UNCHANGED pc
       ELSE Goto(e, "exit", "dServer") /\ UNCHANGED fate
  /\ UNCHANGED <<sp, stack, delivered, running, compVars>>

(* ~Server: shutdown() if still running.                                   *)
DestroyServer(e) ==
  /\ Free(e) /\ pc[e] = "dServer"
  /\ IF running
       THEN sp' = [sp EXCEPT ![e] = "check"] /\ UNCHANGED pc
       ELSE Goto(e, "dServer", "dThreads") /\ UNCHANGED sp
  /\ UNCHANGED <<stack, delivered, running, fate, compVars>>

(* The components outlive g_server as long as main() has not returned.     *)
MainHolds == pc["main"] \notin Exiting

(* A std::thread that is destroyed joinable calls std::terminate.  The     *)
(* members that main() still refers to are not destroyed.                  *)
DestroyThreads(e) ==
  /\ Free(e) /\ pc[e] = "dThreads"
  /\ IF \E c \in Comp : slot[c]
       THEN fate' = "terminated" /\ UNCHANGED pc
       ELSE Goto(e, "dThreads", IF MainHolds THEN "ending" ELSE "dRest") /\ UNCHANGED fate
  /\ UNCHANGED <<sp, stack, delivered, running, compVars>>

(* ~RestServer, ~GameServer, ~BattleNetServer: shutdown() if the flag is   *)
(* up, then the members; the last one ends the process.                    *)
DestroyComponent(e, c) ==
  /\ Free(e) /\ pc[e] = DestroyPc[c]
  /\ IF up[c] THEN sp' = [sp EXCEPT ![e] = CheckSp[c]] /\ UNCHANGED <<pc, fate>>
     ELSE /\ UNCHANGED sp
          /\ CASE handle[c]                -> fate' = "terminated" /\ UNCHANGED pc
               [] ~handle[c] /\ c = "rest" -> Goto(e, "dRest", "dGame") /\ UNCHANGED fate
               [] ~handle[c] /\ c = "game" -> Goto(e, "dGame", "dBn") /\ UNCHANGED fate
               [] OTHER                    -> fate' = "exited" /\ UNCHANGED pc
  /\ UNCHANGED <<stack, delivered, running, compVars>>

(* exit() is done with the destructors and ends the process.               *)
EndExit(e) ==
  /\ pc[e] = "ending"
  /\ fate' = "exited"
  /\ UNCHANGED <<pc, sp, stack, delivered, running, compVars>>

Exit(e) ==
  \/ BeginExit(e)
  \/ EndExit(e)
  \/ DestroyServer(e)
  \/ DestroyThreads(e)
  \/ \E c \in Comp : DestroyComponent(e, c)

-----------------------------------------------------------------------------
MainStep ==
  \/ \E c \in Comp : InitComponent(c) \/ SpawnServerThread(c)
  \/ ServerRun
  \/ ServerRunReturns

OuterStep(c) ==
  \/ OuterStart(c)
  \/ OuterSpawn(c)
  \/ OuterStore(c)
  \/ c = "bn" /\ BattleNetLoop

InnerStep(c) == InnerStart(c) \/ InnerEnd(c)

(* The process is over: nothing changes any more.                          *)
Over == fate # "alive" /\ UNCHANGED vars

Live ==
  \/ MainStep
  \/ \E s \in Signals : Deliver(s)
  \/ \E f \in Frame : Shutdown(f)
  \/ \E c \in Comp : OuterStep(c) \/ InnerStep(c)
  \/ AcceptClient
  \/ AdminShutdown \/ TimerFires
  \/ \E e \in Exiter : Exit(e)

Next == (fate = "alive" /\ Live) \/ Over

(* Every thread is scheduled; signals, clients, admin requests, failures   *)
(* and the second of two calls of exit() are not owed to anyone.           *)
Fairness ==
  /\ WF_vars(fate = "alive" /\ MainStep)
  /\ \A f \in Frame : WF_vars(fate = "alive" /\ Shutdown(f))
  /\ \A c \in Comp : /\ WF_vars(fate = "alive" /\ (OuterStart(c) \/ OuterSpawn(c) \/ OuterStore(c)))
                     /\ WF_vars(fate = "alive" /\ InnerStart(c))
                     /\ WF_vars(fate = "alive" /\ halt[c] /\ InnerEnd(c))
  /\ WF_vars(fate = "alive" /\ ~up["bn"] /\ BattleNetLoop)
  /\ WF_vars(fate = "alive" /\ TimerFires)
  /\ \A e \in Exiter : WF_vars(fate = "alive" /\ pc[Other(e)] \notin Destroying /\ Exit(e))

Spec == Init /\ [][Next]_vars /\ Fairness
-----------------------------------------------------------------------------
(* Properties                                                              *)

AtWork(c) == outer[c] \notin {"none", "done"} \/ inner[c] \notin {"none", "done"}

(* The process never ends by exit() while a run() that Server started is   *)
(* still executing, unless main() and an admin request both call exit();   *)
(* and when it ends by main()'s return the components' own threads have    *)
(* ended too: whatever signals, failures and interleavings with start-up   *)
(* there were (~Server and the destructors of the components it owns).     *)
CleanExit ==
  fate = "exited" /\ ~Contended =>
    \A c \in Comp : IF pc["timer"] \in Exiting THEN outer[c] \in {"none", "done"}
                                              ELSE ~AtWork(c)

(* No end of the process leaves a component thread at work.                *)
ExitLeavesNothing == fate = "exited" => \A c \in Comp : ~AtWork(c)

(* Server::shutdown waits only for threads that have been told to stop: it *)
(* never joins a Battle.net run() whose flag is up.                        *)
JoinsOnlyStoppedThreads ==
  \A f \in Frame : sp[f] = "joinAll" /\ outer["bn"] = "loop" => ~up["bn"]

(* No std::thread is destroyed while joinable.                             *)
NeverTerminates == fate # "terminated"

(* GameServer lowers m_isRunning only when its game loop has ended.        *)
GameFlagCoversLoop ==
  "game" \in ready /\ ~up["game"] => inner["game"] \in {"none", "done"}

(* When run() returns, the Battle.net server holds no client: none was     *)
(* registered after shutdown() cleared the table.                          *)
NoClientOutlivesRun == pc["main"] \in Exiting => ~connected

(* Once the server is up, a shutdown() that finds it running, whoever      *)
(* calls it and whatever interrupts it, ends the process.                  *)
StartedServerStops ==
  (AllStarted /\ running /\ \E f \in Frame : sp[f] = "store") ~> (fate # "alive")

(* The abstract life of the service, implemented when the server is left   *)
(* alone until it is up.                                                   *)
Service == INSTANCE ServiceLifecycle WITH
  phase <- CASE fate = "exited" -> "stopped"
             [] fate # "exited" /\ ~running /\ pc["main"] \notin Booting -> "stopping"
             [] OTHER -> "up",
  live  <- {c \in Comp : handle[c] \/ outer[c] \notin {"none", "done"}}

ServiceSpec == Service!Spec
=============================================================================
