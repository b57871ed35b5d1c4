----------------------- MODULE ServerLifecycle_proofs -----------------------
(***************************************************************************)
(* Type correctness and CleanExit for every set of signals and every       *)
(* setting of the environment switches.                                    *)
(***************************************************************************)
EXTENDS ServerLifecycle, TLAPS

(* A thread executing run() is in m_serverThreads.                         *)
OuterOwned == \A c \in Comp : outer[c] \notin {"none", "done"} => slot[c]

(* A thread that run() started is in its handle, or about to be.           *)
InnerOwned ==
  \A c \in Comp : inner[c] \notin {"none", "done"} => handle[c] \/ outer[c] = "store"

(* main() starts the threads in a fixed order, each once.  The REST server *)
(* is the last, so a request it takes finds all of them started.           *)
SpawnOrder ==
  /\ pc["main"] \in Booting \union {"spawnBn"} => outer["bn"] = "none"
  /\ pc["main"] \in Booting \union {"spawnBn", "spawnGame"} => outer["game"] = "none"
  /\ outer["rest"] = "none" => inner["rest"] = "none"
  /\ outer["rest"] # "none" => pc["main"] \notin Booting \union Spawning
  /\ pc["timer"] # "idle" => pc["main"] \notin Booting \union Spawning

(* What a destructor has already found not joinable stays so.              *)
DestroyedClean ==
  \A e \in Exiter :
    /\ pc[e] \in {"ending", "dRest", "dGame", "dBn"} => \A c \in Comp : ~slot[c]
    /\ pc[e] \in {"dGame", "dBn"} => ~handle["rest"]
    /\ pc[e] = "dBn" => ~handle["game"]

IInv ==
  /\ TypeOK
  /\ OuterOwned
  /\ InnerOwned
  /\ SpawnOrder
  /\ DestroyedClean
  /\ CleanExit
-----------------------------------------------------------------------------
(* Sequences of handlers.                                                  *)

LEMMA PushHandler ==
  ASSUME stack \in Seq(Signals), NEW s \in Signals
  PROVE  <<s>> \o stack \in Seq(Signals)
OBVIOUS

LEMMA PopHandler ==
  ASSUME stack \in Seq(Signals), stack # <<>>
  PROVE  Tail(stack) \in Seq(Signals)
OBVIOUS

-----------------------------------------------------------------------------
(* Type correctness: the variables keep to the values the code can give    *)
(* them, through nested handlers included.                                 *)

LEMMA InitType == Init => TypeOK
<1> SUFFICES ASSUME Init PROVE TypeOK
  OBVIOUS
<1>1. /\ pc \in [Exiter -> MainPc \union TimerPc]
      /\ pc["main"] \in MainPc /\ pc["timer"] \in TimerPc
  BY DEF Init, Exiter, MainPc, TimerPc, Booting
<1>2. sp \in [Frame -> ShutPc] /\ fate \in Fate /\ stack \in Seq(Signals)
  BY DEF Init, ShutPc, Fate
<1>3. outer \in [Comp -> OuterPc] /\ inner \in [Comp -> InnerPc]
  BY DEF Init, OuterPc, InnerPc
<1>4. QED
  BY <1>1, <1>2, <1>3 DEF Init, TypeOK

LEMMA StepType ==
  ASSUME TypeOK, NEW f \in Frame, NEW from, NEW to \in ShutPc, Step(f, from, to)
  PROVE  /\ sp' \in [Frame -> ShutPc]
         /\ stack' \in Seq(Signals)
         /\ UNCHANGED <<pc, delivered, fate>>
<1>1. sp' \in [Frame -> ShutPc]
  BY DEF Step, TypeOK
<1>2. stack' \in Seq(Signals)
  BY PopHandler DEF Step, Active, TypeOK
<1>3. QED
  BY <1>1, <1>2 DEF Step

LEMMA MainGotoType ==
  ASSUME TypeOK, NEW from, NEW to \in MainPc, Goto("main", from, to)
  PROVE  /\ pc' \in [Exiter -> MainPc \union TimerPc]
         /\ pc'["main"] \in MainPc
         /\ pc'["timer"] \in TimerPc
BY DEF TypeOK, Goto, Exiter

LEMMA MainPcs ==
  /\ \A c \in Comp : AfterInit[c] \in MainPc /\ AfterSpawn[c] \in MainPc
  /\ {"run", "spawnBn", "catch", "exit", "dRest"} \subseteq MainPc
BY DEF Comp, AfterInit, AfterSpawn, MainPc, Booting, Spawning, Exiting, Destroying

LEMMA MainStepType ==
  ASSUME TypeOK, MainStep
  PROVE  TypeOK'
<1>1. ASSUME NEW c \in Comp, InitComponent(c)
      PROVE  TypeOK'
  <2>1. /\ pc' \in [Exiter -> MainPc \union TimerPc]
        /\ pc'["main"] \in MainPc
        /\ pc'["timer"] \in TimerPc
    BY <1>1, MainGotoType, MainPcs DEF InitComponent
  <2>2. ready' \subseteq Comp /\ up' \in [Comp -> BOOLEAN]
    BY <1>1 DEF InitComponent, TypeOK
  <2>3. QED
    BY <1>1, <2>1, <2>2 DEF InitComponent, TypeOK
<1>2. ASSUME NEW c \in Comp, SpawnServerThread(c)
      PROVE  TypeOK'
  <2>1. /\ pc' \in [Exiter -> MainPc \union TimerPc]
        /\ pc'["main"] \in MainPc
        /\ pc'["timer"] \in TimerPc
    BY <1>2, MainGotoType, MainPcs DEF SpawnServerThread
  <2>2. slot' \in [Comp -> BOOLEAN] /\ outer' \in [Comp -> OuterPc]
    BY <1>2 DEF SpawnServerThread, TypeOK, OuterPc
  <2>3. sp' \in [Frame -> ShutPc]
    BY <1>2 DEF SpawnServerThread, TypeOK, ShutPc
  <2>4. QED
    BY <1>2, <2>1, <2>2, <2>3 DEF SpawnServerThread, TypeOK
<1>3. CASE ServerRun
  <2>1. /\ pc' \in [Exiter -> MainPc \union TimerPc]
        /\ pc'["main"] \in MainPc
        /\ pc'["timer"] \in TimerPc
    BY <1>3, MainGotoType, MainPcs DEF ServerRun
  <2>2. QED
    BY <1>3, <2>1 DEF ServerRun, TypeOK, compVars
<1>4. CASE ServerRunReturns
  <2>1. /\ pc' \in [Exiter -> MainPc \union TimerPc]
        /\ pc'["main"] \in MainPc
        /\ pc'["timer"] \in TimerPc
    BY <1>4, MainGotoType, MainPcs DEF ServerRunReturns
  <2>2. QED
    BY <1>4, <2>1 DEF ServerRunReturns, TypeOK, compVars
<1>5. QED
  BY <1>1, <1>2, <1>3, <1>4 DEF MainStep

LEMMA ShutdownType ==
  ASSUME TypeOK, NEW f \in Frame, Shutdown(f)
  PROVE  TypeOK'
<1> USE DEF TypeOK, compVars
<1>1. CASE ShutdownCheck(f)
  BY <1>1, StepType DEF ShutdownCheck, ShutPc
<1>2. CASE ShutdownStore(f)
  BY <1>2, StepType DEF ShutdownStore, ShutPc
<1>3. ASSUME NEW c \in Comp, ComponentCheck(f, c)
      PROVE  TypeOK'
  BY <1>3, StepType DEF ComponentCheck, ShutPc, Comp, StopSp, AfterComponent, AfterStop
<1>4. ASSUME NEW c \in Comp, ComponentStop(f, c)
      PROVE  TypeOK'
  BY <1>4, StepType DEF ComponentStop, ShutPc, Comp, JoinSp
<1>5. ASSUME NEW c \in Comp, ComponentJoin(f, c)
      PROVE  TypeOK'
  BY <1>5, StepType DEF ComponentJoin, AfterJoin, ShutPc, Comp, AfterComponent, AfterStop
<1>6. CASE GameStore(f)
  BY <1>6, StepType DEF GameStore, ShutPc, Comp, AfterComponent, AfterStop
<1>7. CASE ClearClients(f)
  BY <1>7, StepType DEF ClearClients, ShutPc, Comp, AfterComponent, AfterStop
<1>8. CASE JoinServerThreads(f)
  BY <1>8, StepType DEF JoinServerThreads, ShutPc
<1>9. QED
  BY <1>1, <1>2, <1>3, <1>4, <1>5, <1>6, <1>7, <1>8 DEF Shutdown

LEMMA ThreadType ==
  ASSUME TypeOK,
         \/ \E c \in Comp : OuterStep(c) \/ InnerStep(c)
         \/ AcceptClient
         \/ AdminShutdown
         \/ TimerFires
  PROVE  TypeOK'
<1> USE DEF TypeOK, compVars, OuterPc, InnerPc
<1>1. ASSUME NEW c \in Comp, OuterStart(c)
      PROVE  TypeOK'
  BY <1>1 DEF OuterStart
<1>2. ASSUME NEW c \in Comp, OuterSpawn(c)
      PROVE  TypeOK'
  BY <1>2 DEF OuterSpawn
<1>3. ASSUME NEW c \in Comp, OuterStore(c)
      PROVE  TypeOK'
  BY <1>3 DEF OuterStore
<1>4. CASE BattleNetLoop
  BY <1>4 DEF BattleNetLoop
<1>5. ASSUME NEW c \in Comp, InnerStep(c)
      PROVE  TypeOK'
  BY <1>5 DEF InnerStep, InnerStart, InnerEnd
<1>6. CASE AcceptClient
  BY <1>6 DEF AcceptClient
<1>7. CASE AdminShutdown \/ TimerFires
  BY <1>7 DEF AdminShutdown, TimerFires, Goto, Exiter, TimerPc, Exiting
<1>8. QED
  BY <1>1, <1>2, <1>3, <1>4, <1>5, <1>6, <1>7 DEF OuterStep

LEMMA ExitType ==
  ASSUME TypeOK, NEW e \in Exiter, Exit(e)
  PROVE  TypeOK'
<1> USE DEF TypeOK, compVars, Exiter, Goto, Exiting, Destroying, MainPc, TimerPc, Fate
<1>1. CASE BeginExit(e)
  BY <1>1 DEF BeginExit
<1>2. CASE DestroyServer(e)
  BY <1>2 DEF DestroyServer, ShutPc
<1>3. CASE DestroyThreads(e) \/ EndExit(e)
  BY <1>3 DEF DestroyThreads, EndExit, MainHolds
<1>4. ASSUME NEW c \in Comp, DestroyComponent(e, c)
      PROVE  TypeOK'
  BY <1>4 DEF DestroyComponent, ShutPc, CheckSp, Comp
<1>5. QED
  BY <1>1, <1>2, <1>3, <1>4 DEF Exit

LEMMA NextType == TypeOK /\ [Next]_vars => TypeOK'
<1> SUFFICES ASSUME TypeOK, [Next]_vars
             PROVE  TypeOK'
  OBVIOUS
<1>1. ASSUME NEW s \in Signals, Deliver(s)
      PROVE  TypeOK'
  BY <1>1, PushHandler DEF Deliver, TypeOK, compVars, ShutPc
<1>2. CASE UNCHANGED vars
  BY <1>2 DEF vars, compVars, TypeOK
<1>3. QED
  BY <1>1, <1>2, MainStepType, ShutdownType, ThreadType, ExitType
     DEF Next, Live, Over

THEOREM TypeCorrect == Spec => []TypeOK
BY InitType, NextType, PTL DEF Spec
-----------------------------------------------------------------------------
(* The inductive invariant.                                                *)

(* The parts of the state the invariant speaks about.                      *)
ownVars == <<pc, slot, outer, inner, handle, fate>>

LEMMA OwnUnchanged ==
  ASSUME IInv, UNCHANGED ownVars
  PROVE  OuterOwned' /\ InnerOwned' /\ SpawnOrder' /\ DestroyedClean' /\ CleanExit'
BY DEF IInv, ownVars, OuterOwned, InnerOwned, SpawnOrder, DestroyedClean,
       CleanExit, Contended, AtWork

LEMMA InitIInv == Init => IInv
<1> SUFFICES ASSUME Init PROVE IInv
  OBVIOUS
<1>1. OuterOwned /\ InnerOwned /\ CleanExit
  BY DEF Init, OuterOwned, InnerOwned, CleanExit
<1>2. SpawnOrder /\ DestroyedClean
  BY DEF Init, SpawnOrder, DestroyedClean, Exiter, Comp
<1>3. QED
  BY <1>1, <1>2, InitType DEF IInv

(* While main() is still starting threads no timer thread exists, so no    *)
(* thread is past the destructor of m_serverThreads.                       *)
LEMMA NoDestroyerYet ==
  ASSUME IInv, pc["main"] \in Booting \union Spawning
  PROVE  /\ \A e \in Exiter : pc[e] \notin Destroying
         /\ outer["rest"] = "none"
BY DEF IInv, SpawnOrder, Exiter, Booting, Spawning, Destroying

LEMMA MainIInv ==
  ASSUME IInv, fate = "alive", MainStep
  PROVE  OuterOwned' /\ InnerOwned' /\ SpawnOrder' /\ DestroyedClean' /\ CleanExit'
<1> USE DEF IInv
<1>1. fate' = "alive"
  BY DEF MainStep, InitComponent, SpawnServerThread, ServerRun, ServerRunReturns
<1>2. CleanExit'
  BY <1>1 DEF CleanExit
<1>3. ASSUME NEW c \in Comp, InitComponent(c)
      PROVE  OuterOwned' /\ InnerOwned' /\ SpawnOrder' /\ DestroyedClean'
  <2>1. pc["main"] \in Booting /\ pc'["main"] \in Booting /\ pc'["timer"] = pc["timer"]
    BY <1>3 DEF InitComponent, Goto, TypeOK, Exiter, Comp, InitPc, AfterInit, Booting
  <2>2. OuterOwned' /\ InnerOwned'
    BY <1>3 DEF InitComponent, OuterOwned, InnerOwned
  <2>3. SpawnOrder'
    BY <1>3, <2>1, NoDestroyerYet DEF InitComponent, SpawnOrder
  <2>4. DestroyedClean'
    BY <2>1, <2>3 DEF SpawnOrder, DestroyedClean, Exiter, Booting
  <2>5. QED
    BY <2>2, <2>3, <2>4
<1>4. ASSUME NEW c \in Comp, SpawnServerThread(c)
      PROVE  OuterOwned' /\ InnerOwned' /\ SpawnOrder' /\ DestroyedClean'
  <2>1. /\ pc["main"] \in Spawning
        /\ pc'["main"] \in Spawning \union {"loop", "catch"}
        /\ c = "rest" => pc'["main"] \in {"loop", "catch"}
        /\ pc'["timer"] = pc["timer"]
    BY <1>4 DEF SpawnServerThread, Goto, TypeOK, Exiter, Comp, SpawnPc, AfterSpawn, Spawning
  <2>2. OuterOwned' /\ InnerOwned'
    <3>1. \/ UNCHANGED <<slot, outer>>
          \/ /\ slot' = [slot EXCEPT ![c] = TRUE]
             /\ outer' = [outer EXCEPT ![c] = "start"]
      BY <1>4 DEF SpawnServerThread
    <3>2. UNCHANGED <<inner, handle>>
      BY <1>4 DEF SpawnServerThread
    <3>3. OuterOwned'
      BY <3>1 DEF OuterOwned, TypeOK
    <3>4. outer[c] = "none"
      BY <1>4 DEF SpawnServerThread, Goto, SpawnOrder, Comp, SpawnPc, Booting, Spawning
    <3>5. InnerOwned'
      BY <3>1, <3>2, <3>4 DEF InnerOwned, TypeOK
    <3>6. QED
      BY <3>3, <3>5
  <2>3. pc["timer"] = "idle" /\ outer["rest"] = "none"
    BY <2>1, NoDestroyerYet DEF SpawnOrder
  <2>4. SpawnOrder'
    BY <1>4, <2>1, <2>3
       DEF SpawnServerThread, Goto, AfterSpawn, SpawnPc, SpawnOrder, TypeOK, Booting,
           Spawning, Comp, Exiter
  <2>5. DestroyedClean'
    BY <2>1, <2>3 DEF DestroyedClean, Exiter, Spawning
  <2>6. QED
    BY <2>2, <2>4, <2>5
<1>5. ASSUME ServerRun \/ ServerRunReturns
      PROVE  OuterOwned' /\ InnerOwned' /\ SpawnOrder' /\ DestroyedClean'
  <2>1. /\ pc'["main"] \in {"spawnBn", "exit", "dRest"}
        /\ pc'["main"] = "spawnBn" => pc["main"] = "run"
        /\ pc'["main"] = "dRest" => pc["timer"] = "ending"
        /\ pc'["timer"] = pc["timer"]
        /\ UNCHANGED <<slot, outer, inner, handle>>
    BY <1>5 DEF ServerRun, ServerRunReturns, Goto, TypeOK, Exiter, compVars
  <2>2. OuterOwned' /\ InnerOwned' /\ SpawnOrder'
    BY <2>1 DEF OuterOwned, InnerOwned, SpawnOrder, Booting, Spawning
  <2>3. DestroyedClean'
    BY <2>1 DEF DestroyedClean, Exiter
  <2>4. QED
    BY <2>2, <2>3
<1>6. QED
  BY <1>2, <1>3, <1>4, <1>5 DEF MainStep

LEMMA ShutdownIInv ==
  ASSUME IInv, NEW f \in Frame, Shutdown(f)
  PROVE  OuterOwned' /\ InnerOwned' /\ SpawnOrder' /\ DestroyedClean' /\ CleanExit'
<1>1. ASSUME NEW c \in Comp, ComponentJoin(f, c)
      PROVE  OuterOwned' /\ InnerOwned' /\ SpawnOrder' /\ DestroyedClean' /\ CleanExit'
  <2>1. /\ UNCHANGED <<pc, slot, outer, inner, fate>>
        /\ handle' = [handle EXCEPT ![c] = FALSE]
        /\ handle[c] => inner[c] = "done"
    BY <1>1 DEF ComponentJoin, Step
  <2>2. OuterOwned' /\ SpawnOrder' /\ CleanExit'
    BY <2>1 DEF IInv, OuterOwned, SpawnOrder, CleanExit, Contended, AtWork
  <2>3. InnerOwned' /\ DestroyedClean'
    BY <2>1 DEF IInv, TypeOK, InnerOwned, DestroyedClean, Comp
  <2>4. QED
    BY <2>2, <2>3
<1>2. CASE JoinServerThreads(f)
  <2>1. /\ UNCHANGED <<pc, outer, inner, handle, fate>>
        /\ slot' = [c \in Comp |-> FALSE]
        /\ \A c \in Comp : slot[c] => outer[c] = "done"
    BY <1>2 DEF JoinServerThreads, Step
  <2>2. OuterOwned'
    BY <2>1 DEF IInv, OuterOwned
  <2>3. InnerOwned' /\ SpawnOrder' /\ DestroyedClean' /\ CleanExit'
    BY <2>1 DEF IInv, InnerOwned, SpawnOrder, DestroyedClean, CleanExit, Contended, AtWork
  <2>4. QED
    BY <2>2, <2>3
<1>3. CASE \/ ShutdownCheck(f) \/ ShutdownStore(f) \/ GameStore(f) \/ ClearClients(f)
           \/ \E c \in Comp : ComponentCheck(f, c) \/ ComponentStop(f, c)
  <2>1. UNCHANGED ownVars
    BY <1>3 DEF ShutdownCheck, ShutdownStore, GameStore, ClearClients, ComponentCheck,
                ComponentStop, Step, ownVars, compVars
  <2>2. QED
    BY <2>1, OwnUnchanged
<1>4. QED
  BY <1>1, <1>2, <1>3 DEF Shutdown

LEMMA ThreadIInv ==
  ASSUME IInv, fate = "alive",
         \/ \E c \in Comp : OuterStep(c) \/ InnerStep(c)
         \/ AcceptClient
         \/ AdminShutdown
         \/ TimerFires
  PROVE  OuterOwned' /\ InnerOwned' /\ SpawnOrder' /\ DestroyedClean' /\ CleanExit'
<1> USE DEF IInv
<1>1. ASSUME NEW c \in Comp, OuterStart(c) \/ OuterSpawn(c)
      PROVE  OuterOwned' /\ InnerOwned' /\ SpawnOrder' /\ DestroyedClean' /\ CleanExit'
  <2>1. /\ UNCHANGED <<pc, slot, handle, fate>>
        /\ outer[c] \notin {"none", "done", "store"}
        /\ \/ inner' = inner /\ \E o \in {"spawn", "done"} : outer' = [outer EXCEPT ![c] = o]
           \/ inner' = [inner EXCEPT ![c] = "start"] /\ outer' = [outer EXCEPT ![c] = "store"]
    BY <1>1 DEF OuterStart, OuterSpawn
  <2>2. OuterOwned' /\ DestroyedClean' /\ CleanExit'
    BY <2>1 DEF OuterOwned, DestroyedClean, CleanExit, TypeOK
  <2>3. InnerOwned'
    BY <2>1 DEF InnerOwned, TypeOK
  <2>4. SpawnOrder'
    BY <2>1 DEF SpawnOrder, TypeOK, Comp
  <2>5. QED
    BY <2>2, <2>3, <2>4
<1>2. ASSUME NEW c \in Comp, OuterStore(c)
      PROVE  OuterOwned' /\ InnerOwned' /\ SpawnOrder' /\ DestroyedClean' /\ CleanExit'
  <2>1. /\ UNCHANGED <<pc, slot, inner, fate>>
        /\ outer[c] = "store"
        /\ handle' = [handle EXCEPT ![c] = TRUE]
        /\ \E o \in {"loop", "done"} : outer' = [outer EXCEPT ![c] = o]
    BY <1>2 DEF OuterStore
  <2>2. slot[c]
    BY <2>1 DEF OuterOwned
  <2>3. OuterOwned' /\ CleanExit'
    BY <2>1, <2>2 DEF OuterOwned, CleanExit, TypeOK
  <2>4. InnerOwned'
    BY <2>1 DEF InnerOwned, TypeOK
  <2>5. SpawnOrder'
    BY <2>1 DEF SpawnOrder, TypeOK, Comp
  <2>6. DestroyedClean'
    <3>1. \A e \in Exiter : pc[e] \notin {"ending", "dRest", "dGame", "dBn"}
      BY <2>2 DEF DestroyedClean
    <3>2. QED
      BY <2>1, <3>1 DEF DestroyedClean
  <2>7. QED
    BY <2>3, <2>4, <2>5, <2>6
<1>3. CASE BattleNetLoop
  <2>1. /\ UNCHANGED <<pc, slot, inner, handle, fate>>
        /\ outer["bn"] = "loop"
        /\ outer' = outer \/ outer' = [outer EXCEPT !["bn"] = "done"]
    BY <1>3 DEF BattleNetLoop
  <2>2. OuterOwned' /\ DestroyedClean' /\ CleanExit' /\ InnerOwned'
    BY <2>1 DEF OuterOwned, DestroyedClean, CleanExit, InnerOwned, TypeOK
  <2>3. SpawnOrder'
    BY <2>1 DEF SpawnOrder, TypeOK, Comp
  <2>4. QED
    BY <2>2, <2>3
<1>4. ASSUME NEW c \in Comp, InnerStep(c)
      PROVE  OuterOwned' /\ InnerOwned' /\ SpawnOrder' /\ DestroyedClean' /\ CleanExit'
  <2>1. /\ UNCHANGED <<pc, slot, outer, handle, fate>>
        /\ inner[c] \in {"start", "run"}
        /\ \E i \in {"done", "run"} : inner' = [inner EXCEPT ![c] = i]
    BY <1>4 DEF InnerStep, InnerStart, InnerEnd
  <2>2. OuterOwned' /\ DestroyedClean' /\ CleanExit'
    BY <2>1 DEF OuterOwned, DestroyedClean, CleanExit
  <2>3. InnerOwned'
    BY <2>1 DEF InnerOwned, TypeOK
  <2>4. SpawnOrder'
    BY <2>1 DEF SpawnOrder, TypeOK, Comp
  <2>5. QED
    BY <2>2, <2>3, <2>4
<1>5. CASE AcceptClient
  <2>1. UNCHANGED ownVars
    BY <1>5 DEF AcceptClient, ownVars
  <2>2. QED
    BY <2>1, OwnUnchanged
<1>6. CASE AdminShutdown \/ TimerFires
  <2>1. /\ UNCHANGED <<slot, outer, inner, handle, fate>>
        /\ pc'["main"] = pc["main"]
        /\ pc'["timer"] \in {"sleep", "exit"}
        /\ pc["timer"] # "idle" \/ inner["rest"] = "run"
    BY <1>6 DEF AdminShutdown, TimerFires, Goto, TypeOK, Exiter, compVars
  <2>2. OuterOwned' /\ InnerOwned' /\ CleanExit'
    BY <2>1 DEF OuterOwned, InnerOwned, CleanExit
  <2>3. SpawnOrder'
    BY <2>1 DEF SpawnOrder
  <2>4. DestroyedClean'
    BY <2>1 DEF DestroyedClean, Exiter
  <2>5. QED
    BY <2>2, <2>3, <2>4
<1>7. QED
  BY <1>1, <1>2, <1>3, <1>4, <1>5, <1>6 DEF OuterStep

LEMMA ExitIInv ==
  ASSUME IInv, fate = "alive", NEW e \in Exiter, Exit(e)
  PROVE  OuterOwned' /\ InnerOwned' /\ SpawnOrder' /\ DestroyedClean' /\ CleanExit'
<1> USE DEF IInv
<1>1. UNCHANGED <<slot, outer, inner, handle>> /\ OuterOwned' /\ InnerOwned'
  BY DEF Exit, BeginExit, EndExit, DestroyServer, DestroyThreads, DestroyComponent, compVars,
         OuterOwned, InnerOwned
<1>2. pc[e] \in Exiting
  BY DEF Exit, BeginExit, EndExit, DestroyServer, DestroyThreads, DestroyComponent, Exiting,
         Destroying, DestroyPc, Comp
<1>3. pc' = pc \/ \E p \in Exiting : pc' = [pc EXCEPT ![e] = p]
  BY DEF Exit, BeginExit, EndExit, DestroyServer, DestroyThreads, DestroyComponent, Goto,
         Destroying, Exiting
<1>4. SpawnOrder'
  BY <1>1, <1>2, <1>3 DEF SpawnOrder, TypeOK, Exiter, Exiting, Destroying, Booting, Spawning
<1>5. CASE BeginExit(e) \/ DestroyServer(e)
  <2>1. DestroyedClean'
    BY <1>1, <1>5 DEF BeginExit, DestroyServer, Goto, DestroyedClean, TypeOK
  <2>2. CleanExit'
    BY <1>5 DEF BeginExit, DestroyServer, Other, Contended, CleanExit, Exiting, Exiter
  <2>3. QED
    BY <1>1, <1>4, <2>1, <2>2
<1>6. CASE DestroyThreads(e)
  <2>1. DestroyedClean'
    BY <1>1, <1>6 DEF DestroyThreads, Goto, DestroyedClean, TypeOK
  <2>2. CleanExit'
    BY <1>6 DEF DestroyThreads, CleanExit
  <2>3. QED
    BY <1>1, <1>4, <2>1, <2>2
<1>7. CASE EndExit(e)
  <2>1. \A d \in Comp : outer[d] \in {"none", "done"}
    BY <1>7 DEF EndExit, DestroyedClean, OuterOwned
  <2>2. e = "timer" \/ e = "main"
    BY DEF Exiter
  <2>3. pc' = pc /\ pc["timer"] \in Exiting
    BY <1>7, <2>2 DEF EndExit, TypeOK, MainPc, Booting, Spawning, Destroying, Exiting
  <2>4. DestroyedClean' /\ CleanExit'
    BY <1>1, <2>1, <2>3 DEF DestroyedClean, CleanExit
  <2>5. QED
    BY <1>1, <1>4, <2>4
<1>8. ASSUME NEW c \in Comp, DestroyComponent(e, c)
      PROVE  DestroyedClean' /\ CleanExit'
  <2>1. pc[e] \in {"dRest", "dGame", "dBn"}
    BY <1>8 DEF DestroyComponent, DestroyPc, Comp
  <2>2. \A d \in Comp : outer[d] \in {"none", "done"} /\ ~slot[d]
    BY <2>1 DEF DestroyedClean, OuterOwned
  <2>3. CASE pc' = pc /\ fate' = "exited"
    <3>1. c = "bn" /\ ~handle["bn"] /\ pc[e] = "dBn"
      BY <1>8, <2>3 DEF DestroyComponent, DestroyPc, Comp
    <3>2. \A d \in Comp : ~handle[d]
      BY <3>1 DEF DestroyedClean, Comp
    <3>3. \A d \in Comp : ~AtWork(d)
      BY <2>2, <3>2 DEF InnerOwned, AtWork
    <3>4. QED
      BY <1>1, <2>3, <3>3 DEF CleanExit, AtWork, DestroyedClean
  <2>4. CASE pc' = pc /\ fate' # "exited"
    BY <1>1, <2>4 DEF CleanExit, DestroyedClean
  <2>5. CASE pc' # pc
    <3>1. /\ fate' = "alive"
          /\ ~handle[c]
          /\ \/ c = "rest" /\ pc' = [pc EXCEPT ![e] = "dGame"]
             \/ c = "game" /\ pc[e] = "dGame" /\ pc' = [pc EXCEPT ![e] = "dBn"]
      BY <1>8, <2>5 DEF DestroyComponent, DestroyPc, Comp, Goto
    <3>2. DestroyedClean'
      BY <1>1, <2>2, <3>1 DEF DestroyedClean, TypeOK
    <3>3. QED
      BY <3>1, <3>2 DEF CleanExit
  <2>6. QED
    BY <2>3, <2>4, <2>5
<1>9. QED
  BY <1>1, <1>4, <1>5, <1>6, <1>7, <1>8 DEF Exit

LEMMA NextIInv == IInv /\ [Next]_vars => IInv'
<1> SUFFICES ASSUME IInv, [Next]_vars
             PROVE  IInv'
  OBVIOUS
<1>1. TypeOK'
  BY NextType DEF IInv
<1>2. ASSUME NEW s \in Signals, Deliver(s)
      PROVE  UNCHANGED ownVars
  BY <1>2 DEF Deliver, ownVars, compVars
<1>3. CASE UNCHANGED vars
  <2>1. UNCHANGED ownVars
    BY <1>3 DEF vars, compVars, ownVars
  <2>2. QED
    BY <1>1, <2>1, OwnUnchanged DEF IInv
<1>4. CASE fate = "alive" /\ Live
  BY <1>1, <1>2, <1>4, OwnUnchanged, MainIInv, ShutdownIInv, ThreadIInv, ExitIInv
     DEF Live, IInv
<1>5. QED
  BY <1>3, <1>4 DEF Next, Over

(* No run() that Server started outlives the process's exit(), and no      *)
(* component thread at all one that is main()'s return: for any signals,   *)
(* at any moment, and with failures of init() and of thread creation.      *)
THEOREM ExitIsClean == Spec => []CleanExit
<1>1. IInv => CleanExit
  BY DEF IInv
<1>2. QED
  BY <1>1, InitIInv, NextIInv, PTL DEF Spec
=============================================================================
