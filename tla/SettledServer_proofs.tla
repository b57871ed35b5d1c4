------------------------- MODULE SettledServer_proofs -------------------------
(***************************************************************************)
(* A server that no signal and no admin request reaches before it is up,   *)
(* and whose threads can be created: its shutdown joins only what it has   *)
(* stopped, and the game server's flag covers its loop.  If moreover       *)
(* nobody shuts it down through the admin API, it destroys nothing         *)
(* joinable, leaves no client behind and, unless init() fails, takes only  *)
(* steps of the abstract service.  For any number of signals, each at any  *)
(* point of the handlers of the others.                                    *)
(***************************************************************************)
EXTENDS ServerLifecycle_proofs

LeftAlone == Settled /\ ~SpawnCanFail /\ ~AdminExit

Started == \A c \in Comp : outer[c] \in {"loop", "done"}

(* Where a handler is once it has lowered Server::m_running.               *)
GamePart == {"gameCheck", "gameStop", "gameJoin", "gameStore"}
BnPart   == {"bnCheck", "bnStop", "bnJoin", "bnClear"}
PastRest == GamePart \union BnPart \union {"joinAll"}
Stopping == {"restCheck", "restStop", "restJoin"} \union PastRest

(* Only handlers are ever inside shutdown().                               *)
OnlyHandlers ==
  /\ pc["timer"] = "idle" /\ sp["timer"] = "idle" /\ sp["main"] = "idle"
  /\ pc["main"] # "catch"

(* Nothing happens to a server that is not up yet.                         *)
Undisturbed ==
  ~Started => /\ delivered = {} /\ stack = <<>>
              /\ \A s \in Signals : sp[s] = "idle"
              /\ pc["main"] \notin Exiting
              /\ pc["main"] \in Booting \/ running
              /\ \A c \in NetComp : outer[c] \notin {"none", "start"} => up[c]
              /\ outer["game"] \in {"spawn", "store"} \/ "game" \in ready => up["game"]

Handles ==
  \A c \in Comp : /\ handle[c] => outer[c] \in {"loop", "done"}
                  /\ outer[c] = "loop" => c = "bn"
                  /\ running /\ outer[c] \in {"loop", "done"} =>
                       handle[c] \/ (c = "game" /\ "game" \notin ready)

(* The handlers inside shutdown() are those on the stack.  One that has    *)
(* lowered m_running is interrupted only by ones that find it low.         *)
Nested ==
  /\ \A s \in Signals : sp[s] # "idle" => \E i \in 1 .. Len(stack) : stack[i] = s
  /\ \A i \in 1 .. Len(stack) : stack[i] \in delivered
  /\ \A i, j \in 1 .. Len(stack) : i < j =>
       /\ stack[i] # stack[j]
       /\ sp[stack[j]] \in Stopping => sp[stack[i]] = "check"

(* What a handler has done by the time it is where it is.                  *)
Achieved ==
  \A s \in Signals :
    /\ sp[s] \in Stopping => ~running
    /\ sp[s] \in {"restJoin"} \union PastRest => ~up["rest"]
    /\ sp[s] = "gameStore" => ~handle["game"]
    /\ sp[s] \in BnPart \union {"joinAll"} => ~up["game"]
    /\ sp[s] \in {"bnJoin", "bnClear", "joinAll"} => ~up["bn"]

At(places) == \E s \in Signals : sp[s] \in places

(* A component whose flag is down has been joined, or is being joined.     *)
Joined ==
  /\ Started /\ ~up["rest"] => ~handle["rest"] \/ At({"restJoin"})
  /\ ~up["game"] => ~handle["game"]
  /\ Started /\ ~up["bn"] => \/ ~handle["bn"] /\ (~connected \/ At({"bnClear"}))
                             \/ At({"bnJoin"})
  /\ Started /\ ~handle["bn"] => ~handle["game"] /\ ~handle["rest"]

(* A shutdown that is over has stopped everything.                         *)
Complete ==
  Started /\ ~running => At(Stopping) \/ \A c \in Comp : ~up[c] /\ ~slot[c]

Leaving ==
  pc["main"] \in Exiting => ~running /\ \A s \in Signals : sp[s] \in {"idle", "check"}

SInv ==
  /\ OnlyHandlers /\ Undisturbed /\ Handles /\ Nested
  /\ Achieved /\ Joined /\ Complete /\ Leaving
  /\ NeverTerminates

-----------------------------------------------------------------------------
LEMMA InitSInv == Init => SInv
<1> SUFFICES ASSUME Init PROVE SInv
  OBVIOUS
<1>1. ~Started
  BY DEF Init, Started, Comp
<1>2. OnlyHandlers /\ Undisturbed
  BY DEF Init, OnlyHandlers, Undisturbed, Frame, Exiter, Exiting, Destroying, Booting, Comp,
         NetComp
<1>3. Handles /\ Achieved
  BY DEF Init, Handles, Achieved, Frame, Stopping, PastRest, GamePart, BnPart
<1>4. Nested
  BY DEF Init, Nested, Frame
<1>5. Joined /\ Complete /\ Leaving /\ NeverTerminates
  BY <1>1 DEF Init, Joined, Complete, Leaving, NeverTerminates, Comp, Exiter, Exiting, Destroying
<1> QED BY <1>2, <1>3, <1>4, <1>5 DEF SInv

(* While main() is starting threads the last one does not exist.           *)
LEMMA NotStartedYet ==
  ASSUME IInv, pc["main"] \in Booting \union Spawning
  PROVE  ~Started
BY DEF IInv, SpawnOrder, Started, Comp

(* Steps before the server is up: no handler exists, so nothing is to be   *)
(* shown of any.                                                           *)
LEMMA Quietly ==
  ASSUME SInv, ~Started, UNCHANGED <<sp, stack, delivered, fate>>,
         OnlyHandlers', Undisturbed', Handles',
         Started' => running' /\ up'["bn"] /\ up'["rest"] /\ handle'["bn"],
         ~up'["game"] => ~handle'["game"],
         pc'["main"] \notin Exiting
  PROVE  SInv'
<1> USE DEF SInv, Undisturbed
<1>1. \A s \in Signals : sp'[s] = "idle"
  OBVIOUS
<1>2. Nested' /\ NeverTerminates'
  BY <1>1 DEF Nested, NeverTerminates
<1>3. Achieved'
  BY <1>1 DEF Achieved, Stopping, PastRest, GamePart, BnPart
<1>4. Joined' /\ Complete' /\ Leaving'
  BY DEF Joined, Complete, Leaving
<1> QED BY <1>2, <1>3, <1>4

LEMMA MainSInv ==
  ASSUME LeftAlone, IInv, SInv, MainStep
  PROVE  SInv'
<1> USE DEF SInv
<1>0. pc \in [Exiter -> MainPc \union TimerPc] /\ \A e \in Exiter : e \in {"main", "timer"}
  BY DEF IInv, TypeOK, Exiter
<1>1. ASSUME NEW c \in Comp, InitComponent(c)
      PROVE  SInv'
  <2>1. /\ pc["main"] \in Booting /\ pc'["main"] \in Booting /\ pc'["timer"] = pc["timer"]
        /\ UNCHANGED <<sp, stack, delivered, fate, running, outer, handle>>
        /\ \/ UNCHANGED <<up, ready>>
           \/ ready' = ready \union {c} /\ up' = [up EXCEPT ![c] = (c = "game")]
    BY <1>0, <1>1 DEF InitComponent, Goto, Exiter, Comp, InitPc, AfterInit, Booting
  <2>2. ~Started /\ ~Started'
    BY <2>1, NotStartedYet DEF Started
  <2>3. outer["bn"] = "none" /\ outer["game"] = "none" /\ outer["rest"] = "none"
    BY <2>1, NoDestroyerYet DEF IInv, SpawnOrder
  <2>4. OnlyHandlers' /\ Handles'
    BY <2>1, <2>3 DEF OnlyHandlers, Handles, Booting, Comp
  <2>5. "game" \in ready' => up'["game"]
    BY <2>1, <2>2 DEF Undisturbed, IInv, TypeOK, Comp
  <2>6. pc'["main"] \notin Exiting
    BY <2>1 DEF Booting, Exiting, Destroying
  <2>7. Undisturbed'
    BY <2>1, <2>2, <2>3, <2>5, <2>6 DEF Undisturbed, NetComp
  <2>8. ~handle'["game"]
    BY <2>1, <2>3 DEF Handles, Comp
  <2> QED BY <2>1, <2>2, <2>4, <2>6, <2>7, <2>8, Quietly
<1>2. ASSUME NEW c \in Comp, SpawnServerThread(c)
      PROVE  SInv'
  <2>1. /\ pc["main"] \in Spawning /\ pc'["main"] \in Spawning \union {"loop"}
        /\ pc'["timer"] = pc["timer"]
        /\ UNCHANGED <<sp, stack, delivered, fate, running, ready, handle, up>>
        /\ outer' = [outer EXCEPT ![c] = "start"]
    BY <1>0, <1>2 DEF SpawnServerThread, Goto, Exiter, Comp, SpawnPc, AfterSpawn, Spawning, LeftAlone
  <2>2. ~Started /\ ~Started'
    BY <2>1, NotStartedYet DEF Started, IInv, TypeOK
  <2>3. outer[c] = "none"
    BY <1>2 DEF IInv, SpawnOrder, SpawnServerThread, Goto, Comp, SpawnPc, Booting, Spawning
  <2>4. pc'["main"] \notin Exiting /\ pc'["main"] # "catch"
    BY <2>1 DEF Spawning, Exiting, Destroying
  <2>5. running
    BY <2>1, <2>2 DEF Undisturbed, Booting, Spawning
  <2>6. OnlyHandlers' /\ Handles'
    BY <2>1, <2>3, <2>4 DEF OnlyHandlers, Handles, IInv, TypeOK
  <2>7. Undisturbed'
    BY <2>1, <2>2, <2>4, <2>5 DEF Undisturbed, NetComp, IInv, TypeOK
  <2>8. ~up'["game"] => ~handle'["game"]
    BY <2>1 DEF Joined
  <2> QED BY <2>1, <2>2, <2>4, <2>6, <2>7, <2>8, Quietly
<1>3. CASE ServerRun
  <2>1. /\ pc["main"] \in Booting /\ pc'["main"] = "spawnBn" /\ pc'["timer"] = pc["timer"]
        /\ UNCHANGED <<sp, stack, delivered, fate, outer, ready, handle, up>>
        /\ running'
    BY <1>0, <1>3 DEF ServerRun, Goto, Exiter, Booting, compVars
  <2>2. ~Started /\ ~Started'
    BY <2>1, NotStartedYet DEF Started
  <2>3. outer["bn"] = "none" /\ outer["game"] = "none" /\ outer["rest"] = "none"
    BY <2>1, NoDestroyerYet DEF IInv, SpawnOrder
  <2>4. pc'["main"] \notin Exiting
    BY <2>1 DEF Exiting, Destroying
  <2>5. OnlyHandlers' /\ Handles'
    BY <2>1, <2>3 DEF OnlyHandlers, Handles, Comp
  <2>6. Undisturbed'
    BY <2>1, <2>2, <2>4 DEF Undisturbed
  <2>7. ~up'["game"] => ~handle'["game"]
    BY <2>1 DEF Joined
  <2> QED BY <2>1, <2>2, <2>4, <2>5, <2>6, <2>7, Quietly
<1>4. CASE ServerRunReturns
  <2>1. /\ pc["main"] = "loop" /\ ~running /\ stack = <<>>
        /\ pc'["main"] = "exit" /\ pc'["timer"] = pc["timer"]
        /\ UNCHANGED <<sp, stack, delivered, fate, running, compVars>>
    BY <1>0, <1>4 DEF ServerRunReturns, OnlyHandlers, MainFree, Goto, Exiter
  <2>2. Started
    BY <2>1 DEF Undisturbed, Booting
  <2>3. \A s \in Signals : sp[s] = "idle"
    BY <2>1 DEF Nested
  <2>4. Started' = Started /\ \A places : At(places)' = At(places)
    BY <2>1 DEF Started, At, compVars
  <2>5. OnlyHandlers' /\ Undisturbed' /\ Leaving'
    BY <2>1, <2>2, <2>3, <2>4 DEF OnlyHandlers, Undisturbed, Leaving
  <2>6. Handles' /\ Nested' /\ Achieved' /\ NeverTerminates'
    BY <2>1 DEF Handles, Nested, Achieved, NeverTerminates, compVars
  <2>7. Joined' /\ Complete'
    BY <2>1, <2>4 DEF Joined, Complete, compVars
  <2> QED BY <2>5, <2>6, <2>7
<1> QED BY <1>1, <1>2, <1>3, <1>4 DEF MainStep

(* The steps a component's run() takes until its thread has been started.  *)
LEMMA OuterSInv ==
  ASSUME LeftAlone, IInv, SInv, NEW c \in Comp, OuterStart(c) \/ OuterSpawn(c) \/ OuterStore(c)
  PROVE  SInv'
<1> USE DEF SInv
<1>1. /\ outer[c] \in {"start", "spawn", "store"}
      /\ UNCHANGED <<pc, sp, stack, delivered, running, fate, ready>>
  BY DEF OuterStart, OuterSpawn, OuterStore
<1>2. ~Started
  BY <1>1 DEF Started
<1>3. pc'["main"] \notin Exiting
  BY <1>1, <1>2 DEF Undisturbed
<1>4. outer \in [Comp -> OuterPc] /\ handle \in [Comp -> BOOLEAN] /\ up \in [Comp -> BOOLEAN]
  BY DEF IInv, TypeOK
<1>5. OnlyHandlers'
  BY <1>1 DEF OnlyHandlers
<1>6. ~handle[c]
  BY <1>1 DEF Handles
<1>7. pc["main"] \in Booting => outer["bn"] = "none" /\ outer["game"] = "none" /\ outer["rest"] = "none"
  BY NoDestroyerYet DEF IInv, SpawnOrder
<1>8. running
  BY <1>1, <1>2, <1>7 DEF Undisturbed, Comp
<1>9. CASE OuterStart(c)
  <2>1. /\ UNCHANGED handle
        /\ \/ c \in NetComp /\ up' = [up EXCEPT ![c] = TRUE] /\ outer' = [outer EXCEPT ![c] = "spawn"]
           \/ c = "game" /\ up' = up
              /\ outer' = [outer EXCEPT !["game"] = IF up["game"] THEN "spawn" ELSE "done"]
    BY <1>9 DEF OuterStart
  <2>2. Handles'
    BY <1>1, <1>2, <1>4, <1>6, <2>1 DEF Handles, Undisturbed, Comp
  <2>3. \A d \in NetComp : outer'[d] \notin {"none", "start"} => up'[d]
    BY <1>2, <1>4, <2>1 DEF Undisturbed, NetComp, Comp
  <2>4. outer'["game"] \in {"spawn", "store"} \/ "game" \in ready => up'["game"]
    BY <1>2, <1>4, <2>1 DEF Undisturbed, NetComp, Comp
  <2>5. ~up'["game"] => ~handle'["game"]
    BY <1>4, <2>1 DEF Joined, NetComp, Comp
  <2>6. Started' => up'["bn"] /\ up'["rest"] /\ handle'["bn"]
    BY <1>1, <1>8, <2>2, <2>3 DEF Started, Handles, Comp, NetComp
  <2>7. Undisturbed'
    BY <1>1, <1>2, <1>8, <2>3, <2>4, <1>3 DEF Undisturbed
  <2> QED BY <1>1, <1>2, <1>3, <1>5, <1>8, <2>2, <2>5, <2>6, <2>7, Quietly
<1>10. CASE OuterSpawn(c) \/ OuterStore(c)
  <2>1. /\ UNCHANGED up
        /\ \/ UNCHANGED handle /\ outer[c] = "spawn" /\ outer' = [outer EXCEPT ![c] = "store"]
           \/ /\ handle' = [handle EXCEPT ![c] = TRUE] /\ outer[c] = "store"
              /\ outer' = [outer EXCEPT ![c] = IF c = "bn" THEN "loop" ELSE "done"]
    BY <1>10 DEF OuterSpawn, OuterStore, LeftAlone
  <2>2. Handles'
    BY <1>1, <1>4, <1>6, <2>1 DEF Handles
  <2>3. \A d \in NetComp : outer'[d] \notin {"none", "start"} => up'[d]
    BY <1>2, <1>4, <2>1 DEF Undisturbed, NetComp, Comp
  <2>4. outer'["game"] \in {"spawn", "store"} \/ "game" \in ready => up'["game"]
    BY <1>2, <1>4, <2>1 DEF Undisturbed, NetComp, Comp
  <2>5. ~up'["game"] => ~handle'["game"]
    <3>1. CASE c = "game"
      BY <1>1, <1>2, <1>4, <2>1, <3>1 DEF Undisturbed
    <3>2. CASE c # "game"
      BY <1>4, <2>1, <3>2 DEF Joined, Comp
    <3> QED BY <3>1, <3>2
  <2>6. Started' => up'["bn"] /\ up'["rest"] /\ handle'["bn"]
    BY <1>1, <1>8, <2>2, <2>3 DEF Started, Handles, Comp, NetComp
  <2>7. Undisturbed'
    BY <1>1, <1>2, <1>8, <2>3, <2>4, <1>3 DEF Undisturbed
  <2> QED BY <1>1, <1>2, <1>3, <1>5, <1>8, <2>2, <2>5, <2>6, <2>7, Quietly
<1> QED BY <1>9, <1>10

-----------------------------------------------------------------------------
(* Handlers on the stack.                                                  *)

LEMMA StackFacts ==
  ASSUME IInv, NEW s \in Signals
  PROVE  /\ Len(stack) \in Nat
         /\ \A i \in 1 .. Len(stack) : stack[i] \in Signals
         /\ <<s>> \o stack \in Seq(Signals) /\ Len(<<s>> \o stack) = Len(stack) + 1
         /\ (<<s>> \o stack)[1] = s
         /\ \A i \in 1 .. Len(stack) : (<<s>> \o stack)[i + 1] = stack[i]
         /\ stack # <<>> =>
              /\ Len(stack) > 0 /\ Head(stack) = stack[1]
              /\ Len(Tail(stack)) = Len(stack) - 1
              /\ \A i \in 1 .. Len(stack) - 1 : Tail(stack)[i] = stack[i + 1]
<1>1. stack \in Seq(Signals)
  BY DEF IInv, TypeOK
<1> QED BY <1>1

(* A signal arrives at a server that is up; its handler is the innermost.  *)
LEMMA DeliverSInv ==
  ASSUME LeftAlone, IInv, SInv, NEW s \in Signals, Deliver(s)
  PROVE  SInv'
<1> USE DEF SInv
<1>1. /\ s \notin delivered /\ delivered' = delivered \union {s}
      /\ stack' = <<s>> \o stack /\ sp' = [sp EXCEPT ![s] = "check"]
      /\ UNCHANGED <<pc, running, fate, compVars>>
      /\ AllStarted \/ delivered # {}
  BY DEF Deliver, LeftAlone
<1>2. Started /\ Started'
  BY <1>1 DEF AllStarted, Undisturbed, Started, compVars
<1>3. s \notin Exiter /\ sp \in [Frame -> ShutPc] /\ Signals \subseteq Frame
  BY SignalsAssumption DEF IInv, TypeOK, Exiter, Frame
<1>4. /\ sp'["main"] = sp["main"] /\ sp'["timer"] = sp["timer"]
      /\ sp'[s] = "check"
      /\ \A t \in Signals \ {s} : sp'[t] = sp[t]
  BY <1>1, <1>3 DEF Frame, Exiter
<1>5. sp[s] = "idle"
  BY <1>1 DEF Nested
<1>6. Nested'
  <2> DEFINE new == <<s>> \o stack
             len == Len(stack)
  <2>1. /\ len \in Nat /\ Len(new) = len + 1 /\ new[1] = s
        /\ \A i \in 1 .. len : new[i + 1] = stack[i]
        /\ \A i \in 1 .. len : stack[i] \in Signals
    BY StackFacts
  <2> HIDE DEF new, len
  <2>2. \A i \in 1 .. len + 1 : i = 1 \/ (i - 1 \in 1 .. len /\ new[i] = stack[i - 1])
    <3> SUFFICES ASSUME NEW i \in 1 .. len + 1, i # 1
                 PROVE  i - 1 \in 1 .. len /\ new[i] = stack[i - 1]
      OBVIOUS
    <3>1. i - 1 \in 1 .. len /\ (i - 1) + 1 = i
      BY <2>1
    <3> QED BY <2>1, <3>1
  <2>3. \A i \in 1 .. len : stack[i] \in delivered /\ stack[i] # s
    BY <1>1 DEF Nested, len
  <2>4. ASSUME NEW t \in Signals, sp'[t] # "idle"
        PROVE  \E i \in 1 .. len + 1 : new[i] = t
    <3>1. CASE t = s
      BY <2>1, <3>1
    <3>2. CASE t # s
      <4>1. PICK i \in 1 .. len : stack[i] = t
        BY <1>4, <2>4, <3>2 DEF Nested, len
      <4>2. i + 1 \in 1 .. len + 1 /\ new[i + 1] = t
        BY <2>1, <4>1
      <4> QED BY <4>2
    <3> QED BY <3>1, <3>2
  <2>5. \A i \in 1 .. len + 1 : new[i] \in delivered'
    BY <1>1, <2>1, <2>2, <2>3
  <2>6. ASSUME NEW i \in 1 .. len + 1, NEW j \in 1 .. len + 1, i < j
        PROVE  /\ new[i] # new[j]
               /\ sp'[new[j]] \in Stopping => sp'[new[i]] = "check"
    <3>1. j - 1 \in 1 .. len /\ new[j] = stack[j - 1] /\ new[j] \in Signals \ {s}
      BY <2>1, <2>2, <2>3, <2>6
    <3>2. CASE i = 1
      BY <1>4, <2>1, <2>3, <3>1, <3>2
    <3>3. CASE i # 1
      <4>1. i - 1 \in 1 .. len /\ new[i] = stack[i - 1] /\ new[i] \in Signals \ {s}
        BY <2>1, <2>2, <2>3, <3>3
      <4>2. i - 1 < j - 1
        BY <2>1, <2>6
      <4>3. new[i] # new[j] /\ (sp[new[j]] \in Stopping => sp[new[i]] = "check")
        BY <3>1, <4>1, <4>2 DEF Nested, len
      <4> QED BY <1>4, <3>1, <4>1, <4>3
    <3> QED BY <3>2, <3>3
  <2>7. stack' = new /\ Len(stack') = len + 1
    BY <1>1, <2>1 DEF new
  <2> QED BY <2>4, <2>5, <2>6, <2>7 DEF Nested
<1>7. \A t \in Signals : t # s => sp'[t] = sp[t]
  BY <1>4
<1>8. Achieved'
  BY <1>1, <1>4, <1>7 DEF Achieved, compVars, Stopping, PastRest, GamePart, BnPart
<1>9. ASSUME NEW places, "idle" \notin places, "check" \notin places
      PROVE  At(places)' <=> At(places)
  BY <1>4, <1>5, <1>9 DEF At
<1>10. Joined' /\ Complete'
  <2>1. /\ At({"restJoin"})' <=> At({"restJoin"})
        /\ At({"bnClear"})' <=> At({"bnClear"})
        /\ At({"bnJoin"})' <=> At({"bnJoin"})
        /\ At(Stopping)' <=> At(Stopping)
    BY <1>9 DEF Stopping, PastRest, GamePart, BnPart
  <2> QED BY <1>1, <1>2, <2>1 DEF Joined, Complete, compVars
<1>11. OnlyHandlers' /\ Undisturbed' /\ Handles' /\ Leaving' /\ NeverTerminates'
  BY <1>1, <1>2, <1>4 DEF OnlyHandlers, Undisturbed, Handles, Leaving, NeverTerminates, compVars
<1> QED BY <1>6, <1>8, <1>10, <1>11

(* The handler on top of the stack is the only one past m_running, unless  *)
(* it is about to find it low.                                             *)
LEMMA OnTop ==
  ASSUME IInv, SInv, NEW f \in Signals, Active(f), sp[f] # "check" \/ running
  PROVE  \A t \in Signals \ {f} : sp[t] \notin Stopping
<1> USE DEF SInv
<1>1. stack # <<>> /\ stack[1] = f /\ Len(stack) \in Nat /\ Len(stack) > 0
  BY StackFacts DEF Active
<1>2. SUFFICES ASSUME NEW t \in Signals \ {f}, sp[t] \in Stopping
               PROVE  FALSE
  OBVIOUS
<1>3. PICK j \in 1 .. Len(stack) : stack[j] = t
  BY <1>2 DEF Nested, Stopping, PastRest, GamePart, BnPart
<1>4. 1 \in 1 .. Len(stack) /\ 1 < j
  BY <1>1, <1>3
<1>5. sp[f] = "check"
  BY <1>1, <1>2, <1>3, <1>4 DEF Nested
<1> QED BY <1>2, <1>5 DEF Achieved

LEMMA StepNested ==
  ASSUME IInv, SInv, NEW f \in Signals, NEW from, NEW to, Step(f, from, to),
         from # "idle",
         to # "idle" => \A t \in Signals \ {f} : sp[t] \notin Stopping
  PROVE  Nested'
<1> USE DEF SInv
<1> DEFINE len == Len(stack)
<1>1. /\ stack # <<>> /\ stack[1] = f /\ len \in Nat /\ len > 0
      /\ \A i \in 1 .. len : stack[i] \in Signals
      /\ Len(Tail(stack)) = len - 1
      /\ \A i \in 1 .. len - 1 : Tail(stack)[i] = stack[i + 1]
  BY StackFacts DEF Step, Active
<1>2. /\ sp' = [sp EXCEPT ![f] = to] /\ UNCHANGED delivered
      /\ stack' = IF to = "idle" THEN Tail(stack) ELSE stack
  BY DEF Step
<1>3. sp'[f] = to /\ \A t \in Signals \ {f} : sp'[t] = sp[t]
  BY <1>2 DEF IInv, TypeOK, Frame
<1>4. \A j \in 2 .. len : stack[j] # f
  <2> SUFFICES ASSUME NEW j \in 2 .. len
               PROVE  stack[j] # f
    OBVIOUS
  <2>1. 1 \in 1 .. len /\ j \in 1 .. len /\ 1 < j
    BY <1>1
  <2> QED BY <1>1, <2>1 DEF Nested
<1>5. CASE to # "idle"
  <2>1. \A t \in Signals : sp'[t] # "idle" => \E i \in 1 .. len : stack[i] = t
    BY <1>1, <1>3 DEF Nested
  <2>2. ASSUME NEW i \in 1 .. len, NEW j \in 1 .. len, i < j
        PROVE  stack[i] # stack[j] /\ (sp'[stack[j]] \in Stopping => sp'[stack[i]] = "check")
    <3>1. j \in 2 .. len
      BY <1>1, <2>2
    <3>2. stack[j] \in Signals \ {f}
      BY <1>1, <1>4, <3>1
    <3> QED BY <1>3, <1>5, <2>2, <3>2 DEF Nested
  <2>3. stack' = stack /\ Len(stack') = len /\ UNCHANGED delivered
    BY <1>2, <1>5
  <2>4. \A i \in 1 .. len : stack[i] \in delivered
    BY DEF Nested
  <2> HIDE DEF len
  <2> QED BY <2>1, <2>2, <2>3, <2>4 DEF Nested
<1>6. CASE to = "idle"
  <2> DEFINE rest == Tail(stack)
  <2>1. Len(rest) = len - 1 /\ \A i \in 1 .. len - 1 : rest[i] = stack[i + 1]
    BY <1>1
  <2> HIDE DEF rest, len
  <2>2. ASSUME NEW t \in Signals, sp'[t] # "idle"
        PROVE  \E i \in 1 .. len - 1 : rest[i] = t
    <3>1. t # f /\ sp[t] # "idle"
      BY <1>3, <1>6, <2>2
    <3>2. PICK j \in 1 .. len : stack[j] = t
      BY <3>1 DEF Nested, len
    <3>3. j - 1 \in 1 .. len - 1 /\ (j - 1) + 1 = j
      BY <1>1, <3>1, <3>2
    <3> QED BY <2>1, <3>2, <3>3
  <2>3. ASSUME NEW i \in 1 .. len - 1
        PROVE  /\ i + 1 \in 1 .. len /\ i + 1 \in 2 .. len
               /\ rest[i] = stack[i + 1] /\ rest[i] \in Signals \ {f}
               /\ rest[i] \in delivered
    <3>1. i + 1 \in 1 .. len /\ i + 1 \in 2 .. len
      BY <1>1
    <3> QED BY <1>1, <1>4, <2>1, <3>1 DEF Nested, len
  <2>4. ASSUME NEW i \in 1 .. len - 1, NEW j \in 1 .. len - 1, i < j
        PROVE  rest[i] # rest[j] /\ (sp'[rest[j]] \in Stopping => sp'[rest[i]] = "check")
    <3>1. i + 1 < j + 1 /\ i + 1 \in 1 .. len /\ j + 1 \in 1 .. len
      BY <1>1, <2>3, <2>4
    <3>2. rest[i] # rest[j] /\ (sp[rest[j]] \in Stopping => sp[rest[i]] = "check")
      BY <2>3, <3>1 DEF Nested, len
    <3> QED BY <1>3, <2>3, <3>2
  <2>5. stack' = rest /\ Len(stack') = len - 1 /\ UNCHANGED delivered
    BY <1>2, <1>6, <2>1 DEF rest
  <2>6. \A i \in 1 .. len - 1 : rest[i] \in delivered
    BY <2>3
  <2> QED BY <2>2, <2>4, <2>5, <2>6 DEF Nested
<1> QED BY <1>5, <1>6

(* A frame inside shutdown() is a handler, and the server is up.           *)
LEMMA FrameIsHandler ==
  ASSUME IInv, SInv, NEW f \in Frame, NEW from, NEW to, Step(f, from, to), from # "idle"
  PROVE  /\ f \in Signals /\ f \notin Exiter
         /\ Active(f) /\ sp[f] = from
         /\ sp'[f] = to /\ \A t \in Signals \ {f} : sp'[t] = sp[t]
         /\ UNCHANGED <<pc, delivered, fate>> /\ OnlyHandlers'
         /\ Started
<1> USE DEF SInv
<1>1. sp[f] = from /\ sp' = [sp EXCEPT ![f] = to] /\ UNCHANGED <<pc, delivered, fate>> /\ Active(f)
  BY DEF Step
<1>2. f \in Signals /\ f \notin Exiter
  BY <1>1, SignalsAssumption DEF OnlyHandlers, Frame, Exiter
<1>3. /\ sp'[f] = to /\ \A t \in Signals \ {f} : sp'[t] = sp[t]
      /\ sp'["main"] = sp["main"] /\ sp'["timer"] = sp["timer"]
  BY <1>1, <1>2 DEF IInv, TypeOK, Frame, Exiter
<1>4. Started
  BY <1>1, <1>2 DEF Undisturbed
<1> QED BY <1>1, <1>2, <1>3, <1>4 DEF OnlyHandlers

(* What no step of a handler touches.                                      *)
LEMMA Stepped ==
  ASSUME IInv, SInv, NEW f \in Frame, NEW from, NEW to, Step(f, from, to), from # "idle",
         from = "check" => to = IF running THEN "store" ELSE "idle",
         UNCHANGED <<outer, ready>>, running' => running
  PROVE  /\ Nested' /\ OnlyHandlers' /\ Undisturbed' /\ Leaving' /\ NeverTerminates'
         /\ Started /\ Started'
<1> USE DEF SInv
<1>1. /\ f \in Signals /\ Active(f) /\ sp[f] = from /\ sp'[f] = to
      /\ \A t \in Signals \ {f} : sp'[t] = sp[t]
      /\ UNCHANGED <<pc, delivered, fate>> /\ OnlyHandlers' /\ Started
  BY FrameIsHandler
<1>2. to # "idle" => \A t \in Signals \ {f} : sp[t] \notin Stopping
  BY <1>1, OnTop
<1>3. Nested'
  BY <1>1, <1>2, StepNested
<1>4. Started'
  BY <1>1 DEF Started
<1>5. Leaving'
  BY <1>1 DEF Leaving
<1>6. Undisturbed' /\ NeverTerminates'
  BY <1>1, <1>4 DEF Undisturbed, NeverTerminates
<1> QED BY <1>1, <1>3, <1>4, <1>5, <1>6

(* Past its check a handler is alone in shutdown(): where handlers are is  *)
(* where this one is.                                                      *)
LEMMA Alone ==
  ASSUME IInv, SInv, NEW f \in Frame, NEW from, NEW to, Step(f, from, to),
         from \notin {"idle", "check"}
  PROVE  /\ \A t \in Signals : sp'[t] \in Stopping => t = f
         /\ \A places \in SUBSET Stopping :
              /\ At(places) <=> from \in places
              /\ At(places)' <=> to \in places
<1>1. /\ f \in Signals /\ Active(f) /\ sp[f] = from /\ sp'[f] = to
      /\ \A t \in Signals \ {f} : sp'[t] = sp[t]
  BY FrameIsHandler
<1>2. \A t \in Signals \ {f} : sp[t] \notin Stopping
  BY <1>1, OnTop
<1> QED BY <1>1, <1>2 DEF At

LEMMA CheckSInv ==
  ASSUME IInv, SInv, NEW f \in Frame, ShutdownCheck(f)
  PROVE  SInv'
<1> USE DEF SInv
<1> DEFINE to == IF running THEN "store" ELSE "idle"
<1>1. Step(f, "check", to) /\ UNCHANGED <<running, compVars>>
  BY DEF ShutdownCheck
<1>2. /\ f \in Signals /\ sp[f] = "check" /\ sp'[f] = to
      /\ \A t \in Signals \ {f} : sp'[t] = sp[t]
  BY <1>1, FrameIsHandler
<1>3. /\ Nested' /\ OnlyHandlers' /\ Undisturbed' /\ Leaving' /\ NeverTerminates'
      /\ Started /\ Started'
  BY <1>1, Stepped DEF compVars
<1>4. "check" \notin Stopping /\ "idle" \notin Stopping /\ "store" \notin Stopping
  BY DEF Stopping, PastRest, GamePart, BnPart
<1>5. \A places \in SUBSET Stopping : At(places)' <=> At(places)
  BY <1>2, <1>4 DEF At
<1>6. Achieved'
  <2>1. \A t \in Signals : sp'[t] = sp[t] \/ sp'[t] \in {"store", "idle"}
    BY <1>2
  <2> QED BY <1>1, <2>1 DEF Achieved, compVars, Stopping, PastRest, GamePart, BnPart
<1>7. Joined' /\ Complete'
  <2>1. {"restJoin"} \subseteq Stopping /\ {"bnClear"} \subseteq Stopping /\ {"bnJoin"} \subseteq Stopping
    BY DEF Stopping, PastRest, GamePart, BnPart
  <2> QED BY <1>1, <1>3, <1>5, <2>1 DEF Joined, Complete, compVars
<1>8. Handles'
  BY <1>1 DEF Handles, compVars
<1> QED BY <1>3, <1>6, <1>7, <1>8

(* The handler lowers m_running and goes through the components in order.  *)
LEMMA StoreSInv ==
  ASSUME IInv, SInv, NEW f \in Frame, ShutdownStore(f)
  PROVE  SInv'
<1> USE DEF SInv
<1>1. Step(f, "store", "restCheck") /\ ~running' /\ UNCHANGED compVars
  BY DEF ShutdownStore
<1>2. sp'[f] = "restCheck"
  BY <1>1, FrameIsHandler
<1>3. /\ Nested' /\ OnlyHandlers' /\ Undisturbed' /\ Leaving' /\ NeverTerminates'
      /\ Started /\ Started'
  BY <1>1, Stepped DEF compVars
<1>4. /\ \A t \in Signals : sp'[t] \in Stopping => t = f
      /\ \A places \in SUBSET Stopping :
           (At(places) <=> "store" \in places) /\ (At(places)' <=> "restCheck" \in places)
  BY <1>1, Alone
<1> USE DEF Stopping, PastRest, GamePart, BnPart
<1>5. Achieved'
  BY <1>1, <1>2, <1>4 DEF Achieved
<1>6. /\ ~At({"restJoin"}) /\ ~At({"bnClear"}) /\ ~At({"bnJoin"})
      /\ At(Stopping)'
  BY <1>4
<1>7. Joined' /\ Complete' /\ Handles'
  BY <1>1, <1>3, <1>6 DEF Joined, Complete, Handles, compVars
<1> QED BY <1>3, <1>5, <1>7

LEMMA ComponentCheckSInv ==
  ASSUME IInv, SInv, NEW f \in Frame, NEW c \in Comp, ComponentCheck(f, c)
  PROVE  SInv'
<1> USE DEF SInv
<1> DEFINE to == IF up[c] \/ (c = "game" /\ halt[c]) THEN StopSp[c] ELSE AfterStop[c]
<1>1. CheckSp[c] \notin {"idle", "check"}
  BY DEF CheckSp, Comp
<1>2. f \notin Exiter
  BY <1>1, FrameIsHandler DEF ComponentCheck
<1>3. Step(f, CheckSp[c], to) /\ UNCHANGED <<running, compVars>>
  BY <1>2 DEF ComponentCheck, AfterComponent
<1> HIDE DEF to
<1>4. sp[f] = CheckSp[c] /\ sp'[f] = to /\ f \in Signals
  BY <1>1, <1>3, FrameIsHandler
<1>5. /\ Nested' /\ OnlyHandlers' /\ Undisturbed' /\ Leaving' /\ NeverTerminates'
      /\ Started /\ Started'
  BY <1>1, <1>3, Stepped DEF compVars
<1>6. /\ \A t \in Signals : sp'[t] \in Stopping => t = f
      /\ \A places \in SUBSET Stopping :
           (At(places) <=> CheckSp[c] \in places) /\ (At(places)' <=> to \in places)
  BY <1>1, <1>3, Alone
<1> USE DEF Stopping, PastRest, GamePart, BnPart
<1>7. \/ to \in {"restStop", "gameStop", "bnStop"} /\ to = StopSp[c]
      \/ ~up[c] /\ to = AfterStop[c] /\ to \in {"gameCheck", "bnCheck", "joinAll"}
  BY DEF to, StopSp, AfterStop, Comp
<1>8. Achieved'
  BY <1>3, <1>4, <1>6, <1>7 DEF Achieved, compVars, Comp, CheckSp, StopSp, AfterStop
<1>9. /\ ~At({"restJoin"}) /\ ~At({"bnClear"}) /\ ~At({"bnJoin"})
      /\ At(Stopping)'
  BY <1>6, <1>7 DEF Comp, CheckSp
<1>10. Joined' /\ Complete' /\ Handles'
  BY <1>3, <1>5, <1>9 DEF Joined, Complete, Handles, compVars
<1> QED BY <1>5, <1>8, <1>10

LEMMA ComponentStopSInv ==
  ASSUME IInv, SInv, NEW f \in Frame, NEW c \in Comp, ComponentStop(f, c)
  PROVE  SInv'
<1> USE DEF SInv
<1>1. StopSp[c] \notin {"idle", "check"}
  BY DEF StopSp, Comp
<1>2. /\ Step(f, StopSp[c], JoinSp[c])
      /\ up' = [up EXCEPT ![c] = (c = "game") /\ @]
      /\ UNCHANGED <<running, slot, ready, outer, inner, handle, connected>>
  BY DEF ComponentStop
<1>3. sp[f] = StopSp[c] /\ sp'[f] = JoinSp[c] /\ f \in Signals
  BY <1>1, <1>2, FrameIsHandler
<1>4. /\ Nested' /\ OnlyHandlers' /\ Undisturbed' /\ Leaving' /\ NeverTerminates'
      /\ Started /\ Started'
  BY <1>1, <1>2, Stepped
<1>5. /\ \A t \in Signals : sp'[t] \in Stopping => t = f
      /\ \A places \in SUBSET Stopping :
           (At(places) <=> StopSp[c] \in places) /\ (At(places)' <=> JoinSp[c] \in places)
  BY <1>1, <1>2, Alone
<1>6. /\ up'["game"] = up["game"]
      /\ IF c = "rest" THEN ~up'["rest"] ELSE up'["rest"] = up["rest"]
      /\ IF c = "bn" THEN ~up'["bn"] ELSE up'["bn"] = up["bn"]
  BY <1>2 DEF IInv, TypeOK, Comp
<1> USE DEF Stopping, PastRest, GamePart, BnPart
<1>7. Achieved'
  BY <1>2, <1>3, <1>5, <1>6 DEF Achieved, Comp, StopSp, JoinSp
<1>8. /\ ~At({"restJoin"}) /\ ~At({"bnClear"}) /\ ~At({"bnJoin"}) /\ At(Stopping)'
      /\ c = "rest" => At({"restJoin"})'
      /\ c = "bn" => At({"bnJoin"})'
  BY <1>5 DEF Comp, StopSp, JoinSp
<1>9. Joined'
  BY <1>2, <1>4, <1>6, <1>8 DEF Joined
<1>10. Complete' /\ Handles'
  BY <1>2, <1>8 DEF Complete, Handles
<1> QED BY <1>4, <1>7, <1>9, <1>10

LEMMA ComponentJoinSInv ==
  ASSUME IInv, SInv, NEW f \in Frame, NEW c \in Comp, ComponentJoin(f, c)
  PROVE  SInv'
<1> USE DEF SInv
<1> DEFINE to == CASE c = "game" -> "gameStore" [] c = "bn" -> "bnClear" [] OTHER -> "gameCheck"
<1>1. JoinSp[c] \notin {"idle", "check"}
  BY DEF JoinSp, Comp
<1>2. f \notin Exiter
  BY <1>1, FrameIsHandler DEF ComponentJoin
<1>3. /\ Step(f, JoinSp[c], to)
      /\ handle' = [handle EXCEPT ![c] = FALSE]
      /\ UNCHANGED <<running, slot, ready, outer, inner, up, halt, connected>>
  BY <1>2 DEF ComponentJoin, AfterJoin, AfterComponent, AfterStop, Comp
<1>4. \/ to = "gameStore" /\ c = "game"
      \/ to = "bnClear" /\ c = "bn"
      \/ to = "gameCheck" /\ c = "rest"
  BY DEF Comp
<1> HIDE DEF to
<1>5. sp[f] = JoinSp[c] /\ sp'[f] = to /\ f \in Signals
  BY <1>1, <1>3, FrameIsHandler
<1>6. /\ Nested' /\ OnlyHandlers' /\ Undisturbed' /\ Leaving' /\ NeverTerminates'
      /\ Started /\ Started'
  BY <1>1, <1>3, Stepped
<1>7. /\ \A t \in Signals : sp'[t] \in Stopping => t = f
      /\ \A places \in SUBSET Stopping :
           (At(places) <=> JoinSp[c] \in places) /\ (At(places)' <=> to \in places)
  BY <1>1, <1>3, Alone
<1>8. ~handle'[c] /\ \A d \in Comp \ {c} : handle'[d] = handle[d]
  BY <1>3 DEF IInv, TypeOK
<1> USE DEF Stopping, PastRest, GamePart, BnPart
<1>9. ~running
  BY <1>5 DEF Achieved, JoinSp, Comp
<1>10. Achieved'
  BY <1>3, <1>4, <1>5, <1>7, <1>8 DEF Achieved, JoinSp
<1>11. /\ At({"restJoin"}) <=> c = "rest"
       /\ ~At({"bnClear"}) /\ (At({"bnJoin"}) <=> c = "bn")
       /\ At({"bnClear"})' <=> c = "bn"
       /\ At(Stopping)'
  BY <1>4, <1>7 DEF Comp, JoinSp
<1>12. c = "bn" => ~up["game"] /\ ~up["rest"]
  BY <1>5 DEF Achieved, JoinSp
<1>13. Joined'
  BY <1>3, <1>4, <1>6, <1>8, <1>11, <1>12 DEF Joined, Comp
<1>14. Complete' /\ Handles'
  BY <1>3, <1>8, <1>9, <1>11 DEF Complete, Handles
<1> QED BY <1>6, <1>10, <1>13, <1>14

LEMMA GameStoreSInv ==
  ASSUME IInv, SInv, NEW f \in Frame, GameStore(f)
  PROVE  SInv'
<1> USE DEF SInv
<1>1. f \notin Exiter
  BY FrameIsHandler DEF GameStore
<1>2. /\ Step(f, "gameStore", "bnCheck")
      /\ up' = [up EXCEPT !["game"] = FALSE]
      /\ UNCHANGED <<running, slot, ready, outer, inner, handle, halt, connected>>
  BY <1>1 DEF GameStore, AfterComponent, AfterStop
<1>3. sp[f] = "gameStore" /\ sp'[f] = "bnCheck" /\ f \in Signals
  BY <1>2, FrameIsHandler
<1>4. /\ Nested' /\ OnlyHandlers' /\ Undisturbed' /\ Leaving' /\ NeverTerminates'
      /\ Started /\ Started'
  BY <1>2, Stepped
<1>5. /\ \A t \in Signals : sp'[t] \in Stopping => t = f
      /\ \A places \in SUBSET Stopping :
           (At(places) <=> "gameStore" \in places) /\ (At(places)' <=> "bnCheck" \in places)
  BY <1>2, Alone
<1>6. ~up'["game"] /\ up'["rest"] = up["rest"] /\ up'["bn"] = up["bn"]
  BY <1>2 DEF IInv, TypeOK, Comp
<1> USE DEF Stopping, PastRest, GamePart, BnPart
<1>7. Achieved'
  BY <1>2, <1>3, <1>5, <1>6 DEF Achieved
<1>8. ~At({"restJoin"}) /\ ~At({"bnClear"}) /\ ~At({"bnJoin"}) /\ At(Stopping)'
  BY <1>5
<1>9. ~handle["game"]
  BY <1>3 DEF Achieved
<1>10. Joined' /\ Complete' /\ Handles'
  BY <1>2, <1>4, <1>6, <1>8, <1>9 DEF Joined, Complete, Handles
<1> QED BY <1>4, <1>7, <1>10

LEMMA ClearClientsSInv ==
  ASSUME IInv, SInv, NEW f \in Frame, ClearClients(f)
  PROVE  SInv'
<1> USE DEF SInv
<1>1. f \notin Exiter
  BY FrameIsHandler DEF ClearClients
<1>2. /\ Step(f, "bnClear", "joinAll")
      /\ connected' = FALSE
      /\ UNCHANGED <<running, slot, ready, outer, inner, handle, up, halt>>
  BY <1>1 DEF ClearClients, AfterComponent, AfterStop
<1>3. sp[f] = "bnClear" /\ sp'[f] = "joinAll" /\ f \in Signals
  BY <1>2, FrameIsHandler
<1>4. /\ Nested' /\ OnlyHandlers' /\ Undisturbed' /\ Leaving' /\ NeverTerminates'
      /\ Started /\ Started'
  BY <1>2, Stepped
<1>5. /\ \A t \in Signals : sp'[t] \in Stopping => t = f
      /\ \A places \in SUBSET Stopping :
           (At(places) <=> "bnClear" \in places) /\ (At(places)' <=> "joinAll" \in places)
  BY <1>2, Alone
<1> USE DEF Stopping, PastRest, GamePart, BnPart
<1>6. Achieved'
  BY <1>2, <1>3, <1>5 DEF Achieved
<1>7. ~At({"restJoin"}) /\ ~At({"bnJoin"}) /\ At(Stopping)'
  BY <1>5
<1>8. Joined' /\ Complete' /\ Handles'
  BY <1>2, <1>4, <1>7 DEF Joined, Complete, Handles
<1> QED BY <1>4, <1>6, <1>8

(* The joins of Server::shutdown end it: every component is down by then.  *)
LEMMA JoinServerThreadsSInv ==
  ASSUME IInv, SInv, NEW f \in Frame, JoinServerThreads(f)
  PROVE  SInv'
<1> USE DEF SInv
<1>1. /\ Step(f, "joinAll", "idle")
      /\ slot' = [c \in Comp |-> FALSE]
      /\ UNCHANGED <<running, ready, outer, inner, handle, up, halt, connected>>
  BY DEF JoinServerThreads
<1>2. sp[f] = "joinAll" /\ sp'[f] = "idle" /\ f \in Signals
  BY <1>1, FrameIsHandler
<1>3. /\ Nested' /\ OnlyHandlers' /\ Undisturbed' /\ Leaving' /\ NeverTerminates'
      /\ Started /\ Started'
  BY <1>1, Stepped
<1>4. /\ \A t \in Signals : sp'[t] \in Stopping => t = f
      /\ \A places \in SUBSET Stopping :
           (At(places) <=> "joinAll" \in places) /\ (At(places)' <=> "idle" \in places)
  BY <1>1, Alone
<1> USE DEF Stopping, PastRest, GamePart, BnPart
<1>5. Achieved'
  BY <1>2, <1>4 DEF Achieved
<1>6. ~At({"restJoin"}) /\ ~At({"bnClear"}) /\ ~At({"bnJoin"})
  BY <1>4
<1>7. ~up["rest"] /\ ~up["game"] /\ ~up["bn"]
  BY <1>2 DEF Achieved
<1>8. Joined' /\ Complete' /\ Handles'
  BY <1>1, <1>3, <1>6, <1>7 DEF Joined, Complete, Handles, Comp
<1> QED BY <1>3, <1>5, <1>8

LEMMA ShutdownSInv ==
  ASSUME IInv, SInv, NEW f \in Frame, Shutdown(f)
  PROVE  SInv'
BY CheckSInv, StoreSInv, ComponentCheckSInv, ComponentStopSInv, ComponentJoinSInv,
   GameStoreSInv, ClearClientsSInv, JoinServerThreadsSInv DEF Shutdown

-----------------------------------------------------------------------------
(* The components' threads.                                                *)

LEMMA ThreadSInv ==
  ASSUME LeftAlone, IInv, SInv,
         \/ BattleNetLoop
         \/ \E c \in Comp : InnerStep(c)
         \/ AcceptClient
         \/ AdminShutdown \/ TimerFires
  PROVE  SInv'
<1> USE DEF SInv
<1>1. ~AdminShutdown /\ ~TimerFires
  BY DEF LeftAlone, OnlyHandlers, AdminShutdown, TimerFires, Goto
<1>2. /\ UNCHANGED <<pc, sp, stack, delivered, running, fate, slot, ready, handle, up>>
      /\ outer' = outer \/ (outer["bn"] = "loop" /\ outer' = [outer EXCEPT !["bn"] = "done"])
  BY <1>1 DEF BattleNetLoop, InnerStep, InnerStart, InnerEnd, AcceptClient
<1>3. Started' = Started
  BY <1>2 DEF Started, Comp, IInv, TypeOK
<1>4. OnlyHandlers' /\ Nested' /\ Achieved' /\ Leaving' /\ NeverTerminates'
  BY <1>2 DEF OnlyHandlers, Nested, Achieved, Leaving, NeverTerminates
<1>5. \A places : At(places)' = At(places)
  BY <1>2 DEF At
<1>6. Undisturbed' /\ Complete' /\ Handles'
  <2>1. Undisturbed' /\ Complete'
    BY <1>2, <1>3, <1>5 DEF Undisturbed, Complete, IInv, TypeOK, Comp, NetComp
  <2>2. Handles'
    BY <1>2 DEF Handles, IInv, TypeOK, Comp
  <2> QED BY <2>1, <2>2
<1>7. Joined'
  <2>1. CASE connected' => connected
    BY <1>2, <1>3, <1>5, <2>1 DEF Joined
  <2>2. CASE AcceptClient
    <3>1. handle["bn"] \/ outer["bn"] = "store"
      BY <2>2 DEF AcceptClient, IInv, InnerOwned, Comp
    <3>2. Started => handle["bn"]
      BY <3>1 DEF Started, Comp
    <3> QED BY <1>2, <1>3, <1>5, <3>2 DEF Joined
  <2>3. ~AcceptClient => (connected' => connected)
    BY <1>1 DEF BattleNetLoop, InnerStep, InnerStart, InnerEnd
  <2> QED BY <2>1, <2>2, <2>3
<1> QED BY <1>4, <1>6, <1>7

-----------------------------------------------------------------------------
(* The end of the process.                                                 *)

(* When main() has left run() everything is down, joined and cleared.      *)
LEMMA AllDown ==
  ASSUME SInv, pc["main"] \in Exiting
  PROVE  /\ Started /\ ~running /\ ~connected
         /\ \A c \in Comp : ~up[c] /\ ~slot[c] /\ ~handle[c]
<1> USE DEF SInv
<1>1. Started /\ ~running
  BY DEF Undisturbed, Leaving
<1>2. ~At(Stopping) /\ ~At({"restJoin"}) /\ ~At({"bnClear"}) /\ ~At({"bnJoin"})
  BY DEF Leaving, At, Stopping, PastRest, GamePart, BnPart
<1>3. \A c \in Comp : ~up[c] /\ ~slot[c]
  BY <1>1, <1>2 DEF Complete
<1>4. ~connected /\ ~handle["bn"] /\ ~handle["game"] /\ ~handle["rest"]
  BY <1>1, <1>2, <1>3 DEF Joined, Comp
<1> QED BY <1>1, <1>3, <1>4 DEF Comp

LEMMA ExitSInv ==
  ASSUME IInv, SInv, fate = "alive", NEW e \in Exiter, Exit(e)
  PROVE  SInv'
<1> USE DEF SInv
<1>1. pc[e] \in Exiting
  BY DEF Exit, BeginExit, EndExit, DestroyServer, DestroyThreads, DestroyComponent, Exiting,
         Destroying, DestroyPc, Comp
<1>2. e = "main"
  BY <1>1 DEF OnlyHandlers, Exiter, Exiting, Destroying
<1>3. /\ Started /\ ~running
      /\ \A c \in Comp : ~up[c] /\ ~slot[c] /\ ~handle[c]
  BY <1>1, <1>2, AllDown
<1>4. /\ UNCHANGED <<sp, stack, delivered, running, compVars>>
      /\ fate' \in {"alive", "exited"}
  BY <1>3 DEF Exit, BeginExit, EndExit, DestroyServer, DestroyThreads, DestroyComponent, Goto
<1>5. pc' = pc \/ \E p \in Exiting : pc' = [pc EXCEPT ![e] = p]
  BY DEF Exit, BeginExit, EndExit, DestroyServer, DestroyThreads, DestroyComponent, Goto,
         Destroying, Exiting
<1>6. pc'["main"] \in Exiting /\ pc'["timer"] = pc["timer"]
  BY <1>1, <1>2, <1>5 DEF IInv, TypeOK, Exiter
<1>7. Started' /\ \A places : At(places)' = At(places)
  BY <1>3, <1>4 DEF Started, At, compVars
<1>8. OnlyHandlers' /\ Undisturbed' /\ NeverTerminates' /\ Leaving'
  BY <1>1, <1>2, <1>4, <1>6, <1>7
     DEF OnlyHandlers, Undisturbed, NeverTerminates, Leaving, Exiting, Destroying
<1>9. Handles' /\ Nested' /\ Achieved'
  BY <1>4 DEF Handles, Nested, Achieved, compVars
<1>10. Joined' /\ Complete'
  BY <1>3, <1>4, <1>7 DEF Joined, Complete, compVars
<1> QED BY <1>8, <1>9, <1>10

-----------------------------------------------------------------------------
LEMMA NextSInv ==
  ASSUME LeftAlone, IInv, SInv, [Next]_vars
  PROVE  SInv'
<1>1. CASE UNCHANGED vars
  <2>1. Started' = Started /\ \A places : At(places)' = At(places)
    BY <1>1 DEF vars, compVars, Started, At
  <2> USE <1>1 DEF vars, compVars, SInv
  <2>2. OnlyHandlers' /\ Handles' /\ Nested' /\ Achieved' /\ Leaving' /\ NeverTerminates'
    BY DEF OnlyHandlers, Handles, Nested, Achieved, Leaving, NeverTerminates
  <2>3. Undisturbed' /\ Joined' /\ Complete'
    BY <2>1 DEF Undisturbed, Joined, Complete
  <2> QED BY <2>2, <2>3
<1>2. CASE fate = "alive" /\ Live
  BY <1>2, MainSInv, DeliverSInv, ShutdownSInv, OuterSInv, ThreadSInv, ExitSInv
     DEF Live, OuterStep
<1> QED BY <1>1, <1>2 DEF Next, Over

LEMMA Settles == LeftAlone => (Spec => [](IInv /\ SInv))
<1> SUFFICES ASSUME LeftAlone PROVE Spec => [](IInv /\ SInv)
  OBVIOUS
<1>1. Init => IInv /\ SInv
  BY InitIInv, InitSInv
<1>2. IInv /\ SInv /\ [Next]_vars => (IInv /\ SInv)'
  BY NextIInv, NextSInv
<1> QED BY <1>1, <1>2, PTL DEF Spec

(* The destructors that main()'s return runs meet no joinable std::thread. *)
THEOREM NoTerminate == LeftAlone => (Spec => []NeverTerminates)
<1> SUFFICES ASSUME LeftAlone PROVE Spec => []NeverTerminates
  OBVIOUS
<1>1. IInv /\ SInv => NeverTerminates
  BY DEF SInv
<1> QED BY <1>1, Settles, PTL

(* The table of clients is cleared after the IO thread has been joined, so *)
(* none is registered behind the clear.                                    *)
THEOREM ClientsEndWithRun == LeftAlone => (Spec => []NoClientOutlivesRun)
<1> SUFFICES ASSUME LeftAlone PROVE Spec => []NoClientOutlivesRun
  OBVIOUS
<1>1. IInv /\ SInv => NoClientOutlivesRun
  BY AllDown DEF NoClientOutlivesRun
<1> QED BY <1>1, Settles, PTL

-----------------------------------------------------------------------------
(* Whoever shuts the server down once it is up, the timer thread of the    *)
(* admin API included: two threads may then be inside shutdown() at once,  *)
(* and what holds is what each component's own shutdown() ensures.         *)
StartsInPeace == Settled /\ ~SpawnCanFail

(* Nobody is in shutdown(), and nothing has ended, before the last run().  *)
AtPeace ==
  ~Started => /\ delivered = {} /\ pc["timer"] = "idle"
              /\ pc["main"] \notin Exiting \union {"catch"}
              /\ pc["main"] \in Booting \/ running
              /\ \A f \in Frame : sp[f] = "idle"

BnTold == \A f \in Frame : sp[f] \in {"bnJoin", "bnClear", "joinAll"} => ~up["bn"]

GameJoined ==
  /\ \A f \in Frame : sp[f] = "gameStore" => ~handle["game"]
  /\ "game" \in ready /\ ~up["game"] => Started /\ ~handle["game"]

PInv == AtPeace /\ BnTold /\ GameJoined

LEMMA InitPInv == Init => PInv
<1> SUFFICES ASSUME Init PROVE PInv
  OBVIOUS
<1>1. AtPeace
  BY DEF Init, AtPeace, Frame, Exiter, Exiting, Destroying, Booting
<1> QED BY <1>1 DEF Init, PInv, BnTold, GameJoined, Frame

(* Steps of other threads, which are in no shutdown() and move no flag.    *)
LEMMA PeaceKept ==
  ASSUME PInv, Started' = Started, UNCHANGED <<sp, delivered, running, ready, handle, up>>,
         Started \/ UNCHANGED pc
  PROVE  PInv'
BY DEF PInv, AtPeace, BnTold, GameJoined

LEMMA MainPInv ==
  ASSUME StartsInPeace, IInv, PInv, MainStep
  PROVE  PInv'
<1> USE DEF PInv
<1>0. pc \in [Exiter -> MainPc \union TimerPc] /\ Exiter = {"main", "timer"}
  BY DEF IInv, TypeOK, Exiter
<1>1. ASSUME NEW c \in Comp, InitComponent(c)
      PROVE  PInv'
  <2>1. /\ pc["main"] \in Booting /\ pc'["main"] \in Booting /\ pc'["timer"] = pc["timer"]
        /\ UNCHANGED <<sp, delivered, running, outer, handle>>
        /\ \/ UNCHANGED <<up, ready>>
           \/ ready' = ready \union {c} /\ up' = [up EXCEPT ![c] = (c = "game")]
    BY <1>0, <1>1 DEF InitComponent, Goto, Comp, InitPc, AfterInit, Booting
  <2>2. ~Started /\ ~Started'
    BY <2>1, NotStartedYet DEF Started
  <2>3. \A f \in Frame : sp'[f] = "idle"
    BY <2>1, <2>2 DEF AtPeace
  <2>4. AtPeace'
    BY <2>1, <2>2, <2>3 DEF AtPeace, Booting, Exiting, Destroying
  <2>5. "game" \in ready' => up'["game"]
    BY <2>1, <2>2 DEF GameJoined, IInv, TypeOK, Comp
  <2> QED BY <2>3, <2>4, <2>5 DEF BnTold, GameJoined
<1>2. ASSUME NEW c \in Comp, SpawnServerThread(c)
      PROVE  PInv'
  <2>1. /\ pc["main"] \in Spawning /\ pc'["main"] \in Spawning \union {"loop"}
        /\ pc'["timer"] = pc["timer"]
        /\ UNCHANGED <<sp, delivered, running, ready, handle, up>>
        /\ outer' = [outer EXCEPT ![c] = "start"]
    BY <1>0, <1>2
       DEF SpawnServerThread, Goto, Comp, SpawnPc, AfterSpawn, Spawning, StartsInPeace
  <2>2. ~Started /\ ~Started'
    BY <2>1, NotStartedYet DEF Started, IInv, TypeOK
  <2>3. AtPeace'
    BY <2>1, <2>2 DEF AtPeace, Booting, Spawning, Exiting, Destroying
  <2> QED BY <2>1, <2>2, <2>3 DEF BnTold, GameJoined
<1>3. CASE ServerRun
  <2>1. /\ pc["main"] \in Booting /\ pc'["main"] = "spawnBn" /\ pc'["timer"] = pc["timer"]
        /\ UNCHANGED <<sp, delivered, outer, ready, handle, up>> /\ running'
    BY <1>0, <1>3 DEF ServerRun, Goto, Booting, compVars
  <2>2. ~Started /\ ~Started'
    BY <2>1, NotStartedYet DEF Started
  <2>3. AtPeace'
    BY <2>1, <2>2 DEF AtPeace, Exiting, Destroying
  <2> QED BY <2>1, <2>2, <2>3 DEF BnTold, GameJoined
<1>4. CASE ServerRunReturns
  <2>1. /\ pc["main"] \in {"loop", "catch"}
        /\ pc["main"] = "loop" => ~running
        /\ UNCHANGED <<sp, delivered, running, compVars>>
    BY <1>4 DEF ServerRunReturns, Goto
  <2>2. Started
    BY <2>1 DEF AtPeace, Booting
  <2>3. Started' = Started
    BY <2>1 DEF Started, compVars
  <2> QED BY <2>1, <2>2, <2>3, PeaceKept DEF compVars
<1> QED BY <1>1, <1>2, <1>3, <1>4 DEF MainStep

LEMMA OuterPInv ==
  ASSUME StartsInPeace, IInv, PInv, NEW c \in Comp,
         OuterStart(c) \/ OuterSpawn(c) \/ OuterStore(c)
  PROVE  PInv'
<1> USE DEF PInv
<1>1. /\ outer[c] \notin {"loop", "done"}
      /\ UNCHANGED <<pc, sp, delivered, running, ready>>
  BY DEF OuterStart, OuterSpawn, OuterStore
<1>2. ~Started
  BY <1>1 DEF Started
<1>3. \A f \in Frame : sp'[f] = "idle"
  BY <1>1, <1>2 DEF AtPeace
<1>4. up' = up \/ \E n \in NetComp : up' = [up EXCEPT ![n] = TRUE]
  BY DEF OuterStart, OuterSpawn, OuterStore
<1>5. "game" \in ready' => up'["game"]
  BY <1>1, <1>2, <1>4 DEF GameJoined, NetComp, IInv, TypeOK, Comp
<1>6. AtPeace'
  BY <1>1, <1>2 DEF AtPeace
<1> QED BY <1>3, <1>5, <1>6 DEF BnTold, GameJoined

LEMMA ShutdownPInv ==
  ASSUME IInv, PInv, NEW f \in Frame, Shutdown(f)
  PROVE  PInv'
<1> USE DEF PInv
<1>1. sp[f] # "idle"
  BY DEF Shutdown, ShutdownCheck, ShutdownStore, ComponentCheck, ComponentStop, ComponentJoin,
         GameStore, ClearClients, JoinServerThreads, Step, Comp, CheckSp, StopSp, JoinSp
<1>2. Started
  BY <1>1 DEF AtPeace
<1>3. /\ UNCHANGED <<pc, delivered, ready, outer>>
      /\ \E to : sp' = [sp EXCEPT ![f] = to]
  BY DEF Shutdown, ShutdownCheck, ShutdownStore, ComponentCheck, ComponentStop, ComponentJoin,
         GameStore, ClearClients, JoinServerThreads, Step, compVars
<1>4. Started' /\ AtPeace'
  BY <1>2, <1>3 DEF Started, AtPeace
<1>5. /\ sp \in [Frame -> ShutPc] /\ up \in [Comp -> BOOLEAN] /\ handle \in [Comp -> BOOLEAN]
      /\ {"bn", "game", "rest"} = Comp
  BY DEF IInv, TypeOK, Comp
<1>6. /\ ~up["bn"] => ~up'["bn"]
      /\ ~handle["game"] => ~handle'["game"]
  BY <1>5 DEF Shutdown, ShutdownCheck, ShutdownStore, ComponentCheck, ComponentStop,
              ComponentJoin, GameStore, ClearClients, JoinServerThreads, compVars
<1>7. \A g \in Frame \ {f} : sp'[g] = sp[g]
  BY <1>3, <1>5
<1>8. sp'[f] \in {"bnJoin", "bnClear", "joinAll"} => ~up'["bn"]
  <2>1. CASE \E c \in Comp : ComponentCheck(f, c)
    BY <1>5, <2>1 DEF ComponentCheck, Step, CheckSp, StopSp, AfterComponent, AfterStop, compVars
  <2>2. CASE \E c \in Comp : ComponentStop(f, c)
    <3>1. PICK c \in Comp : ComponentStop(f, c)
      BY <2>2
    <3>2. c = "bn" => ~up'["bn"]
      BY <1>5, <3>1 DEF ComponentStop
    <3>3. c # "bn" => sp'[f] \in {"gameJoin", "restJoin"}
      BY <1>5, <3>1 DEF ComponentStop, Step, Comp, JoinSp
    <3> QED BY <3>2, <3>3
  <2>3. CASE \E c \in Comp : ComponentJoin(f, c)
    BY <1>5, <2>3 DEF BnTold, ComponentJoin, Step, JoinSp, AfterJoin, AfterComponent, AfterStop
  <2>4. CASE ShutdownCheck(f) \/ ShutdownStore(f) \/ GameStore(f) \/ JoinServerThreads(f)
    BY <1>5, <2>4 DEF ShutdownCheck, ShutdownStore, GameStore, JoinServerThreads, Step,
                      AfterComponent, AfterStop
  <2>5. CASE ClearClients(f)
    BY <1>5, <2>5 DEF BnTold, ClearClients, Step
  <2> QED BY <2>1, <2>2, <2>3, <2>4, <2>5 DEF Shutdown
<1>9. BnTold'
  BY <1>6, <1>7, <1>8 DEF BnTold
<1>10. sp'[f] = "gameStore" => ~handle'["game"]
  <2>1. CASE \E c \in Comp : ComponentJoin(f, c)
    BY <1>5, <2>1 DEF ComponentJoin, Step, JoinSp, AfterJoin, AfterComponent, AfterStop
  <2>2. CASE ShutdownCheck(f) \/ ShutdownStore(f) \/ GameStore(f) \/ JoinServerThreads(f)
    BY <1>5, <2>2 DEF ShutdownCheck, ShutdownStore, GameStore, JoinServerThreads, Step,
                      AfterComponent, AfterStop
  <2>3. CASE ClearClients(f)
    BY <1>5, <2>3 DEF ClearClients, Step, AfterComponent, AfterStop
  <2>4. CASE \E c \in Comp : ComponentCheck(f, c) \/ ComponentStop(f, c)
    BY <1>5, <2>4 DEF ComponentCheck, ComponentStop, Step, CheckSp, StopSp, JoinSp,
                      AfterComponent, AfterStop
  <2> QED BY <2>1, <2>2, <2>3, <2>4 DEF Shutdown
<1>11. up["game"] /\ ~up'["game"] => ~handle'["game"]
  <2>1. CASE GameStore(f)
    BY <2>1 DEF GameJoined, GameStore, Step
  <2>2. CASE ~GameStore(f)
    BY <1>5, <2>2 DEF Shutdown, ShutdownCheck, ShutdownStore, ComponentCheck, ComponentStop,
                      ComponentJoin, ClearClients, JoinServerThreads, compVars
  <2> QED BY <2>1, <2>2
<1>12. GameJoined'
  BY <1>3, <1>4, <1>6, <1>7, <1>10, <1>11 DEF GameJoined
<1> QED BY <1>4, <1>9, <1>12

LEMMA RestPInv ==
  ASSUME StartsInPeace, IInv, PInv,
         \/ \E s \in Signals : Deliver(s)
         \/ BattleNetLoop
         \/ \E c \in Comp : InnerStep(c)
         \/ AcceptClient \/ AdminShutdown \/ TimerFires
         \/ \E e \in Exiter : Exit(e)
  PROVE  PInv'
<1> USE DEF PInv
<1>0. AllStarted => Started
  BY DEF AllStarted, Started
<1>1. CASE \E s \in Signals : Deliver(s)
  <2>1. Started
    BY <1>0, <1>1 DEF Deliver, StartsInPeace, AtPeace
  <2>2. PICK s \in Signals : Deliver(s)
    BY <1>1
  <2>3. \A f \in Frame : sp'[f] \in {sp[f], "check"}
    BY <2>2 DEF Deliver, IInv, TypeOK
  <2>4. Started' /\ UNCHANGED <<ready, handle, up>>
    BY <2>1, <2>2 DEF Deliver, Started, compVars
  <2> QED BY <2>3, <2>4 DEF AtPeace, BnTold, GameJoined
<1>2. CASE BattleNetLoop
  <2>1. /\ UNCHANGED <<pc, sp, delivered, running, ready, handle, up>>
        /\ outer["bn"] = "loop"
        /\ outer' = outer \/ outer' = [outer EXCEPT !["bn"] = "done"]
    BY <1>2 DEF BattleNetLoop
  <2>2. Started' = Started
    BY <2>1 DEF Started, IInv, TypeOK, Comp
  <2> QED BY <2>1, <2>2, PeaceKept
<1>3. CASE (\E c \in Comp : InnerStep(c)) \/ AcceptClient
  <2>1. UNCHANGED <<pc, sp, delivered, running, ready, handle, up, outer>>
    BY <1>3 DEF InnerStep, InnerStart, InnerEnd, AcceptClient
  <2>2. Started' = Started
    BY <2>1 DEF Started
  <2> QED BY <2>1, <2>2, PeaceKept
<1>4. CASE AdminShutdown \/ TimerFires
  <2>1. UNCHANGED <<sp, delivered, running, ready, handle, up, outer>>
    BY <1>4 DEF AdminShutdown, TimerFires, compVars
  <2>2. Started /\ Started' = Started
    BY <1>0, <1>4, <2>1 DEF AdminShutdown, TimerFires, Goto, StartsInPeace, AtPeace, Started
  <2> QED BY <2>1, <2>2, PeaceKept
<1>5. CASE \E e \in Exiter : Exit(e)
  <2>1. PICK e \in Exiter : Exit(e)
    BY <1>5
  <2>2. pc[e] \in Exiting /\ pc[e] \notin {"idle", "sleep"}
    BY <2>1 DEF Exit, BeginExit, EndExit, DestroyServer, DestroyThreads, DestroyComponent, Goto,
                Exiting, Destroying, DestroyPc, Comp
  <2>3. Started
    BY <2>2 DEF AtPeace, Exiter
  <2>4. /\ UNCHANGED <<delivered, running, compVars>>
        /\ sp' = sp \/ \E to \in {"check", "restCheck", "gameCheck", "bnCheck"} :
                          sp' = [sp EXCEPT ![e] = to]
    BY <2>1 DEF Exit, BeginExit, EndExit, DestroyServer, DestroyThreads, DestroyComponent, Comp,
                CheckSp
  <2>5. \A f \in Frame : sp'[f] \in {sp[f], "check", "restCheck", "gameCheck", "bnCheck"}
    BY <2>4 DEF IInv, TypeOK
  <2>6. Started' /\ UNCHANGED <<ready, handle, up>>
    BY <2>3, <2>4 DEF Started, compVars
  <2> QED BY <2>5, <2>6 DEF AtPeace, BnTold, GameJoined
<1> QED BY <1>1, <1>2, <1>3, <1>4, <1>5

LEMMA InPeace ==
  ASSUME StartsInPeace
  PROVE  Spec => [](IInv /\ PInv)
<1>1. Init => IInv /\ PInv
  BY InitIInv, InitPInv
<1>2. IInv /\ PInv /\ [Next]_vars => (IInv /\ PInv)'
  <2> SUFFICES ASSUME IInv, PInv, [Next]_vars PROVE PInv'
    BY NextIInv
  <2>1. CASE UNCHANGED vars
    <3>1. Started' = Started
      BY <2>1 DEF vars, compVars, Started
    <3> QED BY <2>1, <3>1, PeaceKept DEF vars, compVars
  <2>2. CASE Live
    BY <2>2, MainPInv, OuterPInv, ShutdownPInv, RestPInv DEF Live, OuterStep
  <2> QED BY <2>1, <2>2 DEF Next, Over
<1> QED BY <1>1, <1>2, PTL DEF Spec

(* Server::shutdown() never waits for a Battle.net run() that nobody told  *)
(* to stop: whether handlers interrupt each other in its middle, or main() *)
(* and the timer of the admin API are in it at once.                       *)
THEOREM JoinsAreSafe ==
  ASSUME StartsInPeace
  PROVE  Spec => []JoinsOnlyStoppedThreads
<1>1. PInv => JoinsOnlyStoppedThreads
  BY DEF PInv, BnTold, JoinsOnlyStoppedThreads
<1> QED BY <1>1, InPeace, PTL

(* m_isRunning of the game server covers the whole life of its loop: it is *)
(* lowered by one who has joined the game thread, or has found it joined.  *)
THEOREM GameFlagIsLast ==
  ASSUME StartsInPeace
  PROVE  Spec => []GameFlagCoversLoop
<1>1. IInv /\ PInv => GameFlagCoversLoop
  <2> SUFFICES ASSUME IInv, PInv, ~up["game"], "game" \in ready
               PROVE  inner["game"] \in {"none", "done"}
    BY DEF GameFlagCoversLoop
  <2>1. ~handle["game"] /\ outer["game"] # "store"
    BY DEF PInv, GameJoined, Started, Comp
  <2> QED BY <2>1 DEF IInv, InnerOwned, Comp
<1> QED BY <1>1, InPeace, PTL

-----------------------------------------------------------------------------
(* The steps of the server are steps of the abstract service.              *)

Phase == CASE fate = "exited" -> "stopped"
           [] fate # "exited" /\ ~running /\ pc["main"] \notin Booting -> "stopping"
           [] OTHER -> "up"

Working == {c \in Comp : handle[c] \/ outer[c] \notin {"none", "done"}}

Maps == Service!Next \/ UNCHANGED Service!vars

(* init() of the game server has raised its flag before a thread exists.   *)
GameReady == "game" \in ready \/ pc["main"] \in {"initBn", "initGame"}

LEMMA PhaseIs ==
  /\ fate = "exited" => Phase = "stopped"
  /\ fate # "exited" /\ ~running /\ pc["main"] \notin Booting => Phase = "stopping"
  /\ fate # "exited" /\ (running \/ pc["main"] \in Booting) => Phase = "up"
<1>1. CASE fate = "exited"
  BY <1>1 DEF Phase
<1>2. CASE fate # "exited" /\ ~running /\ pc["main"] \notin Booting
  BY <1>2 DEF Phase
<1>3. CASE fate # "exited" /\ (running \/ pc["main"] \in Booting)
  BY <1>3 DEF Phase
<1> QED BY <1>1, <1>2, <1>3

LEMMA ServiceStutters ==
  ASSUME UNCHANGED <<Phase, Working>>
  PROVE  Maps
BY DEF Maps, Phase, Working, Service!vars

LEMMA ServiceStarts ==
  ASSUME NEW c \in Comp, Phase = "up", Phase' = "up", c \notin Working,
         Working' = Working \union {c}
  PROVE  Maps
<1>1. Service!Start(c)
  BY DEF Phase, Working, Service!Start
<1> QED BY <1>1 DEF Maps, Service!Next

LEMMA ServiceIsToStop ==
  ASSUME Phase = "up", Phase' = "stopping", Working = Comp, Working' = Comp
  PROVE  Maps
<1>1. Service!RequestStop
  BY DEF Phase, Working, Service!RequestStop
<1> QED BY <1>1 DEF Maps, Service!Next

LEMMA ServiceStops ==
  ASSUME NEW c \in Comp, Phase = "stopping", Phase' = "stopping", c \in Working,
         Working' = Working \ {c},
         c = "game" => "rest" \notin Working, c = "bn" => Working \subseteq {"bn"}
  PROVE  Maps
<1>1. Service!MayStop(c)
  BY DEF Working, Service!MayStop, Comp
<1>2. Service!Stop(c)
  BY <1>1 DEF Phase, Working, Service!Stop
<1> QED BY <1>2 DEF Maps, Service!Next

LEMMA ServiceFinishes ==
  ASSUME Phase = "stopping", Phase' = "stopped", Working = {}, Working' = {}
  PROVE  Maps
<1>1. Service!Finish
  BY DEF Phase, Working, Service!Finish
<1> QED BY <1>1 DEF Maps, Service!Next

LEMMA PhaseKept ==
  ASSUME UNCHANGED <<fate, running>>, pc'["main"] \in Booting <=> pc["main"] \in Booting
  PROVE  UNCHANGED Phase
<1> DEFINE a == fate = "exited"
           b == fate # "exited" /\ ~running /\ pc["main"] \notin Booting
<1>1. a' = a /\ b' = b
  OBVIOUS
<1>2. Phase = (CASE a -> "stopped" [] b -> "stopping" [] OTHER -> "up")
  BY DEF Phase
<1>3. Phase' = (CASE a' -> "stopped" [] b' -> "stopping" [] OTHER -> "up")
  BY DEF Phase
<1> HIDE DEF a, b
<1> QED BY <1>1, <1>2, <1>3

(* No step but those of its run(), and of its shutdown(), changes whether  *)
(* a component is at work.                                                 *)
LEMMA WorkingKept ==
  ASSUME UNCHANGED <<outer, handle>>
  PROVE  UNCHANGED Working
BY DEF Working

LEMMA PastBoot ==
  ASSUME IInv, Started
  PROVE  pc["main"] \notin Booting
BY NotStartedYet

LEMMA MainMaps ==
  ASSUME LeftAlone, IInv, SInv, fate = "alive", MainStep
  PROVE  Maps
<1> USE DEF SInv
<1>0. pc \in [Exiter -> MainPc \union TimerPc] /\ "main" \in Exiter
  BY DEF IInv, TypeOK, Exiter
<1>1. ASSUME NEW c \in Comp, InitComponent(c)
      PROVE  Maps
  <2>1. /\ pc["main"] \in Booting /\ pc'["main"] \in Booting
        /\ UNCHANGED <<fate, running, outer, handle>>
    BY <1>0, <1>1 DEF InitComponent, Goto, Comp, InitPc, AfterInit, Booting
  <2> QED BY <2>1, PhaseKept, WorkingKept, ServiceStutters
<1>2. ASSUME NEW c \in Comp, SpawnServerThread(c)
      PROVE  Maps
  <2>1. /\ pc["main"] \in Spawning /\ pc'["main"] \notin Booting
        /\ UNCHANGED <<fate, running, handle>>
        /\ outer' = [outer EXCEPT ![c] = "start"]
    BY <1>0, <1>2 DEF SpawnServerThread, Goto, Comp, SpawnPc, AfterSpawn, Spawning, LeftAlone, Booting
  <2>2. ~Started /\ running
    BY <2>1, NotStartedYet DEF Undisturbed, Booting, Spawning
  <2>3. outer[c] = "none" /\ ~handle[c]
    BY <1>2 DEF IInv, SpawnOrder, SpawnServerThread, Goto, Comp, SpawnPc, Booting, Spawning, Handles
  <2>4. Phase = "up" /\ Phase' = "up"
    BY <2>1, <2>2 DEF Phase
  <2>5. c \notin Working /\ Working' = Working \union {c}
    BY <2>1, <2>3 DEF Working, IInv, TypeOK
  <2> QED BY <2>4, <2>5, ServiceStarts
<1>3. CASE ServerRun
  <2>1. /\ pc["main"] = "run" /\ running' /\ UNCHANGED <<fate, outer, handle>>
    BY <1>3 DEF ServerRun, Goto, compVars
  <2>2. Phase = "up" /\ Phase' = "up"
    BY <2>1 DEF Phase, Booting
  <2> QED BY <2>1, <2>2, WorkingKept, ServiceStutters
<1>4. CASE ServerRunReturns
  <2>1. /\ pc["main"] \in {"loop", "catch"} /\ pc'["main"] \in {"exit", "dRest"}
        /\ UNCHANGED <<fate, running, outer, handle>>
    BY <1>0, <1>4 DEF ServerRunReturns, Goto, compVars
  <2>2. UNCHANGED Phase
    BY <2>1, PhaseKept DEF Booting
  <2> QED BY <2>1, <2>2, WorkingKept, ServiceStutters
<1> QED BY <1>1, <1>2, <1>3, <1>4 DEF MainStep

LEMMA OuterMaps ==
  ASSUME LeftAlone, IInv, SInv, GameReady, NEW c \in Comp,
         OuterStart(c) \/ OuterSpawn(c) \/ OuterStore(c)
  PROVE  Maps
<1> USE DEF SInv
<1>1. outer[c] \in {"start", "spawn", "store"} /\ UNCHANGED <<pc, running, fate>>
  BY DEF OuterStart, OuterSpawn, OuterStore
<1>2. ~Started
  BY <1>1 DEF Started
<1>3. pc["main"] \notin Booting
  BY <1>1, NoDestroyerYet DEF IInv, SpawnOrder, Comp
<1>4. up["game"]
  BY <1>2, <1>3 DEF GameReady, Undisturbed, Booting
<1>5. \/ UNCHANGED handle /\ \E o \in {"spawn", "store"} : outer' = [outer EXCEPT ![c] = o]
      \/ /\ handle' = [handle EXCEPT ![c] = TRUE]
         /\ \E o \in OuterPc : outer' = [outer EXCEPT ![c] = o]
  BY <1>4 DEF OuterStart, OuterSpawn, OuterStore, LeftAlone, OuterPc
<1>6. UNCHANGED Working
  BY <1>1, <1>5 DEF Working, IInv, TypeOK
<1> QED BY <1>1, <1>6, PhaseKept, ServiceStutters

(* The stop of a component, as the abstract service sees it, is the join   *)
(* of its own thread, or the end of BattleNetServer::run after it.         *)
LEMMA LoopMaps ==
  ASSUME IInv, SInv, fate = "alive", BattleNetLoop
  PROVE  Maps
<1> USE DEF SInv
<1>1. /\ UNCHANGED <<pc, running, fate, handle>>
      /\ outer["bn"] = "loop"
      /\ \/ outer' = outer
         \/ ~up["bn"] /\ outer' = [outer EXCEPT !["bn"] = "done"]
  BY DEF BattleNetLoop
<1>2. CASE outer' = outer \/ handle["bn"]
  <2>1. UNCHANGED Working
    BY <1>1, <1>2 DEF Working, IInv, TypeOK, Comp
  <2> QED BY <1>1, <2>1, PhaseKept, ServiceStutters
<1>3. CASE outer' # outer /\ ~handle["bn"]
  <2>1. ~up["bn"] /\ outer' = [outer EXCEPT !["bn"] = "done"]
    BY <1>1, <1>3
  <2>2. Started
    BY <1>1, <2>1 DEF Undisturbed, NetComp
  <2>3. ~running /\ pc["main"] \notin Booting
    BY <1>1, <1>3, <2>2, PastBoot DEF Handles, Comp
  <2>4. Phase = "stopping" /\ Phase' = "stopping"
    BY <1>1, <2>3 DEF Phase
  <2>5. ~handle["game"] /\ ~handle["rest"] /\ outer["game"] = "done" /\ outer["rest"] = "done"
    BY <1>3, <2>2 DEF Joined, Started, Handles, Comp
  <2>6. "bn" \in Working /\ Working \subseteq {"bn"} /\ Working' = Working \ {"bn"}
    BY <1>1, <1>3, <2>1, <2>5 DEF Working, IInv, TypeOK, Comp
  <2> QED BY <2>4, <2>6, ServiceStops DEF Comp
<1> QED BY <1>2, <1>3

LEMMA JoinMaps ==
  ASSUME IInv, SInv, fate = "alive", NEW f \in Frame, NEW c \in Comp, ComponentJoin(f, c)
  PROVE  Maps
<1> USE DEF SInv
<1>1. /\ Step(f, JoinSp[c], AfterJoin(f, c)) /\ JoinSp[c] \notin {"idle", "check"}
      /\ handle' = [handle EXCEPT ![c] = FALSE]
      /\ UNCHANGED <<running, outer, fate, pc>>
  BY DEF ComponentJoin, Step, JoinSp, Comp
<1>2. f \in Signals /\ sp[f] = JoinSp[c] /\ Started
  BY <1>1, FrameIsHandler
<1> USE DEF Stopping, PastRest, GamePart, BnPart
<1>3. ~running /\ pc["main"] \notin Booting
  BY <1>2, PastBoot DEF Achieved, JoinSp, Comp
<1>4. Phase = "stopping" /\ Phase' = "stopping"
  BY <1>1, <1>3 DEF Phase
<1>5. CASE handle[c] /\ outer[c] = "done"
  <2>1. c \in Working /\ Working' = Working \ {c}
    BY <1>1, <1>5 DEF Working, IInv, TypeOK
  <2>2. At({"restJoin"}) => JoinSp[c] = "restJoin"
    BY <1>1, Alone
  <2>3. c # "rest" => ~handle["rest"]
    BY <1>2, <2>2 DEF Achieved, Joined, JoinSp, Comp
  <2>4. c = "bn" => ~handle["game"]
    BY <1>2 DEF Achieved, Joined, JoinSp
  <2>5. outer["rest"] = "done" /\ outer["game"] = "done"
    BY <1>2 DEF Started, Handles, Comp
  <2>6. c # "rest" => "rest" \notin Working
    BY <2>3, <2>5 DEF Working
  <2>7. c = "bn" => Working \subseteq {"bn"}
    BY <2>3, <2>4, <2>5 DEF Working, Comp
  <2> QED BY <1>4, <2>1, <2>6, <2>7, ServiceStops
<1>6. CASE ~handle[c] \/ outer[c] # "done"
  <2>1. UNCHANGED Working
    BY <1>1, <1>2, <1>6 DEF Working, IInv, TypeOK, Started
  <2> QED BY <1>1, <2>1, PhaseKept, ServiceStutters
<1> QED BY <1>5, <1>6

LEMMA ShutdownMaps ==
  ASSUME IInv, SInv, GameReady, fate = "alive", NEW f \in Frame, Shutdown(f)
  PROVE  Maps
<1> USE DEF SInv
<1>1. CASE ShutdownStore(f)
  <2>1. Step(f, "store", "restCheck") /\ ~running' /\ UNCHANGED <<outer, handle, fate, pc>>
    BY <1>1 DEF ShutdownStore, Step, compVars
  <2>2. Started
    BY <2>1, FrameIsHandler
  <2>3. pc["main"] \notin Booting
    BY <2>2, PastBoot
  <2>4. Phase' = "stopping"
    BY <2>1, <2>3 DEF Phase
  <2>5. CASE running
    <3>1. Phase = "up"
      BY <2>5 DEF Phase
    <3>2. \A c \in Comp : handle[c]
      BY <2>2, <2>3, <2>5 DEF GameReady, Booting, Started, Handles
    <3>3. Working = Comp /\ Working' = Comp
      BY <2>1, <3>2 DEF Working
    <3> QED BY <2>4, <3>1, <3>3, ServiceIsToStop
  <2>6. CASE ~running
    <3>1. Phase = "stopping"
      BY <2>3, <2>6 DEF Phase
    <3> QED BY <2>1, <2>4, <3>1, WorkingKept, ServiceStutters
  <2> QED BY <2>5, <2>6
<1>2. CASE \/ ShutdownCheck(f) \/ GameStore(f) \/ ClearClients(f) \/ JoinServerThreads(f)
           \/ \E c \in Comp : ComponentCheck(f, c) \/ ComponentStop(f, c)
  <2>1. UNCHANGED <<outer, handle, fate, pc, running>>
    BY <1>2 DEF ShutdownCheck, GameStore, ClearClients, JoinServerThreads, ComponentCheck,
                ComponentStop, Step, compVars
  <2> QED BY <2>1, PhaseKept, WorkingKept, ServiceStutters
<1> QED BY <1>1, <1>2, JoinMaps DEF Shutdown

(* Nothing is at work any more when main() leaves run().                   *)
LEMMA ExitMaps ==
  ASSUME IInv, SInv, fate = "alive", NEW e \in Exiter, Exit(e)
  PROVE  Maps
<1> USE DEF SInv
<1>1. pc[e] \in Exiting
  BY DEF Exit, BeginExit, EndExit, DestroyServer, DestroyThreads, DestroyComponent, Exiting,
         Destroying, DestroyPc, Comp
<1>2. e = "main"
  BY <1>1 DEF OnlyHandlers, Exiter, Exiting, Destroying
<1>3. /\ ~running /\ \A c \in Comp : ~slot[c] /\ ~handle[c] /\ ~up[c]
  BY <1>1, <1>2, AllDown
<1>4. Working = {}
  BY <1>3 DEF Working, IInv, OuterOwned
<1>5. /\ UNCHANGED <<running, outer, handle>>
      /\ fate' \in {"alive", "exited"}
  BY <1>3 DEF Exit, BeginExit, EndExit, DestroyServer, DestroyThreads, DestroyComponent, Goto, compVars
<1>6. pc' = pc \/ \E p \in Exiting : pc' = [pc EXCEPT ![e] = p]
  BY DEF Exit, BeginExit, EndExit, DestroyServer, DestroyThreads, DestroyComponent, Goto,
         Destroying, Exiting
<1>7. pc["main"] \notin Booting /\ pc'["main"] \notin Booting
  BY <1>1, <1>2, <1>6 DEF IInv, TypeOK, Exiter, Booting, Exiting, Destroying
<1>8. Phase = "stopping"
  BY <1>3, <1>7 DEF Phase
<1>9. CASE fate' = "alive"
  BY <1>5, <1>7, <1>9, PhaseKept, WorkingKept, ServiceStutters
<1>10. CASE fate' = "exited"
  <2>1. Phase' = "stopped" /\ Working' = {}
    BY <1>4, <1>5, <1>10 DEF Phase, Working
  <2> QED BY <1>4, <1>8, <2>1, ServiceFinishes
<1> QED BY <1>5, <1>9, <1>10

LEMMA NextMaps ==
  ASSUME LeftAlone, IInv, SInv, GameReady, [Next]_vars
  PROVE  Maps
<1>1. CASE UNCHANGED vars
  BY <1>1, PhaseKept, WorkingKept, ServiceStutters DEF vars, compVars
<1>2. ASSUME fate = "alive", NEW s \in Signals, Deliver(s)
      PROVE  Maps
  BY <1>2, PhaseKept, WorkingKept, ServiceStutters DEF Deliver, compVars
<1>3. ASSUME fate = "alive", NEW c \in Comp, InnerStep(c)
      PROVE  Maps
  BY <1>3, PhaseKept, WorkingKept, ServiceStutters DEF InnerStep, InnerStart, InnerEnd
<1>4. ASSUME fate = "alive", AcceptClient
      PROVE  Maps
  BY <1>4, PhaseKept, WorkingKept, ServiceStutters DEF AcceptClient
<1>5. ASSUME SInv
      PROVE  ~AdminShutdown /\ ~TimerFires
  BY DEF LeftAlone, SInv, OnlyHandlers, AdminShutdown, TimerFires, Goto
<1>6. CASE fate = "alive" /\ Live
  BY <1>2, <1>3, <1>4, <1>5, <1>6, MainMaps, OuterMaps, LoopMaps, ShutdownMaps, ExitMaps
     DEF Live, OuterStep
<1> QED BY <1>1, <1>6 DEF Next, Over

LEMMA NextReady ==
  ASSUME ~InitCanFail, IInv, GameReady, [Next]_vars
  PROVE  GameReady'
<1>0. pc \in [Exiter -> MainPc \union TimerPc] /\ Exiter = {"main", "timer"}
  BY DEF IInv, TypeOK, Exiter
<1>1. ASSUME NEW c \in Comp, InitComponent(c)
      PROVE  GameReady'
  BY <1>0, <1>1 DEF InitComponent, Goto, GameReady, Comp, InitPc, AfterInit
<1>2. ASSUME UNCHANGED ready,
             \/ UNCHANGED pc
             \/ pc["main"] \notin {"initBn", "initGame"}
             \/ pc'["main"] = pc["main"]
      PROVE  GameReady'
  BY <1>2 DEF GameReady
<1>3. ASSUME NEW c \in Comp, SpawnServerThread(c)
      PROVE  GameReady'
  BY <1>2, <1>3 DEF SpawnServerThread, Goto, SpawnPc, Comp
<1>4. CASE ServerRun \/ ServerRunReturns
  BY <1>2, <1>4 DEF ServerRun, ServerRunReturns, Goto, compVars
<1>5. ASSUME NEW f \in Frame, Shutdown(f)
      PROVE  GameReady'
  BY <1>2, <1>5 DEF Shutdown, ShutdownCheck, ShutdownStore, ComponentCheck, ComponentStop,
                    ComponentJoin, GameStore, ClearClients, JoinServerThreads, Step, compVars
<1>6. ASSUME NEW s \in Signals, Deliver(s)
      PROVE  GameReady'
  BY <1>2, <1>6 DEF Deliver, compVars
<1>7. ASSUME NEW c \in Comp, OuterStep(c) \/ InnerStep(c)
      PROVE  GameReady'
  BY <1>2, <1>7 DEF OuterStep, OuterStart, OuterSpawn, OuterStore, BattleNetLoop, InnerStep,
                    InnerStart, InnerEnd
<1>8. CASE AcceptClient \/ AdminShutdown \/ TimerFires
  BY <1>0, <1>2, <1>8 DEF AcceptClient, AdminShutdown, TimerFires, Goto, compVars
<1>9. ASSUME NEW e \in Exiter, Exit(e)
      PROVE  GameReady'
  <2>1. UNCHANGED ready /\ (pc' = pc \/ pc[e] \in Exiting)
    BY <1>9 DEF Exit, BeginExit, EndExit, DestroyServer, DestroyThreads, DestroyComponent,
                Goto, Exiting, Destroying, DestroyPc, Comp, compVars
  <2>2. \A p \in Exiter : p # e => pc'[p] = pc[p]
    BY <1>0, <1>9 DEF Exit, BeginExit, EndExit, DestroyServer, DestroyThreads,
                      DestroyComponent, Goto
  <2> QED BY <1>0, <1>2, <2>1, <2>2 DEF Exiting, Destroying
<1>10. CASE UNCHANGED vars
  BY <1>2, <1>10 DEF vars, compVars
<1> QED BY <1>1, <1>3, <1>4, <1>5, <1>6, <1>7, <1>8, <1>9, <1>10 DEF Next, Live, MainStep, Over

(* Whatever signals there are and wherever they strike, the server goes up *)
(* one component at a time, is asked to stop only when complete, goes down *)
(* in the order of Server::shutdown() and ends with nothing at work.       *)
THEOREM ServerIsAService ==
  LeftAlone /\ ~InitCanFail => (Spec => Service!Init /\ [][Service!Next]_(Service!vars))
<1> SUFFICES ASSUME LeftAlone, ~InitCanFail
             PROVE  Spec => Service!Init /\ [][Service!Next]_(Service!vars)
  OBVIOUS
<1>1. Init => IInv /\ SInv /\ GameReady
  BY InitIInv, InitSInv DEF Init, GameReady, Exiter
<1>2. IInv /\ SInv /\ GameReady /\ [Next]_vars => (IInv /\ SInv /\ GameReady)'
  BY NextIInv, NextSInv, NextReady
<1>3. Init => Service!Init
  <2>1. Init => Phase = "up" /\ Working = {}
    BY DEF Init, Phase, Working, Booting, Exiter
  <2> QED BY <2>1 DEF Phase, Working, Service!Init
<1>4. IInv /\ SInv /\ GameReady /\ [Next]_vars => [Service!Next]_(Service!vars)
  BY NextMaps DEF Maps
<1> QED BY <1>1, <1>2, <1>3, <1>4, PTL DEF Spec
=============================================================================
