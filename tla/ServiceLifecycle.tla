-------------------------- MODULE ServiceLifecycle --------------------------
(***************************************************************************)
(* What an operator of D3Server is promised about its life, without any    *)
(* thread, flag or join: the components are brought up one after the       *)
(* other; a stop request to the complete server takes them down in the     *)
(* fixed order REST API, game server, Battle.net; and the process ends     *)
(* only when all of them are down.                                         *)
(***************************************************************************)

CONSTANT Comp     \* the components the server coordinates

VARIABLES
  phase,          \* where the service is in its life
  live            \* the components that have threads at work

vars == <<phase, live>>

Init == phase = "up" /\ live = {}

Start(c) ==
  /\ phase = "up"
  /\ c \notin live
  /\ live' = live \union {c}
  /\ UNCHANGED phase

RequestStop ==
  /\ phase = "up"
  /\ live = Comp
  /\ phase' = "stopping"
  /\ UNCHANGED live

(* Battle.net is the last to go and the REST interface the first, so that  *)
(* no request is taken for a component that is already down.               *)
MayStop(c) ==
  CASE c = "rest" -> TRUE
    [] c = "game" -> "rest" \notin live
    [] OTHER      -> live \subseteq {c}

Stop(c) ==
  /\ phase = "stopping"
  /\ c \in live
  /\ MayStop(c)
  /\ live' = live \ {c}
  /\ UNCHANGED phase

Finish ==
  /\ phase = "stopping"
  /\ live = {}
  /\ phase' = "stopped"
  /\ UNCHANGED live

Next ==
  \/ \E c \in Comp : Start(c) \/ Stop(c)
  \/ RequestStop
  \/ Finish

(* A stop that was requested runs to its end.                              *)
Fairness ==
  /\ \A c \in Comp : WF_vars(Stop(c))
  /\ WF_vars(Finish)

Spec == Init /\ [][Next]_vars /\ Fairness
=============================================================================
