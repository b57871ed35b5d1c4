-------------------------- MODULE MCServerLifecycle --------------------------
(***************************************************************************)
(* Instances of ServerLifecycle for TLC.  Two signals are enough for a     *)
(* handler interrupted by another; the third stands for one of them sent   *)
(* again, during the handlers of the others or after them.                 *)
(***************************************************************************)
EXTENDS ServerLifecycle
=============================================================================
