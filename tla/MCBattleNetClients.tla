-------------------------- MODULE MCBattleNetClients --------------------------
(* Three connections: two or three from one address.                       *)
EXTENDS BattleNetClients, TLC
CONSTANTS c1, c2, c3, near, far

TwoAddresses == (c1 :> near) @@ (c2 :> near) @@ (c3 :> far)
OneAddress == (c1 :> near) @@ (c2 :> near) @@ (c3 :> near)
=============================================================================
