--------------------------- MODULE MCServerLocks ---------------------------
(* Instances of ServerLocks for TLC: the server, and a program of two      *)
(* interchangeable users of its libraries.                                 *)
EXTENDS ServerLocks, TLC

CONSTANTS u1, u2

TwoUsers == {u1, u2}
ServerOrUsers == {{"main"}, TwoUsers}
ServerOnly == {{"main"}}
UserSymmetry == Permutations(TwoUsers)
=============================================================================
