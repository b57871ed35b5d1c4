---------------------------- MODULE MCRestSessions ----------------------------
(* Two sessions on one login: the second request of a pair may come at any *)
(* moment of the first.                                                    *)
EXTENDS RestSessions
=============================================================================
