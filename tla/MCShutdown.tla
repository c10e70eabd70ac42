---------------------------- MODULE MCShutdown ----------------------------
(* Finite instances of Shutdown: a main reactor m and two sub reactors. *)
EXTENDS Shutdown, TLC

CONSTANTS m, s1, s2, c1

OneHome == c1 :> s1

MCResidues == {-1, 0, 1}
=============================================================================
