----------------------------- MODULE MCDispatch -----------------------------
(* Finite instances of Dispatch. *)
EXTENDS Dispatch, TLC

CONSTANTS e1, e2, e3, e4

MCReactors == {e1, e2, e3, e4}
MCOrder    == <<e1, e2, e3, e4>>
TwoOrder   == <<e1, e2>>

\* Connections are interchangeable.
ConnSymmetry == Permutations(Conns)
=============================================================================
