------------------------------ MODULE MCWebApi ------------------------------
(* WebApi on a small instance. *)
EXTENDS WebApi, TLC
CONSTANTS c1, c2, c3
ThreeCalls == {c1, c2, c3}
Symmetry == Permutations(ThreeCalls)
ThreeSockets == 1..3
=============================================================================
