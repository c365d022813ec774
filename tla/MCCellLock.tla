---------------------------- MODULE MCCellLock ----------------------------
(* CellLock on a small instance. *)
EXTENDS CellLock

CONSTANTS a, b, c1, c2

TwoCells == {a, b}
TwoClients == {c1, c2}
=============================================================================
