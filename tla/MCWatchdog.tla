---------------------------- MODULE MCWatchdog ----------------------------
(* Watchdog on small instances. *)
EXTENDS Watchdog, TLC

CONSTANTS o1, o2, o3

Choice(on, t, n) == [enabled |-> on, tiers |-> t, max |-> n]

\* Off, restarts only, and every kind of step with a smaller limit.
ThreeChoices == {Choice(FALSE, {1}, 1), Choice(TRUE, {4}, 2), Choice(TRUE, {2, 3, 4}, 1)}

ThreeOutages == {o1, o2, o3}
Symmetry == Permutations(ThreeOutages)
=============================================================================
