--------------------------- MODULE MCForwarding ---------------------------
(* Forwarding on small instances. *)
EXTENDS Forwarding, TLC

CONSTANTS m1, m2, o1, c1, c2, f1, f2

Choice(on, del, notice) ==
  [sms |-> TRUE, forward |-> on, del |-> del, targets |-> {c1, c2},
   notice |-> notice, notify |-> {c1, c2}]

\* Everything on; forwarding off; deletion and the notice off.
ThreeChoices == {Choice(TRUE, TRUE, TRUE), Choice(FALSE, TRUE, TRUE),
                 Choice(TRUE, FALSE, FALSE)}

OneMessage == {m1}
TwoMessages == {m1, m2}
OneOutage == {o1}
TwoChannels == {c1, c2}
OneFragment == {f1}
TwoFragments == {f1, f2}
Symmetry == Permutations(TwoFragments) \cup Permutations(TwoChannels)
=============================================================================
