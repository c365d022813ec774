--------------------------- MODULE MCNetworkPage ---------------------------
(* NetworkPage on a small instance: a scan finds two LTE cells and an NR one. *)
EXTENDS NetworkPage
CONSTANTS ltem, sam, v1, v2, l1, l2, n1
TwoModes == {ltem, sam}
TwoValues == {v1, v2}
TwoLte == {l1, l2}
OneNr == {n1}
SomeScans == {{l1, n1}, {l1, l2}}
Events ==
  [p \in Panels |-> IF p \in Lists THEN 4 ELSE IF p = "freq" THEN 3 ELSE 2]
=============================================================================
