------------------------------ MODULE MCPages ------------------------------
(* Pages on a small instance. *)
EXTENDS Pages
CONSTANTS v1, v2
TwoValues == {v1, v2}
ThreeViews == {"dashboard", "bands", "cells"}
Groups == [v \in ThreeViews |-> IF v = "dashboard" THEN "overview" ELSE "network"]
Events == [p \in SettingsPanels \union SmallPanels |-> IF p = "router" THEN 4 ELSE 3]
=============================================================================
