---------------------------- MODULE MCAssistant ----------------------------
(* Assistant on a small instance: two modules, two plans of two commands, and *)
(* in one behaviour plans and overlapping polls, stops, or devices.           *)
EXTENDS Assistant
CONSTANTS m1, m2
TwoModules == {m1, m2}
Doing(doing, n, polls) == [doing |-> doing, events |-> n, polls |-> polls]
FourUses ==
  {Doing({"identify", "restart", "check", "agree", "swap"}, 5, 1),
   Doing({"identify", "restart", "read", "agree", "decline", "stop"}, 4, 1),
   Doing({"identify", "restart", "agree", "decline"}, 3, 2),
   Doing({"rescan", "devices", "plug", "run", "quit", "close", "open"}, 4, 1)}
=============================================================================
