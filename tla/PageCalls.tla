----------------------------- MODULE PageCalls -----------------------------
(***************************************************************************)
(* What the network pages, the settings page and the pages that poll       *)
(* share: one panel of the web pages at a time, the calls it makes, and    *)
(* the server that handles them in any order and answers in the order they *)
(* were handled (one thread, one connection: simpleadmin-core.js, modelled *)
(* in WebApi). A call may fail before it is handled; the server may still  *)
(* carry it out then.                                                      *)
(***************************************************************************)
EXTENDS Naturals, Sequences, SequencesExt

CONSTANTS Values,     \* what can be set; Initially one of them
          Initially,
          MaxFlights, \* bound: calls under way
          Budget      \* bound, for each panel: what users do, and calls that fail

ASSUME ValuesAssumption == Initially \in Values

VARIABLES panel,   \* the panel looked at, chosen at the start
          page,    \* its fields in the page's object
          server,  \* what the server holds for it
          flights, \* calls not handled yet: [kind, val, orphan]
          answers, \* replies on the way: [kind, val, ok, snap]
          active,  \* the page is the one shown
          failures, events

calls == <<flights, answers>>
bounds == <<failures, events>>
vars == <<panel, page, server, calls, active, bounds>>

Unknown == "unknown"
Call(kind, val) == [kind |-> kind, val |-> val, orphan |-> FALSE]
Read(kind) == Call(kind, Unknown)
Room(n) == Len(flights) + Len(answers) + n <= MaxFlights

Send(new) == flights' = flights \o new /\ UNCHANGED answers
SendNothing == UNCHANGED calls

\* The reply at hand is to a call of this kind; with it the page sends these.
Reply(kind) == answers # <<>> /\ Head(answers).kind = kind
Done(new) == flights' = flights \o new /\ answers' = Tail(answers)

User == events < Budget[panel] /\ events' = events + 1 /\ UNCHANGED <<panel, server, active, failures>>
Page == UNCHANGED <<panel, server, active, bounds>>
Elsewhere == UNCHANGED <<panel, page, calls, active, failures>>

Handle(i, ok, after) ==
  LET c == flights[i] IN
  /\ server' = after
  /\ flights' = RemoveAt(flights, i)
  /\ answers' = IF c.orphan THEN answers
                ELSE Append(answers, [kind |-> c.kind, val |-> c.val, ok |-> ok, snap |-> after])
  /\ UNCHANGED <<panel, page, active>>

\* Given up, with what the page then is and sends; the server may obey later.
GiveUp(i, mayLinger, after, new) ==
  /\ ~flights[i].orphan
  /\ page' = after
  /\ \/ flights' = RemoveAt(flights, i) \o new
     \/ mayLinger /\ flights' = [flights EXCEPT ![i].orphan = TRUE] \o new
  /\ UNCHANGED <<panel, server, answers, active>>

\* A refusal or a failure that the bound counts.
Mishap == events < Budget[panel] /\ events' = events + 1 /\ failures' = failures + 1

-----------------------------------------------------------------------------
(* What the invariants of the proofs are made of (PageProofs).             *)

\* A field of a page: what can be set, or nothing known of it yet.
Shows == Values \union {Unknown}

\* A call of one of these kinds is still to be handled, a reply to one on its way.
UnderWay(kinds) == \E i \in DOMAIN flights : flights[i].kind \in kinds
Told(kinds) == \E i \in DOMAIN answers : answers[i].kind \in kinds

\* As long as no call failed, every reply is to a call that was carried out and
\* every call has someone who waits for it.
NothingFailed ==
  /\ \A i \in DOMAIN flights : ~flights[i].orphan
  /\ \A i \in DOMAIN answers : answers[i].ok
=============================================================================
