--------------------------- MODULE RequestService ---------------------------
(***************************************************************************)
(* What SimpleAdmin.Api promises a page (development/simpleadmin/www/js/   *)
(* simpleadmin-core.js): a call is settled at most once.  An answer means  *)
(* that the server handled the call, exactly once and before; a refusal    *)
(* that it never did and never will; a failure says nothing, the call may  *)
(* even be handled afterwards.  A call is handled when it was carried out, *)
(* or rejected or failed with an error status, which its answer then has   *)
(* (server.rs, ws_reply); the page tells the two apart by the status.      *)
(***************************************************************************)
CONSTANT Calls

VARIABLES made,    \* the calls a page has made
          handled, \* the calls the server has handled
          result   \* what the page got for each

vars == <<made, handled, result>>

Results == {"none", "answer", "refused", "failed"}
Waiting == {c \in made : result[c] = "none"}

Init == made = {} /\ handled = {} /\ result = [c \in Calls |-> "none"]

Make(c) == c \notin made /\ made' = made \union {c} /\ UNCHANGED <<handled, result>>

Handle(c) == /\ c \in made \ handled
             /\ result[c] # "refused"
             /\ handled' = handled \union {c}
             /\ UNCHANGED <<made, result>>

Answer(c) == /\ c \in Waiting \intersect handled
             /\ result' = [result EXCEPT ![c] = "answer"]
             /\ UNCHANGED <<made, handled>>

Refuse(c) == /\ c \in Waiting \ handled
             /\ result' = [result EXCEPT ![c] = "refused"]
             /\ UNCHANGED <<made, handled>>

\* A lost connection fails several calls in one step.
Fail(C) == /\ C # {} /\ C \subseteq Waiting
           /\ result' = [c \in Calls |-> IF c \in C THEN "failed" ELSE result[c]]
           /\ UNCHANGED <<made, handled>>

Next == \/ \E c \in Calls : Make(c) \/ Handle(c) \/ Answer(c) \/ Refuse(c)
        \/ \E C \in SUBSET Calls : Fail(C)

Spec == Init /\ [][Next]_vars
=============================================================================
