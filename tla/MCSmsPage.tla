----------------------------- MODULE MCSmsPage -----------------------------
(* SmsPage on a small instance: two messages in store, one of each bank. *)
EXTENDS SmsPage
CONSTANTS m1, m2, m3, me1, me2, sm1
ThreeMessages == {m1, m2, m3}
ThreeSlots == {me1, me2, sm1}
TwoMe == {me1, me2}
TwoStored == <<[slot |-> me1, msg |-> m1], [slot |-> sm1, msg |-> m2]>>
=============================================================================
