------------------------------ MODULE SmsPage ------------------------------
(***************************************************************************)
(* The SMS page, development/simpleadmin/www/js/pages/sms.js: the list of  *)
(* stored messages, polled every 5 s, with what the user ticked and opened *)
(* in it; the settings; deletions; sending.                                *)
(*                                                                         *)
(* Every call of the page is a flight: sent, handled by the server when it *)
(* comes to it, answered later, or failed at any time (WebApi.tla).  While *)
(* calls are in flight the user clicks, the poll timer ticks, the router   *)
(* shows another page and the module's store changes.                      *)
(*                                                                         *)
(* Abstracted: a stored message is an identity in a slot of a bank; sender,*)
(* date and text are the identity.  Time: a poll waits for a change to be  *)
(* seen twice, and for the segments of a long message at most HeldPolls    *)
(* polls (15 s).  Of the settings, sms_enabled.  Texts shown to the user   *)
(* are left out.                                                           *)
(***************************************************************************)
EXTENDS Naturals, Sequences, FiniteSets

CONSTANTS Messages,   \* identities of messages the module receives
          Slots,      \* indices of the module's store, of both banks
          MeSlots,    \* those of the ME bank, the others are the SIM's
          Stored,     \* the messages in store at first, newest first
          HeldPolls,  \* polls a change waits at most for missing segments
          MaxFlights, \* bound: calls in flight
          MaxEvents   \* bound: what the user does, and calls that fail

Texts == [slot : Slots, msg : Messages]
Distinct(l) == \A i, j \in DOMAIN l : l[i].msg = l[j].msg => i = j

ASSUME StoredAssumption == Stored \in Seq(Texts) /\ Distinct(Stored)
ASSUME BoundsAssumption == HeldPolls \in Nat /\ MaxFlights \in Nat \ {0} /\ MaxEvents \in Nat

VARIABLES view,     \* smsView
          active,   \* the page has the class "active"
          enabled,  \* smsEnabled
          loaded,   \* smsSettingsLoaded
          loading,  \* smsSettingsLoading
          saving,   \* smsSettingsSaving
          isLoading,
          shown,    \* messages, with messageIndices, senders and dates
          selected, \* selectedMessages: positions in shown
          detail,   \* activeMessageIndex: a position, 0 for null
          timer,    \* smsAutoRefreshTimer is set
          inFlight, \* smsAutoRefreshInFlight
          pend,     \* smsPending*: the change seen and how often
          flights,
          store,    \* the module's messages, newest first
          arrived,
          smsOn,    \* sms_enabled in the server's settings
          ticked,   \* history: the messages the user ticked and did not untick
          opened,   \* history: the message the user opened last
          events    \* clicks and failures so far

settings == <<enabled, loaded, loading, saving>>
marks == <<selected, detail, ticked, opened>>
list == <<shown, marks>>
poll == <<timer, inFlight, pend>>
outside == <<store, arrived, smsOn>>
vars == <<view, active, settings, isLoading, list, poll, flights, outside, events>>

-----------------------------------------------------------------------------

IndexSignature(l) == {l[i].slot : i \in DOMAIN l}
NoPend == [list |-> <<>>, count |-> 0]
PageActive == active /\ view = "inbox"

\* Calls.  A flight is handled once: its reply is "none" until then.
Ids == 1..MaxFlights
Free == Ids \ {f.id : f \in flights}
Call(kind, cont) ==
  [id |-> 1, kind |-> kind, cont |-> cont, on |-> FALSE, slots |-> {}, rest |-> {},
   reply |-> "none", list |-> <<>>]

Begin(f) == \E i \in Free : /\ \A j \in Free : i <= j
                            /\ flights' = flights \union {[f EXCEPT !.id = i]}
Swap(f, g) == flights' = (flights \ {f}) \union {[g EXCEPT !.id = f.id]}
End(f) == flights' = flights \ {f}

\* stopSMSAutoRefresh: what is in flight stays in flight.
StopAutoRefresh == timer' = FALSE /\ inFlight' = FALSE /\ pend' = NoPend

\* Mutant: the page is not asked whether it is still the one shown.
MayPollAnywhere(on) == on /\ loaded

MayPoll(on) == on /\ loaded /\ PageActive

ClearList == shown' = <<>> /\ selected' = {} /\ detail' = 0
ClearData == ClearList /\ pend' = NoPend

Init ==
  /\ view = "inbox" /\ active = TRUE
  /\ enabled = FALSE /\ loaded = FALSE /\ loading = TRUE /\ saving = FALSE
  /\ isLoading = FALSE
  /\ shown = <<>> /\ selected = {} /\ detail = 0
  /\ timer = FALSE /\ inFlight = FALSE /\ pend = NoPend
  /\ flights = {Call("settings", "load")}
  /\ store = Stored /\ arrived = {Stored[i].msg : i \in DOMAIN Stored}
  /\ smsOn \in BOOLEAN
  /\ ticked = {} /\ opened = {}
  /\ events = 0

Event == events < MaxEvents /\ events' = events + 1
InboxUsable == loaded /\ enabled /\ PageActive

-----------------------------------------------------------------------------
(* The list.                                                               *)

\* Mutant: the positions are kept, not the messages.
SamePositions(new, old, positions) == positions \intersect DOMAIN new

Restored(new, old, positions) ==
  {i \in DOMAIN new : \E j \in positions : new[i] = old[j]}

\* applySMSData, for a reply that is not "disabled".  A reply that reports an
\* error has no messages and is taken for an empty list.
Apply(new, keep) ==
  /\ shown' = new
  /\ selected' = IF keep THEN Restored(new, shown, selected) ELSE {}
  /\ LET again == IF keep /\ detail # 0 THEN Restored(new, shown, {detail}) ELSE {} IN
     detail' = IF again = {} THEN 0 ELSE CHOOSE i \in again : \A j \in again : i <= j
  /\ pend' = NoPend

Disabled == enabled' = FALSE /\ StopAutoRefresh /\ ClearList

\* The end of loadSmsSettings or saveSmsSettings, and of no one else.
Finish(cont) ==
  /\ loading' = (loading /\ cont # "load")
  /\ saving' = (saving /\ cont # "save")

\* The list that requestSMS waited for; loadSmsSettings and saveSmsSettings
\* go on to start the polling.
ListAnswered(f) ==
  /\ f.kind = "list" /\ f.reply # "none"
  /\ \/ f.reply = "disabled" /\ Disabled
     \/ /\ f.reply # "disabled"
        /\ Apply(f.list, FALSE)
        /\ timer' = (timer \/ (f.cont # "none" /\ MayPoll(enabled)))
        /\ UNCHANGED <<enabled, inFlight>>
  /\ isLoading' = FALSE
  /\ Finish(f.cont)
  /\ End(f)
  /\ UNCHANGED <<view, active, loaded, ticked, opened, outside, events>>

\* Mutant: the flags are reset on success only.
FinishNot(cont) == UNCHANGED <<loading, saving>>

\* A failure skips startSMSAutoRefresh: the catch of the settings, then finally.
FinishFailed(cont) == Finish(cont)

ListFailed(f) ==
  /\ f.kind = "list"
  /\ isLoading' = FALSE
  /\ FinishFailed(f.cont)
  /\ End(f)
  /\ UNCHANGED <<view, active, enabled, loaded, list, poll, outside>>

\* The page asks for the list again, for nobody who waits.
AskList(f) ==
  IF enabled THEN Swap(f, Call("list", "none")) /\ isLoading' = TRUE
             ELSE End(f) /\ UNCHANGED isLoading

-----------------------------------------------------------------------------
(* The settings.                                                           *)

\* init() of the refresh button, and the event of the router.
LoadSettings == IF loading \/ saving THEN UNCHANGED <<flights, loading>>
                ELSE loading' = TRUE /\ Begin(Call("settings", "load"))

Reload ==
  /\ Event /\ InboxUsable /\ Free # {}
  /\ ClearData
  /\ LoadSettings
  /\ UNCHANGED <<view, active, enabled, loaded, saving, isLoading, ticked, opened, timer,
                 inFlight, outside>>

\* Either switch: both save both settings.
SaveSettings ==
  /\ Event /\ active /\ loaded /\ ~saving /\ Free # {}
  /\ \E v \in BOOLEAN : enabled' = v /\ Begin([Call("save", "save") EXCEPT !.on = v])
  /\ saving' = TRUE
  /\ UNCHANGED <<view, active, loaded, loading, isLoading, list, poll, outside>>

\* The answer to either: shown, and then the list read or cleared.
SettingsAnswered(f) ==
  /\ f.kind \in {"settings", "save"} /\ f.reply = "ok"
  /\ enabled' = f.on
  /\ loaded' = TRUE
  /\ IF f.on
       THEN /\ Swap(f, Call("list", f.cont)) /\ isLoading' = TRUE
            /\ UNCHANGED <<loading, saving, list, poll>>
       ELSE /\ StopAutoRefresh /\ ClearList
            /\ Finish(f.cont) /\ End(f)
            /\ UNCHANGED <<isLoading, ticked, opened>>
  /\ UNCHANGED <<view, active, outside, events>>

\* An error status and a failed call end in the same catch.
SettingsFailed(f) ==
  /\ f.kind \in {"settings", "save"}
  /\ FinishFailed(f.cont)
  /\ End(f)
  /\ UNCHANGED <<view, active, enabled, loaded, isLoading, list, poll, outside>>

-----------------------------------------------------------------------------
(* The poll.                                                               *)

Tick ==
  /\ timer
  /\ IF ~PageActive \/ ~enabled
       THEN StopAutoRefresh /\ UNCHANGED flights
       ELSE /\ ~inFlight /\ ~isLoading /\ Free # {}
            /\ inFlight' = TRUE
            /\ Begin(Call("meta", "none"))
            /\ UNCHANGED <<timer, pend>>
  /\ UNCHANGED <<view, active, settings, isLoading, list, outside, events>>

\* Mutant: every poll takes what it sees for a new change.
SeenAnew(new) == [list |-> new, count |-> 1]

\* The change a poll sees: counted when it is the one seen before.
Seen(new) == IF pend.count > 0 /\ pend.list = new
             THEN [pend EXCEPT !.count = IF @ < HeldPolls THEN @ + 1 ELSE @]
             ELSE [list |-> new, count |-> 1]

MetaAnswered(f) ==
  /\ f.kind = "meta" /\ f.reply # "none"
  /\ \/ f.reply = "disabled" /\ Disabled /\ End(f)
     \/ /\ f.reply # "disabled"
        /\ UNCHANGED <<enabled, timer, shown, selected, detail>>
        /\ \/ ~PageActive /\ End(f) /\ inFlight' = FALSE /\ UNCHANGED pend
           \/ /\ PageActive
              /\ IndexSignature(f.list) = IndexSignature(shown)
              /\ pend' = NoPend /\ inFlight' = FALSE /\ End(f)
           \/ /\ PageActive
              /\ IndexSignature(f.list) # IndexSignature(shown)
              /\ pend' = Seen(f.list)
              \* Seen once, or segments missing: the next poll looks again.
              /\ \/ pend'.count < HeldPolls /\ inFlight' = FALSE /\ End(f)
                 \/ /\ pend'.count >= 2
                    /\ Swap(f, [Call("stable", "none") EXCEPT !.slots = IndexSignature(f.list)])
                    /\ UNCHANGED inFlight
  /\ UNCHANGED <<view, active, loaded, loading, saving, isLoading, ticked, opened, outside,
                 events>>

\* fetchStableSMSList: the list itself, if it is the one expected.
StableAnswered(f) ==
  /\ f.kind = "stable" /\ f.reply # "none"
  /\ LET signature == IndexSignature(f.list) IN
     \/ ~PageActive /\ UNCHANGED <<enabled, shown, selected, detail, timer, pend>>
     \/ /\ PageActive /\ signature = IndexSignature(shown)
        /\ pend' = NoPend /\ UNCHANGED <<enabled, shown, selected, detail, timer>>
     \/ /\ PageActive /\ signature # IndexSignature(shown)
        /\ f.slots # {} /\ signature # f.slots
        /\ pend' = [list |-> f.list, count |-> 1]
        /\ UNCHANGED <<enabled, shown, selected, detail, timer>>
     \/ /\ PageActive /\ signature # IndexSignature(shown)
        /\ f.slots = {} \/ signature = f.slots
        /\ IF f.reply = "disabled"
             THEN enabled' = FALSE /\ timer' = FALSE /\ pend' = NoPend /\ ClearList
             ELSE Apply(f.list, TRUE) /\ UNCHANGED <<enabled, timer>>
  /\ inFlight' = FALSE
  /\ End(f)
  /\ UNCHANGED <<view, active, loaded, loading, saving, isLoading, ticked, opened, outside,
                 events>>

\* "Keep the timer alive; the next interval can retry."
PollFailed(f) ==
  /\ f.kind \in {"meta", "stable"}
  /\ inFlight' = FALSE
  /\ End(f)
  /\ UNCHANGED <<view, active, settings, isLoading, list, timer, pend, outside>>

-----------------------------------------------------------------------------
(* The user.                                                               *)

\* A row is hidden while the list is loading.
Tickable == InboxUsable /\ ~isLoading

TickBox(i) ==
  /\ Event /\ Tickable /\ i \in DOMAIN shown
  /\ IF i \in selected
       THEN selected' = selected \ {i} /\ ticked' = ticked \ {shown[i].msg}
       ELSE selected' = selected \union {i} /\ ticked' = ticked \union {shown[i].msg}
  /\ UNCHANGED <<view, active, settings, isLoading, shown, detail, opened, poll, flights,
                 outside>>

ToggleAll(checked) ==
  /\ Event /\ InboxUsable /\ shown # <<>>
  /\ selected' = IF checked THEN DOMAIN shown ELSE {}
  /\ ticked' = IF checked THEN {shown[i].msg : i \in DOMAIN shown} ELSE {}
  /\ UNCHANGED <<view, active, settings, isLoading, shown, detail, opened, poll, flights,
                 outside>>

OpenDetail(i) ==
  /\ Event /\ Tickable /\ i \in DOMAIN shown
  /\ detail' = i /\ opened' = {shown[i].msg}
  /\ UNCHANGED <<view, active, settings, isLoading, shown, selected, ticked, poll, flights,
                 outside>>

CloseDetail ==
  /\ detail # 0 /\ detail' = 0
  /\ UNCHANGED <<view, active, settings, isLoading, shown, selected, ticked, opened, poll,
                 flights, outside, events>>

\* One call for each bank that holds a ticked message.
Chosen == {shown[i].slot : i \in selected}
Banks(chosen) == {chosen \intersect MeSlots, chosen \ MeSlots} \ {{}}

DeleteSelected ==
  /\ Event /\ InboxUsable /\ selected # {} /\ Free # {}
  /\ IF selected = DOMAIN shown
       THEN Begin(Call("deleteAll", "none"))
       ELSE \E first \in Banks(Chosen) :
              Begin([Call("delete", "none") EXCEPT !.slots = first, !.rest = Chosen \ first])
  /\ UNCHANGED <<view, active, settings, isLoading, list, poll, outside>>

\* The answer's own error is not looked at.  The second bank, or the end.
DeleteAnswered(f) ==
  /\ f.kind = "delete" /\ f.reply # "none"
  /\ IF f.rest # {}
       THEN /\ Swap(f, [Call("delete", "none") EXCEPT !.slots = f.rest])
            /\ UNCHANGED <<selected, isLoading>>
       ELSE selected' = {} /\ AskList(f)
  /\ UNCHANGED <<view, active, settings, shown, detail, ticked, opened, poll, outside,
                 events>>

DeleteFailed(f) ==
  /\ f.kind = "delete"
  /\ selected' = {} /\ AskList(f)
  /\ UNCHANGED <<view, active, settings, shown, detail, ticked, opened, poll, outside>>

\* finally { init() }
DeleteAllSettled(f) ==
  /\ f.kind = "deleteAll"
  /\ ClearData
  /\ IF loading \/ saving
       THEN End(f) /\ UNCHANGED loading
       ELSE loading' = TRUE /\ Swap(f, Call("settings", "load"))
  /\ UNCHANGED <<view, active, enabled, loaded, saving, isLoading, ticked, opened, timer,
                 inFlight, outside>>

SelectView(v) ==
  /\ Event /\ active /\ Free # {}
  /\ view' = v
  /\ detail' = 0
  /\ IF v = "inbox"
       THEN /\ IF enabled THEN Begin(Call("list", "none")) /\ isLoading' = TRUE
                          ELSE UNCHANGED <<flights, isLoading>>
            /\ timer' = (timer \/ (enabled /\ loaded))
            /\ UNCHANGED <<inFlight, pend>>
       ELSE StopAutoRefresh /\ UNCHANGED <<flights, isLoading>>
  /\ UNCHANGED <<active, settings, shown, selected, ticked, opened, outside>>

\* simpleadmin:page-changed, for another page and back.
LeavePage ==
  /\ Event /\ active
  /\ active' = FALSE
  /\ StopAutoRefresh
  /\ detail' = 0
  /\ UNCHANGED <<view, settings, isLoading, shown, selected, ticked, opened, flights, outside>>

EnterPage ==
  /\ ~active /\ Free # {}
  /\ active' = TRUE
  /\ LoadSettings
  /\ UNCHANGED <<view, enabled, loaded, saving, isLoading, list, poll, outside, events>>

\* sendSMS asks for the SIM first; a question that fails does not stop it.
SendSms ==
  /\ Event /\ loaded /\ enabled /\ active /\ view = "compose" /\ Free # {}
  /\ Begin(Call("sim", "none"))
  /\ UNCHANGED <<view, active, settings, isLoading, list, poll, outside>>

SimAnswered(f) ==
  /\ f.kind = "sim" /\ f.reply # "none"
  /\ Swap(f, Call("send", "none")) \/ End(f)
  /\ UNCHANGED <<view, active, settings, isLoading, list, poll, outside, events>>

SimFailed(f) ==
  /\ f.kind = "sim"
  /\ Swap(f, Call("send", "none"))
  /\ UNCHANGED <<view, active, settings, isLoading, list, poll, outside>>

SendAnswered(f) ==
  /\ f.kind = "send" /\ f.reply # "none"
  /\ End(f)
  /\ UNCHANGED <<view, active, settings, isLoading, list, poll, outside, events>>

SendFailed(f) ==
  /\ f.kind = "send"
  /\ End(f)
  /\ UNCHANGED <<view, active, settings, isLoading, list, poll, outside>>

-----------------------------------------------------------------------------
(* The server and the module.                                              *)

Reads == {"list", "meta", "stable"}

\* A list without what is gone: the others move up.
Place(left, i) == Cardinality({j \in left : j <= i})
Without(l, gone) ==
  LET left == {i \in DOMAIN l : l[i].slot \notin gone} IN
  [n \in 1..Cardinality(left) |-> l[CHOOSE i \in left : Place(left, i) = n]]

Handled(f) ==
  CASE f.kind \in Reads /\ smsOn -> [f EXCEPT !.reply = "ok", !.list = store]
    [] f.kind \in Reads /\ ~smsOn -> [f EXCEPT !.reply = "disabled"]
    [] f.kind = "settings" -> [f EXCEPT !.reply = "ok", !.on = smsOn]
    [] f.kind = "save" -> [f EXCEPT !.reply = "ok"]
    [] OTHER -> [f EXCEPT !.reply = IF smsOn THEN "ok" ELSE "error"]

ServerHandles(f) ==
  /\ f.reply = "none"
  /\ flights' = (flights \ {f}) \union {Handled(f)}
  /\ smsOn' = IF f.kind = "save" THEN f.on ELSE smsOn
  /\ store' = CASE f.kind = "delete" /\ smsOn -> Without(store, f.slots)
                [] f.kind = "deleteAll" /\ smsOn -> <<>>
                [] OTHER -> store
  /\ UNCHANGED <<view, active, settings, isLoading, list, poll, arrived, events>>

\* The server answers with an error status: the body has no messages.
ServerFails(f) ==
  /\ Event /\ f.reply = "none" /\ f.kind \notin {"settings", "save"}
  /\ flights' = (flights \ {f}) \union {[f EXCEPT !.reply = "error"]}
  /\ UNCHANGED <<view, active, settings, isLoading, list, poll, outside>>

Arrives(m) ==
  /\ m \notin arrived
  /\ \E s \in Slots \ IndexSignature(store) : store' = <<[slot |-> s, msg |-> m]>> \o store
  /\ arrived' = arrived \union {m}
  /\ UNCHANGED <<view, active, settings, isLoading, list, poll, flights, smsOn,
                 events>>

-----------------------------------------------------------------------------

Answered(f) == \/ ListAnswered(f) \/ SettingsAnswered(f) \/ MetaAnswered(f)
               \/ StableAnswered(f) \/ DeleteAnswered(f) \/ SimAnswered(f) \/ SendAnswered(f)
               \/ f.reply # "none" /\ DeleteAllSettled(f) /\ UNCHANGED events

FailedCall(f) == /\ Event
                 /\ \/ ListFailed(f) \/ SettingsFailed(f) \/ PollFailed(f) \/ DeleteFailed(f)
                    \/ DeleteAllSettled(f) \/ SimFailed(f) \/ SendFailed(f)

User == \/ Reload \/ SaveSettings \/ DeleteSelected \/ LeavePage \/ EnterPage \/ CloseDetail
        \/ SendSms
        \/ \E i \in 1..Len(shown) : TickBox(i) \/ OpenDetail(i)
        \/ \E b \in BOOLEAN : ToggleAll(b)
        \/ \E v \in {"inbox", "compose"} : SelectView(v)

Next == \/ User \/ Tick
        \/ \E f \in flights : Answered(f) \/ FailedCall(f) \/ ServerHandles(f) \/ ServerFails(f)
        \/ \E m \in Messages : Arrives(m)

Spec == Init /\ [][Next]_vars

\* Calls are settled (WebApi, EveryCallSettles) and the interval ticks.
LiveSpec == /\ Spec
            /\ WF_vars(Tick)
            /\ \A i \in Ids : WF_vars(\E f \in flights : f.id = i /\ (Answered(f) \/ ServerHandles(f)))

-----------------------------------------------------------------------------

\* A list that is replaced under the user's hands keeps the marks on the
\* messages they were made on: what a deletion names, or the dialog shows,
\* is never a message that moved into the place of another.
MarksFollowMessages ==
  /\ selected \subseteq DOMAIN shown
  /\ \A i \in selected : shown[i].msg \in ticked
  /\ detail # 0 => detail \in DOMAIN shown /\ shown[detail].msg \in opened

\* The page polls only while it is the one shown, also when it was left with
\* its settings or its list still in flight.
QuietElsewhere == timer => PageActive

\* The switches and the list come free again, whatever fails.
BusyEnds == /\ loading ~> ~loading
            /\ saving ~> ~saving
            /\ isLoading ~> ~isLoading

\* While the polls go on, the list comes to show the indices in the module's
\* store, through stale answers, errors taken for empty lists and overlapping
\* polls.  (A message that replaces another at the same index is not seen.)
InboxConverges == <>[](timer /\ enabled /\ smsOn => IndexSignature(shown) = IndexSignature(store))
-----------------------------------------------------------------------------
(* The invariant the proofs rest on (SmsPageProofs).                       *)

Lists == {l \in Seq(Texts) : Distinct(l)}
Kinds == {"settings", "save", "list", "meta", "stable", "delete", "deleteAll", "sim", "send"}
Calls == [id : Ids, kind : Kinds, cont : {"none", "load", "save"}, on : BOOLEAN,
          slots : SUBSET Slots, rest : SUBSET Slots,
          reply : {"none", "ok", "error", "disabled"}, list : Lists]

TypeOK ==
  /\ view \in {"inbox", "compose"} /\ active \in BOOLEAN
  /\ enabled \in BOOLEAN /\ loaded \in BOOLEAN /\ loading \in BOOLEAN /\ saving \in BOOLEAN
  /\ isLoading \in BOOLEAN
  /\ shown \in Lists /\ selected \subseteq Nat /\ detail \in Nat
  /\ timer \in BOOLEAN /\ inFlight \in BOOLEAN /\ pend \in [list : Lists, count : Nat]
  /\ flights \subseteq Calls
  /\ store \in Lists /\ arrived \subseteq Messages /\ smsOn \in BOOLEAN
  /\ ticked \subseteq Messages /\ opened \subseteq Messages /\ events \in Nat

\* What is in store has arrived: a message that arrives is in no list yet.
StoreHasArrived == \A i \in DOMAIN store : store[i].msg \in arrived

IndInv == TypeOK /\ StoreHasArrived /\ MarksFollowMessages /\ QuietElsewhere
=============================================================================
