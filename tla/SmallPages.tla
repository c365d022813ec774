----------------------------- MODULE SmallPages -----------------------------
(***************************************************************************)
(* The pages that poll while they are shown: the dashboard (pages/index.js)*)
(* and its monitor (monitor.js), the events (pages/events.js), the AT      *)
(* queue (pages/atqueue.js), the notifications (pages/forwarding.js), the  *)
(* device information (pages/deviceinfo.js); and the router that shows and *)
(* leaves pages (simpleadmin-spa.js). All under                            *)
(* development/simpleadmin/www/js/.                                        *)
(*                                                                         *)
(* Abstracted: what a page shows is one value that changes on the server;  *)
(* delays are left out; the router has a few views of the real thirteen.   *)
(***************************************************************************)
EXTENDS PageCalls, FiniteSets

CONSTANTS Views,      \* views of the router, "dashboard" one of them
          GroupOf,    \* their groups
          MaxHistory  \* bound: addresses in the browser's history

ASSUME GroupsAssumption == DOMAIN GroupOf = Views
ASSUME ViewsAssumption == "dashboard" \in Views /\ "" \notin Views

Tickers == {"dashboard", "deviceinfo"}
Refreshers == {"events", "atqueue"}
Polling == Tickers \union Refreshers \union {"notify", "monitor"}
SmallPanels == Polling \union {"router"}

\* hidden: the tab is in the background.
Visible(p) == active /\ ~p.hidden

-----------------------------------------------------------------------------
(* Dashboard and device information: one request at a time.                *)

\* timer: the interval of the dashboard, the next refresh of the other.
TickerPage == [shown |-> Unknown, busy |-> FALSE, timer |-> FALSE, hidden |-> FALSE]

\* stopDashboardRefresh, stopDeviceInfoRefresh, and the clearTimeout of others.
Stopped(p) == [p EXCEPT !.timer = FALSE]

\* Mutant: the dashboard asks in a hidden tab too.
FetchHidden(p) == ~p.busy

\* Never stack requests: a call under way is waited for.
FetchNetworkInfo(p) == ~p.busy /\ ~p.hidden
FetchDeviceInfo(p) == ~p.busy

Fetches(p) == IF panel = "dashboard" THEN FetchNetworkInfo(p) ELSE FetchDeviceInfo(p)
Fetched(p) == IF Fetches(p) THEN [p EXCEPT !.busy = TRUE] ELSE p
FetchCalls(p) == IF Fetches(p) THEN <<Read("fetch")>> ELSE <<>>

\* startDashboardRefresh asks at once when it was stopped; an answer of the
\* device page sets its timer.
StartTicking(p) ==
  CASE panel = "dashboard" /\ active -> [next |-> [p EXCEPT !.timer = TRUE], calls |-> <<>>]
    [] panel = "dashboard" /\ ~active -> [next |-> [Fetched(p) EXCEPT !.timer = TRUE], calls |-> FetchCalls(p)]
    [] OTHER -> LET q == [p EXCEPT !.timer = FALSE] IN [next |-> Fetched(q), calls |-> FetchCalls(q)]

TickerTimerFires ==
  /\ page.timer /\ active /\ Room(1)
  /\ page' = [Fetched(page) EXCEPT !.timer = panel = "dashboard"]
  /\ Send(FetchCalls(page))
  /\ Page

\* Mutant: the flag is reset by an answer only.
Unfinished(p) == p

\* The finally of both: the next request may go.
Finished(p) == [p EXCEPT !.busy = FALSE, !.timer = IF panel = "dashboard" THEN @ ELSE active]

TickerAnswered ==
  /\ Reply("fetch")
  /\ page' = [Finished([page EXCEPT !.busy = FALSE]) EXCEPT
                !.shown = IF active \/ panel = "deviceinfo" THEN Head(answers).snap.now ELSE @]
  /\ Done(<<>>)
  /\ Page

\* The dashboard alone looks again when the tab returns.
TickerHidden(p) ==
  LET q == [p EXCEPT !.hidden = ~@] IN
  IF panel = "dashboard" /\ active THEN [next |-> Fetched(q), calls |-> FetchCalls(q)]
  ELSE [next |-> q, calls |-> <<>>]

-----------------------------------------------------------------------------
(* Events and AT queue: each refresh clears the timer set last; those of    *)
(* other refreshes, strays, go on.                                          *)

RefresherPage == [shown |-> Unknown, timer |-> FALSE, strays |-> 0, paused |-> FALSE, hidden |-> FALSE]

Wanted(p) == Visible(p) /\ ~p.paused
Refreshed(p) == [p EXCEPT !.timer = FALSE]

EventsRefresh(p, shown) == IF shown /\ ~p.hidden THEN <<Read("events")>> ELSE <<>>
QueueRefresh(p, shown) == IF shown /\ ~p.hidden /\ ~p.paused THEN <<Read("at_queue")>> ELSE <<>>
RefreshCalls(p, shown) == IF panel = "events" THEN EventsRefresh(p, shown) ELSE QueueRefresh(p, shown)

\* The finally of refresh.
EventsAgain(p) ==
  IF ~Wanted(p) THEN p
  ELSE [p EXCEPT !.timer = TRUE, !.strays = IF p.timer THEN @ + 1 ELSE @]

RefreshAnswered ==
  /\ Reply("events") \/ Reply("at_queue")
  /\ page' = EventsAgain([page EXCEPT !.shown = Head(answers).snap.now])
  /\ Done(<<>>)
  /\ Page

RefreshTimerFires ==
  /\ Room(1)
  /\ \/ page.timer /\ page' = Refreshed(page)
     \/ page.strays > 0 /\ page' = Refreshed([page EXCEPT !.strays = @ - 1])
  /\ Send(RefreshCalls(page, active))
  /\ Page

\* The AT queue's button; the list of events cleared.
Pause ==
  /\ User /\ panel = "atqueue" /\ Room(1)
  /\ LET q == [page EXCEPT !.paused = ~@] IN
     IF q.paused THEN page' = q /\ SendNothing ELSE page' = Refreshed(q) /\ Send(QueueRefresh(q, active))

ClearEvents == User /\ panel = "events" /\ active /\ Room(1) /\ UNCHANGED page /\ Send(<<Read("events_clear")>>)

EventsCleared ==
  /\ Reply("events_clear")
  /\ page' = Refreshed(page)
  /\ Done(EventsRefresh(page, active))
  /\ Page

-----------------------------------------------------------------------------
(* Notifications: the form is loaded once and sent whole, with the flags of *)
(* the SMS page as the server has them at that moment.                      *)

NotifyPage == [form |-> Unknown, loaded |-> FALSE, dirty |-> FALSE, flag |-> Unknown,
               loading |-> FALSE, busy |-> FALSE, testing |-> FALSE, timer |-> FALSE, hidden |-> FALSE]

NotifyServer == [form |-> Initially, flag |-> Initially]

NotifyRefresh(p) == IF p.loading \/ p.busy THEN <<>> ELSE <<Read("config")>>
NotifyAsked(p) == IF p.busy THEN p ELSE [p EXCEPT !.loading = TRUE]

Apply(p, snap, form) ==
  LET q == [p EXCEPT !.flag = snap.flag] IN
  IF form THEN [q EXCEPT !.form = snap.form, !.loaded = TRUE, !.dirty = FALSE] ELSE q

ConfigAnswered ==
  /\ Reply("config")
  /\ page' = [Apply(page, Head(answers).snap, ~page.loaded) EXCEPT !.loading = FALSE]
  /\ Done(<<Read("probe")>>)
  /\ Page

ProbeAnswered == Reply("probe") /\ UNCHANGED page /\ Done(<<>>) /\ Page

Changed ==
  /\ User /\ panel = "notify" /\ page.loaded /\ ~page.busy
  /\ \E v \in Values : page' = [page EXCEPT !.form = v, !.dirty = TRUE]
  /\ SendNothing

SaveNotify ==
  /\ User /\ panel = "notify" /\ ~page.busy /\ page.dirty /\ Room(1)
  /\ page' = [page EXCEPT !.busy = TRUE]
  /\ Send(<<Read("current")>>)

\* The second call of save: what the form holds now.
CurrentAnswered ==
  /\ Reply("current")
  /\ page' = [page EXCEPT !.flag = Head(answers).snap.flag]
  /\ Done(<<Call("save", <<page.form, Head(answers).snap.flag>>)>>)
  /\ Page

NotifySaved ==
  /\ Reply("save")
  /\ LET a == Head(answers) IN
     page' = [(IF a.ok THEN Apply(page, a.snap, TRUE) ELSE page) EXCEPT !.busy = FALSE]
  /\ Done(<<>>)
  /\ Page

TestChannel ==
  /\ User /\ panel = "notify" /\ ~page.busy /\ ~page.dirty /\ ~page.testing /\ page.loaded /\ Room(1)
  /\ page' = [page EXCEPT !.testing = TRUE]
  /\ Send(<<Read("test")>>)

\* The refresh after a test, whatever came of it.
Tested(p) == NotifyAsked([p EXCEPT !.testing = FALSE])
ChannelTested == Reply("test") /\ page' = Tested(page) /\ Done(NotifyRefresh(page)) /\ Page

NotifyTimerFires ==
  /\ page.timer /\ Room(1)
  /\ page' = NotifyAsked(page) /\ Send(NotifyRefresh(page))
  /\ Page

OtherPageSaves ==
  /\ panel = "notify" /\ events < Budget[panel] /\ events' = events + 1
  /\ \E v \in Values : server' \in {[server EXCEPT !.form = v], [server EXCEPT !.flag = v]}
  /\ Elsewhere

NotifyHandled(c, done) ==
  IF c.kind = "save" /\ done THEN [form |-> c.val[1], flag |-> c.val[2]] ELSE server
NotifyFailed(c) == CASE c.kind = "config" -> [page EXCEPT !.loading = FALSE]
                     [] c.kind \in {"current", "save"} -> [page EXCEPT !.busy = FALSE]
                     [] c.kind = "test" -> Tested(page)
                     [] OTHER -> page

-----------------------------------------------------------------------------
(* The monitor: polls of the samples since a cursor, which a save of the    *)
(* target or of the schedule cancels.                                       *)

MonitorPage == [gen |-> 0, cursor |-> FALSE, samples |-> {}, form |-> Initially, dirty |-> FALSE,
                saving |-> FALSE, busy |-> FALSE, timer |-> FALSE, hidden |-> FALSE]

\* Another target begins another generation; samples: the generations of the
\* latency samples kept.
MonitorServer == [target |-> Initially, gen |-> 0, samples |-> {}]

Poll(p) == Call("telemetry", IF p.cursor THEN {p.gen} ELSE {})
Asking(p) == [p EXCEPT !.busy = TRUE, !.timer = FALSE]
Stop(p) == [p EXCEPT !.timer = FALSE, !.busy = FALSE]
\* There is one poll under way at most: busy.
Kept(sequence) ==
  IF \E i \in DOMAIN sequence : sequence[i].kind = "telemetry"
  THEN RemoveAt(sequence, CHOOSE i \in DOMAIN sequence : sequence[i].kind = "telemetry") ELSE sequence

\* The server answers with what is new since a cursor of its generation.
IsDelta(a) == a.kind = "telemetry" /\ a.val = {a.snap.gen}

\* Mutant: the samples on the page stay whatever the answer is.
MergeAlways(p, a) == p.samples \union a.snap.samples

MergeSnapshot(p, a) ==
  IF IsDelta(a) /\ p.cursor /\ p.gen = a.snap.gen THEN p.samples \union a.snap.samples ELSE a.snap.samples

Update(p, a) ==
  [p EXCEPT !.samples = MergeSnapshot(p, a), !.gen = a.snap.gen, !.cursor = TRUE,
            !.form = IF p.dirty THEN @ ELSE a.snap.target]

\* The finally of refresh.
PollAgain(p) == [p EXCEPT !.busy = FALSE, !.timer = Visible(p)]

SamplesAnswered ==
  /\ Reply("telemetry")
  /\ page' = PollAgain(Update(page, Head(answers)))
  /\ Done(<<>>)
  /\ Page

MonitorTimerFires == page.timer /\ Room(1) /\ page' = Asking(page) /\ Send(<<Poll(page)>>) /\ Page

EditTarget ==
  /\ User /\ panel = "monitor"
  /\ \E v \in Values : page' = [page EXCEPT !.form = v, !.dirty = TRUE]
  /\ SendNothing

\* saveTarget and saveSchedule: requestEpoch and stop() give up a poll under way.
SaveTarget ==
  /\ User /\ panel = "monitor" /\ ~page.saving
  /\ page' = [Stop(page) EXCEPT !.saving = TRUE]
  /\ \E kind \in {"target", "schedule"} : flights' = Append(Kept(flights), Call(kind, page.form))
  /\ answers' = Kept(answers)

\* The finally of both: refresh.
Saved(p) == LET q == [p EXCEPT !.saving = FALSE] IN IF Visible(q) THEN Asking(q) ELSE q
SavedCalls(p) == IF Visible(p) THEN <<Poll(p)>> ELSE <<>>

TargetSaved ==
  /\ Reply("target") \/ Reply("schedule")
  /\ LET a == Head(answers)
         p == IF a.ok THEN Update([page EXCEPT !.dirty = @ /\ a.kind # "target"], a) ELSE page IN
     page' = Saved(p) /\ Done(SavedCalls(p))
  /\ Page

\* visibility(): a poll under way is given up and its finally sets the timer.
Visibility(p, shown) ==
  IF p.busy \/ ~shown \/ p.saving
  THEN [next |-> [Stop(p) EXCEPT !.timer = p.busy /\ shown], calls |-> <<>>]
  ELSE [next |-> Asking(p), calls |-> <<Poll(p)>>]

MonitorHandled(c, done) ==
  IF c.kind = "target" /\ done /\ c.val # server.target
  THEN [target |-> c.val, gen |-> server.gen + 1, samples |-> {}] ELSE server

Sampled ==
  /\ panel = "monitor" /\ server.samples = {}
  /\ server' = [server EXCEPT !.samples = {server.gen}]
  /\ UNCHANGED <<panel, page, calls, active, bounds>>

-----------------------------------------------------------------------------
(* The router, with the browser's history as its server.                    *)

Addresses == Views \union {"", "gone"}
NormalizeView(hash) == IF hash \in Views THEN hash ELSE "dashboard"

\* switches is history: pages switched since the address changed by itself.
Browser == [history : [1..1 -> Addresses], at : {1}, follows : {0}, switches : {0}]
RouterPage == [view |-> "dashboard", last |-> [g \in Range(GroupOf) |-> Unknown], hidden |-> FALSE]

Address(b) == b.history[b.at]
Pushed(b, v) == [b EXCEPT !.history = Append(SubSeq(@, 1, b.at), v), !.at = @ + 1]
Replaced(b, v) == [b EXCEPT !.history[b.at] = v]

\* updateAddressHash
UpdateAddressHash(b, v, replace) ==
  IF Address(b) = v THEN b ELSE IF replace THEN Replaced(b, v) ELSE Pushed(b, v)

Showing(v) == [page EXCEPT !.view = v, !.last[GroupOf[v]] = v]

ShowPage(v) ==
  /\ page' = Showing(v) /\ server' = UpdateAddressHash(server, v, FALSE)
  /\ UNCHANGED <<panel, calls, active, failures>>

RouterEvent == panel = "router" /\ server.at < MaxHistory /\ events < Budget[panel] /\ events' = events + 1

ClickLink == RouterEvent /\ \E v \in Views : ShowPage(v)

\* A tab opens what its group showed last, or the first view of the group.
ShowGroup ==
  /\ RouterEvent
  /\ \E g \in Range(GroupOf) :
       ShowPage(IF page.last[g] # Unknown THEN page.last[g] ELSE CHOOSE v \in Views : GroupOf[v] = g)

\* Back, forward, or an address typed: popstate and hashchange follow.
AddressChanges ==
  /\ RouterEvent
  /\ \E b \in {[server EXCEPT !.at = i] : i \in DOMAIN server.history}
                \union {Pushed(server, hash) : hash \in Addresses} :
       /\ Address(b) # Address(server)
       /\ server' = [b EXCEPT !.follows = 2, !.switches = 0]
  /\ UNCHANGED <<panel, page, calls, active, failures>>

\* Mutant: nothing to do when the view is shown.
Unfollowed(b, hash) == b

\* An unknown address while the overview is shown: correct the address bar only.
Corrected(b, hash) == IF hash \notin {"", page.view} THEN Replaced(b, page.view) ELSE b

FollowAddress ==
  /\ panel = "router" /\ server.follows > 0
  /\ LET hash == Address(server)
         v == NormalizeView(hash)
         b == [server EXCEPT !.follows = @ - 1] IN
     IF v = page.view THEN page' = page /\ server' = Corrected(b, hash)
     ELSE /\ page' = Showing(v)
          /\ server' = [(IF hash = v THEN b ELSE UpdateAddressHash(b, v, TRUE)) EXCEPT !.switches = @ + 1]
  /\ UNCHANGED <<panel, calls, active, bounds>>

-----------------------------------------------------------------------------
(* What the panels share. *)

PageServer == [now |-> Initially]

\* What the server has to show changes.
ServerChanges ==
  /\ panel \in Tickers \union Refreshers /\ events < Budget[panel] /\ events' = events + 1
  /\ \E v \in Values : server' = [now |-> v]
  /\ Elsewhere

\* page-changed: this page is shown (once more), or another one.
EnterPage ==
  /\ panel \in Polling /\ events < Budget[panel] /\ events' = events + 1 /\ Room(1)
  /\ active' = TRUE
  /\ CASE panel \in Tickers -> page' = StartTicking(page).next /\ Send(StartTicking(page).calls)
       [] panel \in Refreshers -> page' = Refreshed(page) /\ Send(RefreshCalls(page, TRUE))
       [] panel = "notify" -> page' = [NotifyAsked(page) EXCEPT !.timer = TRUE] /\ Send(NotifyRefresh(page))
       [] panel = "monitor" -> LET v == Visibility(page, ~page.hidden) IN
                               /\ page' = v.next /\ flights' = Kept(flights) \o v.calls
                               /\ answers' = Kept(answers)
  /\ UNCHANGED <<panel, server, failures>>

LeavePage ==
  /\ panel \in Polling /\ active /\ events < Budget[panel] /\ events' = events + 1
  /\ active' = FALSE
  /\ IF panel = "monitor"
     THEN page' = Stop(page) /\ flights' = Kept(flights) /\ answers' = Kept(answers)
     ELSE page' = Stopped(page) /\ SendNothing
  /\ UNCHANGED <<panel, server, failures>>

\* visibilitychange
HideOrShow ==
  /\ User /\ panel \in Polling /\ Room(1)
  /\ LET q == [page EXCEPT !.hidden = ~@] IN
     CASE panel \in Tickers -> page' = TickerHidden(page).next /\ Send(TickerHidden(page).calls)
       [] panel \in Refreshers -> page' = Refreshed(q) /\ Send(RefreshCalls(q, active))
       [] panel = "notify" -> page' = q /\ SendNothing
       [] panel = "monitor" -> LET v == Visibility(q, Visible(q)) IN
                               /\ page' = v.next /\ flights' = Kept(flights) \o v.calls
                               /\ answers' = Kept(answers)

PageHandled(c, done) == CASE panel = "notify" -> NotifyHandled(c, done)
                        [] panel = "monitor" -> MonitorHandled(c, done)
                        [] OTHER -> server

\* A save may be answered with an error though the file was written and the change is in
\* force (committed).
PageHandles(i) ==
  LET c == flights[i] IN
  \E ok, done \in BOOLEAN :
    /\ \/ ok /\ done /\ UNCHANGED bounds
       \/ ~ok /\ c.kind \in {"save", "test", "target", "schedule"} /\ Mishap
    /\ Handle(i, ok, PageHandled(c, done))

MayLinger(c) == c.kind \in {"save", "target", "schedule"}

PageFails(i) ==
  LET c == flights[i] IN
  /\ Mishap
  /\ CASE panel \in Tickers -> GiveUp(i, FALSE, Finished(page), <<>>)
       [] panel \in Refreshers ->
            IF c.kind = "events_clear" THEN GiveUp(i, FALSE, Refreshed(page), EventsRefresh(page, active))
            ELSE GiveUp(i, FALSE, EventsAgain(page), <<>>)
       [] panel = "notify" -> GiveUp(i, MayLinger(c), NotifyFailed(c),
                                     CASE c.kind = "config" -> <<Read("probe")>>
                                       [] c.kind = "test" -> NotifyRefresh(page) [] OTHER -> <<>>)
       [] panel = "monitor" -> IF c.kind = "telemetry" THEN GiveUp(i, FALSE, PollAgain(page), <<>>)
                               ELSE GiveUp(i, TRUE, Saved(page), SavedCalls(page))

\* The page was just mounted: its init() has asked once.
PagesInit ==
  /\ panel \in SmallPanels
  /\ page = (CASE panel \in Tickers -> [TickerPage EXCEPT !.busy = TRUE, !.timer = panel = "dashboard"]
               [] panel \in Refreshers -> RefresherPage
               [] panel = "notify" -> [NotifyPage EXCEPT !.loading = TRUE, !.timer = TRUE]
               [] panel = "monitor" -> Asking(MonitorPage)
               [] panel = "router" -> RouterPage)
  /\ flights = (CASE panel \in Tickers -> <<Read("fetch")>>
                  [] panel \in Refreshers -> RefreshCalls(page, TRUE)
                  [] panel = "notify" -> <<Read("config")>>
                  [] panel = "monitor" -> <<Poll(page)>>
                  [] panel = "router" -> <<>>)
  /\ IF panel = "router" THEN server \in Browser /\ Address(server) \in {"", "dashboard"}
     ELSE server = (CASE panel = "notify" -> NotifyServer [] panel = "monitor" -> MonitorServer
                      [] OTHER -> PageServer)
  /\ answers = <<>> /\ active = TRUE /\ failures = 0 /\ events = 0

PageAnswer == \/ panel \in Tickers /\ TickerAnswered
              \/ panel \in Refreshers /\ (RefreshAnswered \/ EventsCleared)
              \/ panel = "notify" /\ (ConfigAnswered \/ ProbeAnswered \/ CurrentAnswered
                                      \/ NotifySaved \/ ChannelTested)
              \/ panel = "monitor" /\ (SamplesAnswered \/ TargetSaved)

PageTimers == \/ panel \in Tickers /\ TickerTimerFires
              \/ panel \in Refreshers /\ RefreshTimerFires
              \/ panel = "notify" /\ NotifyTimerFires
              \/ panel = "monitor" /\ MonitorTimerFires

PagesNext ==
  \/ PageAnswer \/ PageTimers \/ Pause \/ ClearEvents \/ Changed \/ SaveNotify \/ TestChannel
  \/ OtherPageSaves \/ EditTarget \/ SaveTarget \/ Sampled \/ ServerChanges
  \/ EnterPage \/ LeavePage \/ HideOrShow
  \/ ClickLink \/ ShowGroup \/ AddressChanges \/ FollowAddress
  \/ panel \in SmallPanels /\ \E i \in DOMAIN flights : PageHandles(i) \/ PageFails(i)

(* Fairness: timers fire, the server works off what it has.                 *)
PagesFair ==
  /\ WF_vars(PageAnswer) /\ WF_vars(PageTimers)
  /\ WF_vars(panel \in SmallPanels /\ flights # <<>> /\ PageHandles(1))

-----------------------------------------------------------------------------
(* Properties. *)

PollKinds == {"fetch", "events", "at_queue", "telemetry"}
Polls == Cardinality({i \in DOMAIN flights : flights[i].kind \in PollKinds})

\* A page that is left, or in a hidden tab, starts no poll: the dashboard, its
\* monitor, the events, the AT queue. (The device page looks at the page only.)
QuietWhenAway ==
  [][Polls' > Polls => active' /\ (page'.hidden => panel = "deviceinfo")]_vars

\* A page that stays shown goes on polling, whatever fails, however often it
\* is left, hidden, paused and shown again before, and after every save.
Follows == /\ panel \in Polling \ {"notify"}
           /\ Visible(page)
           /\ panel = "atqueue" => ~page.paused
PollingGoesOn == []<>(Follows => Polls > 0)

\* The latency samples of the monitor are all of the target shown with them,
\* whatever polls and saves of a target were under way together.
SamplesAreOfTarget == panel = "monitor" => page.samples \subseteq {page.gen}

\* Once the browser's events are worked off the address is that of the view
\* shown (or none, for the overview), and going back or forward switched the
\* page at most once.
AddressIsView ==
  panel = "router" =>
    /\ server.switches <= 1
    /\ server.follows = 0 => \/ Address(server) = page.view
                             \/ Address(server) = "" /\ page.view = "dashboard"
=============================================================================
