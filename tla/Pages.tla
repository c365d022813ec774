-------------------------------- MODULE Pages --------------------------------
(***************************************************************************)
(* The settings page, the pages that poll and the router together: a       *)
(* behaviour looks at one of their panels, chosen at the start.            *)
(***************************************************************************)
EXTENDS SettingsPage, SmallPages

Init == SettingsInit \/ PagesInit
Next == SettingsNext \/ PagesNext

PageSpec == Init /\ [][Next]_vars
PageLiveSpec == PageSpec /\ SettingsFair /\ PagesFair

\* What the user has typed is changed by nothing but the user and the answer
\* to a save: no poll, reload or late answer of the watchdog's form, the
\* notifications or the monitor's target takes its place.
EditsSurvive ==
  [][(panel \in {"watchdog", "notify", "monitor"} /\ page.dirty /\ page'.form # page.form)
       => (events' > events \/ \E kind \in {"watchdog_save", "save", "target"} : Reply(kind))]_vars
-----------------------------------------------------------------------------
(* The invariant the proofs rest on (PageProofs).                          *)

Kind(kinds, vals) == [kind : kinds, val : vals, orphan : BOOLEAN]
RepliesTo(called, servers) ==
  [kind : {c.kind : c \in called}, val : {c.val : c \in called}, ok : BOOLEAN, snap : servers]

NetworkPages == [loading : BOOLEAN, shown : Shows, ttl : Shows, modal : BOOLEAN,
                 rebooted : BOOLEAN, rebooting : BOOLEAN, settling : Nat]
NetworkServers == [set : Values, ttl : Values, job : BOOLEAN, unread : BOOLEAN]
NetworkCalls == Kind({"status", "ttl", "reboot", "reset_at"}, {Unknown})
                \union Kind({"change", "change_later", "manual_at", "set_imei", "set_ttl"}, Values)
                \union Kind({"disable"}, {Initially})

WatchdogPages == [form : Shows, dirty : BOOLEAN, saving : BOOLEAN, timer : BOOLEAN,
                  strays : Nat, hidden : BOOLEAN]
WatchdogServers == [settings : Values, unread : BOOLEAN]
WatchdogCalls == Kind({"watchdog"}, {Unknown}) \union Kind({"watchdog_save"}, Values)

Phases == {"idle", "checking", "installing", "other"}
UpdatePages == [phase : Phases \union {Unknown}, following : BOOLEAN, poll : BOOLEAN,
                saving : BOOLEAN, says : {"", "installed"}, gone : BOOLEAN]
UpdateServers == [phase : Phases, error : BOOLEAN, up : BOOLEAN, login : BOOLEAN,
                  installs : BOOLEAN, silent : BOOLEAN]
UpdateCalls == Kind({"ota", "check", "install", "poll", "ota_save"}, {Unknown})

Forms == {"language", "root", "port", "login"}
AccountsPages == [busy : SUBSET Forms, gone : BOOLEAN]
AccountsServers == [saved : SUBSET Forms]
AccountsCalls == Kind({"form"}, Forms)

TickerPages == [shown : Shows, busy : BOOLEAN, timer : BOOLEAN, hidden : BOOLEAN]
RefresherPages == [shown : Shows, timer : BOOLEAN, strays : Nat, paused : BOOLEAN, hidden : BOOLEAN]
PageServers == [now : Values]
TickerCalls == Kind({"fetch"}, {Unknown})
RefresherCalls == Kind({"events", "at_queue", "events_clear"}, {Unknown})

NotifyPages == [form : Shows, loaded : BOOLEAN, dirty : BOOLEAN, flag : Shows, loading : BOOLEAN,
                busy : BOOLEAN, testing : BOOLEAN, timer : BOOLEAN, hidden : BOOLEAN]
NotifyServers == [form : Shows, flag : Values]
NotifyCalls == Kind({"config", "probe", "current", "test"}, {Unknown})
               \union Kind({"save"}, Shows \X Values)

\* The server keeps latency samples of its target alone.
MonitorPages == [gen : Nat, cursor : BOOLEAN, samples : SUBSET Nat, form : Values, dirty : BOOLEAN,
                 saving : BOOLEAN, busy : BOOLEAN, timer : BOOLEAN, hidden : BOOLEAN]
MonitorServers == {s \in [target : Values, gen : Nat, samples : SUBSET Nat] : s.samples \subseteq {s.gen}}
MonitorCalls == Kind({"telemetry"}, SUBSET Nat) \union Kind({"target", "schedule"}, Values)

RouterPages == [view : Views, last : [Range(GroupOf) -> Views \union {Unknown}], hidden : BOOLEAN]
RouterServers == [history : Seq(Addresses), at : Nat, follows : 0..2, switches : Nat]

Fits(pages, servers, called) ==
  /\ page \in pages /\ server \in servers
  /\ flights \in Seq(called) /\ answers \in Seq(RepliesTo(called, servers))

PageTypeOK ==
  /\ panel \in SettingsPanels \union SmallPanels
  /\ active \in BOOLEAN /\ failures \in Nat /\ events \in Nat
  /\ panel = "network" => Fits(NetworkPages, NetworkServers, NetworkCalls)
  /\ panel = "watchdog" => Fits(WatchdogPages, WatchdogServers, WatchdogCalls)
  /\ panel = "update" => Fits(UpdatePages, UpdateServers, UpdateCalls)
  /\ panel = "accounts" => Fits(AccountsPages, AccountsServers, AccountsCalls)
  /\ panel \in Tickers => Fits(TickerPages, PageServers, TickerCalls)
  /\ panel \in Refreshers => Fits(RefresherPages, PageServers, RefresherCalls)
  /\ panel = "notify" => Fits(NotifyPages, NotifyServers, NotifyCalls)
  /\ panel = "monitor" => Fits(MonitorPages, MonitorServers, MonitorCalls)
  /\ panel = "router" => Fits(RouterPages, RouterServers, {})

\* The last reply to calls of these kinds says v of a field.
Says(kinds, field, v) ==
  \A i \in DOMAIN answers : answers[i].kind \in kinds =>
    \/ answers[i].snap[field] = v
    \/ \E j \in DOMAIN answers : i < j /\ answers[j].kind \in kinds

\* Network functions: the page will read the settings again, after what the
\* server does now.
Countdowns == page.rebooting \/ page.settling > 0
Rereads == \/ server.unread \/ Countdowns
           \/ UnderWay({"status"}) \/ Told({"change", "change_later", "disable"})
SetAgrees ==
  \/ Rereads
  \/ /\ Says({"status"}, "set", server.set)
     /\ page.shown = server.set \/ Told({"status"})

\* The commands after ip_passthrough run under a countdown, or before the
\* answer that starts it.
JobIsCovered ==
  /\ server.job => page.rebooting \/ Told({"disable"})
  /\ ~page.rebooted => Countdowns

RereadsTtl == UnderWay({"ttl"}) \/ Told({"set_ttl"})
TtlAgrees ==
  \/ RereadsTtl
  \/ /\ Says({"ttl"}, "ttl", server.ttl)
     /\ page.ttl = server.ttl \/ Told({"ttl"})

NetworkInv == SetAgrees /\ JobIsCovered /\ TtlAgrees

\* The watchdog's form: the last reply says what the server holds, unless
\* another browser saved and the page has not asked since.
WatchdogInv ==
  \/ server.unread
  \/ /\ Says({"watchdog", "watchdog_save"}, "settings", server.settings)
     /\ \/ page.form = server.settings \/ page.dirty
        \/ UnderWay({"watchdog"}) \/ Told({"watchdog", "watchdog_save"})

\* The monitor's timer runs while the page is seen; a changed form was loaded.
TimerIsSeen == panel = "monitor" /\ page.timer => Visible(page)
ChangedWasLoaded == panel = "notify" /\ page.dirty => page.loaded

\* The router: the address is that of the view, or both events that correct
\* it are still to come.
AddressFits ==
  \/ Address(server) = page.view
  \/ Address(server) = "" /\ page.view = "dashboard"
RouterInv ==
  panel = "router" =>
    /\ server.at \in DOMAIN server.history /\ server.switches <= 1
    /\ AddressFits \/ (server.follows = 2 /\ server.switches = 0)

PageInv ==
  /\ PageTypeOK /\ TimerIsSeen /\ ChangedWasLoaded /\ SamplesAreOfTarget /\ RouterInv
  /\ failures = 0 /\ panel \in {"network", "watchdog"} =>
       /\ NothingFailed
       /\ panel = "network" => NetworkInv
       /\ panel = "watchdog" => WatchdogInv
=============================================================================
