---------------------------- MODULE SettingsPage ----------------------------
(***************************************************************************)
(* The settings page, development/simpleadmin/www/js/pages/settings.js:    *)
(* the network functions with the countdown of a restart, the watchdog's   *)
(* form, the online update, and the account forms.                         *)
(*                                                                         *)
(* Abstracted: all the network functions are one setting and the TTL is    *)
(* another; the watchdog's settings are one value; texts are left out.     *)
(* Assumed: the commands the server runs after its answer (ip_passthrough) *)
(* are through before the countdown of 40 s ends.                          *)
(***************************************************************************)
EXTENDS PageCalls

SettingsPanels == {"network", "watchdog", "update", "accounts"}

-----------------------------------------------------------------------------
(* Network functions, TTL, AT commands, restart. *)

NetworkPage ==
  [loading |-> FALSE, shown |-> Unknown, ttl |-> Unknown, modal |-> FALSE,
   rebooted |-> TRUE, rebooting |-> FALSE, settling |-> 0]

\* unread is history: changed by a command the page does not follow with a
\* read, or after the read that follows its countdown.
NetworkServer == [set |-> Initially, ttl |-> Initially, job |-> FALSE, unread |-> FALSE]

\* The overlays of the countdown and of the modal cover the page.
Clickable == ~page.rebooting /\ ~page.modal
Free == Clickable /\ ~page.loading

FetchCurrentSettings(p) == IF p.rebooted THEN <<Read("status")>> ELSE <<>>

\* startRebootCountdown: an earlier interval is cleared, an earlier timer of
\* the five seconds after it is not.
Countdown(p) == [p EXCEPT !.modal = FALSE, !.rebooting = TRUE, !.rebooted = FALSE]

RunNetworkAction(kind) ==
  /\ User /\ Free /\ Room(1)
  /\ page' = [page EXCEPT !.loading = TRUE]
  /\ \E v \in Values : Send(<<Call(kind, v)>>)
RunRebootAction == RunNetworkAction("change_later")

IpPassThroughEnable == RunNetworkAction("change")
SetDMZ == RunNetworkAction("change")
OnBoardDNSProxy == RunRebootAction
UsbNetModeChanger == RunRebootAction
SetLANIP == RunRebootAction

\* After a change that takes a restart, the modal offers it.
ActionAnswered ==
  /\ Reply("change") \/ Reply("change_later")
  /\ LET a == Head(answers) IN
     /\ page' = [page EXCEPT !.loading = FALSE, !.modal = @ \/ (a.ok /\ a.kind = "change_later")]
     /\ Done(IF a.ok THEN FetchCurrentSettings(page) ELSE <<>>)
  /\ Page

StatusAnswered ==
  /\ Reply("status")
  /\ page' = [page EXCEPT !.shown = Head(answers).snap.set]
  /\ Done(<<>>)
  /\ Page

ShowRebootModal == User /\ Free /\ page' = [page EXCEPT !.modal = TRUE] /\ SendNothing
CloseModal == User /\ page.modal /\ page' = [page EXCEPT !.modal = FALSE] /\ SendNothing

RebootDevice == User /\ page.modal /\ Room(1) /\ page' = Countdown(page) /\ Send(<<Read("reboot")>>)

ResetATCommands ==
  /\ User /\ Free /\ Room(1)
  /\ page' = [page EXCEPT !.modal = TRUE]
  /\ Send(<<Read("reset_at")>>)

\* The Enter key in the input sends it too, while a call is under way or an overlay covers
\* the page.
SendATCommand ==
  /\ User /\ Room(1)
  /\ page' = [page EXCEPT !.loading = TRUE]
  /\ \E v \in Values : Send(<<Call("manual_at", v)>>)

UpdateIMEI ==
  /\ User /\ Free /\ Room(1)
  /\ page' = [Countdown(page) EXCEPT !.loading = TRUE]
  /\ \E v \in Values : Send(<<Call("set_imei", v)>>)

IpPassThroughDisable ==
  /\ User /\ Free /\ Room(1)
  /\ page' = Countdown(page)
  /\ Send(<<Call("disable", Initially)>>)

\* handleRebootNotice: the countdown starts again.
DisableAnswered ==
  /\ Reply("disable")
  /\ page' = IF Head(answers).ok THEN Countdown(page) ELSE page
  /\ Done(<<>>)
  /\ Page

\* Answers with nothing to do but to let the buttons go.
OtherAnswered ==
  /\ \E kind \in {"reboot", "reset_at", "manual_at", "set_imei"} : Reply(kind)
  /\ page' = [page EXCEPT !.loading = @ /\ Head(answers).kind \notin {"manual_at", "set_imei"}]
  /\ Done(<<>>)
  /\ Page

SetTTL ==
  /\ User /\ Free /\ Room(1)
  /\ page' = [page EXCEPT !.loading = TRUE]
  /\ \E v \in Values : Send(<<Call("set_ttl", v)>>)

TTLSet == Reply("set_ttl") /\ page' = [page EXCEPT !.loading = FALSE] /\ Done(<<Read("ttl")>>) /\ Page

TTLAnswered ==
  /\ Reply("ttl")
  /\ page' = [page EXCEPT !.ttl = Head(answers).snap.ttl]
  /\ Done(<<>>)
  /\ Page

CountdownEnds ==
  /\ page.rebooting /\ ~server.job
  /\ page' = [page EXCEPT !.rebooting = FALSE, !.settling = @ + 1]
  /\ SendNothing /\ Page

\* What init() asks again.
InitCalls(p) == IF p.rebooted THEN FetchCurrentSettings(p) \o <<Read("ttl")>> ELSE <<>>

\* Mutant: init() before the flag it looks at.
SettledLate(p) == [next |-> [p EXCEPT !.rebooted = TRUE], calls |-> InitCalls(p)]

\* The callback after the five seconds.
Settled(p) ==
  LET q == [p EXCEPT !.rebooted = TRUE] IN [next |-> q, calls |-> InitCalls(q)]

SettleTimerFires ==
  /\ page.settling > 0 /\ Room(2)
  /\ LET s == Settled([page EXCEPT !.settling = @ - 1]) IN page' = s.next /\ Send(s.calls)
  /\ Page

NetworkFailed(c) ==
  CASE c.kind \in {"change", "change_later", "manual_at", "set_imei", "set_ttl"} ->
         [page EXCEPT !.loading = FALSE]
    [] c.kind = "disable" /\ ~page.rebooting -> Countdown(page)
    [] OTHER -> page

NetworkHandled(c, done) ==
  CASE c.kind \in {"change", "change_later"} /\ done -> [server EXCEPT !.set = c.val]
    [] c.kind = "set_imei" /\ done ->
         [server EXCEPT !.set = c.val, !.unread = @ \/ ~(page.rebooting \/ page.settling > 0)]
    [] c.kind = "manual_at" /\ done -> [server EXCEPT !.set = c.val, !.unread = TRUE]
    [] c.kind = "reset_at" /\ done -> [server EXCEPT !.set = Initially, !.unread = TRUE]
    [] c.kind = "set_ttl" /\ done -> [server EXCEPT !.ttl = c.val]
    [] c.kind = "disable" /\ done -> [server EXCEPT !.job = TRUE]
    [] c.kind = "status" -> [server EXCEPT !.unread = FALSE]
    [] OTHER -> server

\* The task after the answer to ip_passthrough; it stops at a refused command.
JobRuns ==
  /\ panel = "network" /\ server.job
  /\ \E set \in {server.set, Initially} : server' = [server EXCEPT !.job = FALSE, !.set = set]
  /\ UNCHANGED <<panel, page, calls, active, bounds>>

NetworkStep ==
  \/ IpPassThroughEnable \/ SetDMZ \/ OnBoardDNSProxy \/ UsbNetModeChanger \/ SetLANIP
  \/ ShowRebootModal \/ CloseModal \/ RebootDevice \/ ResetATCommands
  \/ SendATCommand \/ UpdateIMEI \/ IpPassThroughDisable \/ SetTTL
  \/ CountdownEnds \/ SettleTimerFires
NetworkAnswer == ActionAnswered \/ StatusAnswered \/ DisableAnswered \/ OtherAnswered
                 \/ TTLSet \/ TTLAnswered

-----------------------------------------------------------------------------
(* The watchdog's form. *)

WatchdogPage == [form |-> Unknown, dirty |-> FALSE, saving |-> FALSE, timer |-> FALSE,
                 strays |-> 0, hidden |-> FALSE]
\* unread is history: another browser saved, and the page has not asked since.
WatchdogServer == [settings |-> Initially, unread |-> FALSE]

\* watchdogLoad clears the timer it set last; strays are older ones.
WatchdogLoad(p) == [p EXCEPT !.timer = FALSE]

\* Mutant: the answer of a poll takes the place of an edit.
FormTaken(p, settings) == [p EXCEPT !.form = settings]

\* An edit under way is kept.
FormLoaded(p, settings) == IF p.dirty THEN p ELSE [p EXCEPT !.form = settings]

\* Follow a recovery in progress while the page is open.
FollowOn(p) ==
  IF active /\ ~p.hidden
  THEN [p EXCEPT !.timer = TRUE, !.strays = IF p.timer THEN @ + 1 ELSE @]
  ELSE p

WatchdogLoaded ==
  /\ Reply("watchdog")
  /\ page' = FollowOn(FormLoaded(page, Head(answers).snap.settings))
  /\ Done(<<>>)
  /\ Page

WatchdogTimerFires ==
  /\ Room(1)
  /\ \/ page.timer /\ page' = WatchdogLoad(page)
     \/ page.strays > 0 /\ page' = WatchdogLoad([page EXCEPT !.strays = @ - 1])
  /\ Send(<<Read("watchdog")>>)
  /\ Page

WatchdogEdit ==
  /\ User
  /\ \E v \in Values : page' = [page EXCEPT !.form = v, !.dirty = TRUE]
  /\ SendNothing

WatchdogSave ==
  /\ User /\ page.dirty /\ ~page.saving /\ page.form # Unknown /\ Room(1)
  /\ page' = [page EXCEPT !.saving = TRUE]
  /\ Send(<<Call("watchdog_save", page.form)>>)

FormSaved(p, a) ==
  IF a.ok THEN [p EXCEPT !.saving = FALSE, !.dirty = FALSE, !.form = a.snap.settings]
          ELSE [p EXCEPT !.saving = FALSE]

WatchdogSaved ==
  /\ Reply("watchdog_save")
  /\ page' = FormSaved(page, Head(answers))
  /\ Done(<<>>)
  /\ Page

WatchdogHandled(c, done) ==
  CASE c.kind = "watchdog_save" /\ done -> [settings |-> c.val, unread |-> FALSE]
    [] c.kind = "watchdog" -> [server EXCEPT !.unread = FALSE]
    [] OTHER -> server

WatchdogFailed(c) ==
  IF c.kind = "watchdog" THEN FollowOn(page) ELSE [page EXCEPT !.saving = FALSE]

OtherBrowserSaves ==
  /\ panel = "watchdog" /\ events < Budget[panel] /\ events' = events + 1
  /\ \E v \in Values : server' = [settings |-> v, unread |-> TRUE]
  /\ Elsewhere

\* The page is opened again, or left; the tab is hidden, or shown.
EnterSettings ==
  /\ panel = "watchdog" /\ events < Budget[panel] /\ events' = events + 1 /\ Room(1)
  /\ active' = TRUE /\ page' = WatchdogLoad(page) /\ Send(<<Read("watchdog")>>)
  /\ UNCHANGED <<panel, server, failures>>
LeaveSettings ==
  /\ panel = "watchdog" /\ active /\ events < Budget[panel] /\ events' = events + 1
  /\ active' = FALSE
  /\ UNCHANGED <<panel, page, server, calls, failures>>
TabSwitched == User /\ page' = [page EXCEPT !.hidden = ~@] /\ SendNothing

WatchdogStep == WatchdogTimerFires \/ WatchdogEdit \/ WatchdogSave \/ TabSwitched
WatchdogAnswer == WatchdogLoaded \/ WatchdogSaved

-----------------------------------------------------------------------------
(* The online update. A restart of the service ends the login, so a page    *)
(* that polls meets 401 (and never another version on the same login).      *)

UpdatePage == [phase |-> Unknown, following |-> FALSE, poll |-> FALSE, saving |-> FALSE,
               says |-> "", gone |-> FALSE]

\* installs and silent are history: an installation began; the last one ended without a
\* word to the page that follows it, for its error was cleared before the page saw it, or
\* the installer reported success and the service was not restarted.
UpdateServer == [phase |-> "idle", error |-> FALSE, up |-> TRUE, login |-> TRUE,
                 installs |-> FALSE, silent |-> FALSE]

OtaBusy == page.following \/ page.phase \notin {Unknown, "idle"}

OtaApply(p, snap) ==
  [p EXCEPT !.phase = snap.phase, !.says = IF snap.phase = "idle" /\ snap.error THEN "" ELSE @]
OtaPoll(p) == [p EXCEPT !.poll = TRUE]

\* A reply to a login that has not ended; after its end every call leads to the login page.
Heard(kind) == Reply(kind) /\ Head(answers).snap.login /\ Page
ToLogin ==
  /\ \E kind \in {"ota", "check", "install", "poll", "ota_save"} : Reply(kind)
  /\ ~Head(answers).snap.login
  /\ page' = [page EXCEPT !.gone = TRUE, !.poll = FALSE]
  /\ flights' = <<>> /\ answers' = <<>>
  /\ Page

OtaRefreshed ==
  /\ Heard("ota")
  /\ LET snap == Head(answers).snap
         p == OtaApply(page, snap) IN
     page' = IF snap.phase = "idle" THEN p ELSE OtaPoll(p)
  /\ Done(<<>>)

OtaCheck ==
  /\ User /\ ~page.gone /\ ~OtaBusy /\ Room(1)
  /\ page' = [page EXCEPT !.phase = "checking", !.says = ""]
  /\ Send(<<Read("check")>>)

OtaChecked ==
  /\ Heard("check")
  /\ IF Head(answers).ok THEN page' = OtaApply(page, Head(answers).snap) /\ Done(<<>>)
     ELSE UNCHANGED page /\ Done(<<Read("ota")>>)

OtaInstall ==
  /\ User /\ ~page.gone /\ ~OtaBusy /\ page.phase # Unknown /\ Room(1)
  /\ page' = [page EXCEPT !.following = TRUE, !.says = ""]
  /\ Send(<<Read("install")>>)

OtaInstalled ==
  /\ Heard("install")
  /\ LET a == Head(answers) IN
     page' = IF a.ok THEN OtaPoll(OtaApply(page, a.snap)) ELSE [page EXCEPT !.following = FALSE]
  /\ Done(<<>>)

\* The settings of the update may be saved at any time, while an installation is followed too.
OtaSave ==
  /\ User /\ ~page.gone /\ ~page.saving /\ Room(1)
  /\ page' = [page EXCEPT !.saving = TRUE]
  /\ Send(<<Read("ota_save")>>)

OtaSaved ==
  /\ Heard("ota_save")
  /\ LET a == Head(answers)
         p == [page EXCEPT !.saving = FALSE] IN
     page' = IF a.ok THEN OtaApply(p, a.snap) ELSE p
  /\ Done(<<>>)

OtaTimerFires ==
  /\ page.poll /\ Room(1)
  /\ page' = [page EXCEPT !.poll = FALSE]
  /\ Send(<<Read("poll")>>)
  /\ Page

\* What a poll that found the service idle makes of it.
IdleSeen(p, snap) ==
  IF snap.error THEN [p EXCEPT !.following = FALSE]
  ELSE OtaPoll([p EXCEPT !.says = "installed"])

OtaPolled ==
  /\ Heard("poll")
  /\ LET snap == Head(answers).snap
         p == OtaApply(page, snap) IN
     page' = IF snap.phase = "idle" THEN IdleSeen(p, snap) ELSE OtaPoll(p)
  /\ Done(<<>>)

UpdateFailed(c) == CASE c.kind = "poll" -> OtaPoll(page)
                     [] c.kind = "install" -> [page EXCEPT !.following = FALSE]
                     [] c.kind = "ota_save" -> [page EXCEPT !.saving = FALSE]
                     [] OTHER -> page

\* begin() and a save that changes the source clear the error of what went before.
ErrorCleared == [server EXCEPT !.error = FALSE, !.silent = @ \/ (server.error /\ page.following)]
Begin(phase) == [ErrorCleared EXCEPT !.phase = phase]
Install == [Begin("checking") EXCEPT !.installs = TRUE, !.silent = FALSE]

UpdateHandled(c, done) ==
  IF c.kind = "install" /\ done THEN Install ELSE server

UpdateRuns == panel = "update" /\ server.up /\ UNCHANGED <<panel, page, calls, active, failures>>

\* install_locked(): up to the start of the installer, an error, or the success of an
\* installer that left the service running.
InstallProceeds ==
  /\ UpdateRuns /\ UNCHANGED events
  /\ server.installs /\ server.phase \in {"checking", "installing"}
  /\ \/ server' = [server EXCEPT !.phase = "idle", !.error = TRUE]
     \/ server.phase = "checking" /\ server' = Begin("installing")
     \/ server.phase = "installing" /\ server' = [server EXCEPT !.phase = "idle", !.silent = TRUE]

\* The installer stops the service: every call under way fails with it.
ServiceStops ==
  /\ panel = "update" /\ server.up /\ server.phase = "installing"
  /\ server' = [server EXCEPT !.up = FALSE, !.login = FALSE]
  /\ UNCHANGED <<panel, page, calls, active, bounds>>

ServiceStarts ==
  /\ panel = "update" /\ ~server.up
  /\ server' = [server EXCEPT !.up = TRUE, !.phase = "idle", !.error = FALSE]
  /\ UNCHANGED <<panel, page, calls, active, bounds>>

Others == UpdateRuns /\ events < Budget[panel] /\ events' = events + 1

\* The daily check, or another browser's; either may go on to install.
OthersCheck == Others /\ server.phase = "idle" /\ server' = Begin("other")
OthersInstall == Others /\ server.phase = "idle" /\ server' = Install
\* Another browser saves the settings of the update.
OthersSave == Others /\ server' = ErrorCleared
OthersChecked ==
  /\ UpdateRuns /\ UNCHANGED events /\ server.phase = "other"
  /\ \E error \in BOOLEAN : server' = [server EXCEPT !.phase = "idle", !.error = error]

UpdateStep == OtaCheck \/ OtaInstall \/ OtaSave \/ OtaTimerFires
UpdateAnswer == OtaRefreshed \/ OtaChecked \/ OtaInstalled \/ OtaSaved \/ OtaPolled \/ ToLogin

-----------------------------------------------------------------------------
(* Language, root password, web port, login password: one call at a time   *)
(* for each form; new passwords end at the login page.                     *)

AccountsPage == [busy |-> {}, gone |-> FALSE]
AccountsServer == [saved |-> {}]

SaveForm(f) ==
  /\ User /\ ~page.gone /\ f \notin page.busy /\ Room(1)
  /\ page' = [page EXCEPT !.busy = @ \union {f}]
  /\ Send(<<Call("form", f)>>)

\* Mutant: no finally lets the button of the form go.
FormStuck(p, f) == p

FormDone(p, f) == [p EXCEPT !.busy = @ \ {f}]

FormAnswered ==
  /\ Reply("form")
  /\ LET a == Head(answers) IN
     IF a.ok /\ a.val \in {"root", "login"}
     THEN page' = [page EXCEPT !.busy = {}, !.gone = TRUE] /\ flights' = <<>> /\ answers' = <<>>
     ELSE page' = FormDone(page, a.val) /\ Done(<<>>)
  /\ Page

SaveLanguageSetting == SaveForm("language")
ChangeRootPassword == SaveForm("root")
SaveWebuiPort == SaveForm("port")
ChangeLoginPassword == SaveForm("login")

AccountsStep == SaveLanguageSetting \/ ChangeRootPassword \/ SaveWebuiPort \/ ChangeLoginPassword

-----------------------------------------------------------------------------
(* What the panels share. *)

SettingsHandled(c, done) ==
  CASE panel = "network" -> NetworkHandled(c, done)
    [] panel = "watchdog" -> WatchdogHandled(c, done)
    [] panel = "update" -> UpdateHandled(c, done)
    [] panel = "accounts" -> [server EXCEPT !.saved = IF done THEN @ \union {c.val} ELSE @]

Reads == {"status", "ttl", "watchdog", "ota", "poll"}

\* A save of the update's settings clears the error when it changes the source.
Outcomes(c, done) ==
  CASE c.kind = "check" /\ done -> {[ErrorCleared EXCEPT !.error = e] : e \in BOOLEAN}
    [] c.kind = "ota_save" /\ done /\ server.login -> {server, ErrorCleared}
    [] OTHER -> {SettingsHandled(c, done)}

\* A check or an installation is refused while another runs, and after the login ended.
\* Any other call may be answered with an error though it was done: the file was written or
\* the command obeyed, and what follows failed.
SettingsHandles(i) ==
  LET c == flights[i] IN
  /\ panel = "update" => server.up
  /\ \E ok, done \in BOOLEAN :
       /\ IF c.kind \in {"check", "install"}
          THEN (ok <=> server.phase = "idle" /\ server.login) /\ done = ok /\ UNCHANGED bounds
          ELSE \/ ok /\ done /\ UNCHANGED bounds
               \/ ~ok /\ c.kind \notin Reads /\ Mishap
       /\ \E after \in Outcomes(c, done) : Handle(i, ok, after)

SettingsFailed(c) ==
  CASE panel = "network" -> NetworkFailed(c)
    [] panel = "watchdog" -> WatchdogFailed(c)
    [] panel = "update" -> UpdateFailed(c)
    [] panel = "accounts" -> FormDone(page, c.val)

\* setTTL and otaCheck read again after a failure.
SettingsFails(i) ==
  LET c == flights[i] IN
  /\ IF panel = "update" /\ ~server.up THEN UNCHANGED bounds ELSE Mishap
  /\ GiveUp(i, c.kind \notin Reads, SettingsFailed(c),
            CASE c.kind = "set_ttl" -> <<Read("ttl")>> [] c.kind = "check" -> <<Read("ota")>> [] OTHER -> <<>>)

SettingsInit ==
  /\ panel \in SettingsPanels
  /\ page = (CASE panel = "network" -> NetworkPage [] panel = "watchdog" -> WatchdogPage
               [] panel = "update" -> UpdatePage [] panel = "accounts" -> AccountsPage)
  /\ server = (CASE panel = "network" -> NetworkServer [] panel = "watchdog" -> WatchdogServer
                 [] panel = "update" -> UpdateServer [] panel = "accounts" -> AccountsServer)
  /\ flights = (CASE panel = "network" -> InitCalls(page) [] panel = "watchdog" -> <<Read("watchdog")>>
                  [] panel = "update" -> <<Read("ota")>> [] panel = "accounts" -> <<>>)
  /\ answers = <<>> /\ active = TRUE /\ failures = 0 /\ events = 0

SettingsAnswer == CASE panel = "network" -> NetworkAnswer
                    [] panel = "watchdog" -> WatchdogAnswer
                    [] panel = "update" -> UpdateAnswer
                    [] panel = "accounts" -> FormAnswered
                    [] OTHER -> FALSE

SettingsNext ==
  \/ panel = "network" /\ NetworkStep
  \/ panel = "watchdog" /\ WatchdogStep
  \/ panel = "update" /\ UpdateStep
  \/ panel = "accounts" /\ AccountsStep
  \/ SettingsAnswer \/ JobRuns \/ OtherBrowserSaves \/ EnterSettings \/ LeaveSettings
  \/ InstallProceeds \/ ServiceStops \/ ServiceStarts 
  \/ OthersCheck \/ OthersInstall \/ OthersSave \/ OthersChecked
  \/ panel \in SettingsPanels /\ \E i \in DOMAIN flights : SettingsHandles(i) \/ SettingsFails(i)

(* Fairness: timers fire, the server works off what it has, the service     *)
(* comes back, an installation and a check end.                             *)
SettingsTimers == \/ panel = "network" /\ (CountdownEnds \/ SettleTimerFires)
                  \/ panel = "watchdog" /\ WatchdogTimerFires
                  \/ panel = "update" /\ OtaTimerFires

SettingsFair ==
  /\ WF_vars(SettingsAnswer)
  /\ WF_vars(panel \in SettingsPanels /\ flights # <<>> /\ SettingsHandles(1))
  /\ WF_vars(panel = "update" /\ ~server.up /\ flights # <<>> /\ SettingsFails(1))
  /\ WF_vars(SettingsTimers) /\ WF_vars(JobRuns)
  /\ WF_vars(InstallProceeds) /\ WF_vars(ServiceStarts) /\ WF_vars(OthersChecked)

-----------------------------------------------------------------------------
(* Properties. *)

\* Once nothing is under way, and no call failed, the page shows what the
\* server holds, across countdowns that overlap, restarts, saves and polls.
SettingsAreReal ==
  flights = <<>> /\ answers = <<>> /\ failures = 0 =>
    CASE panel = "network" ->
           ~page.rebooting /\ page.settling = 0 /\ ~server.unread =>
             page.shown = server.set /\ page.ttl = server.ttl
      [] panel = "watchdog" -> ~page.dirty /\ ~server.unread => page.form = server.settings
      [] OTHER -> TRUE

\* No wait lasts: a countdown gives the page back though its calls fail or its
\* answer starts it again, a save lets its button go, and an update that is
\* followed ends in an error or at the login page, unless it ended without a
\* word (silent): a check, or a save of the update's settings by this page or
\* another, cleared its error before the page saw it, or the service was not
\* restarted.
Waiting == CASE panel = "network" -> ~page.rebooted \/ page.rebooting \/ page.loading
             [] panel = "watchdog" -> page.saving
             [] panel = "update" -> ~page.gone /\ (page.saving \/ (page.following /\ ~server.silent))
             [] panel = "accounts" -> page.busy # {}
             [] OTHER -> FALSE
WaitsEnd == Waiting ~> ~Waiting

\* "Installed, waiting for the service to restart" (settings.js, otaPoll) is
\* said only when an installation was begun. Part of no run: a check of someone
\* else ends with the same words.
InstalledIsTrue == panel = "update" => (page.says = "installed" => server.installs)
=============================================================================
