---------------------------- MODULE NetworkPage ----------------------------
(***************************************************************************)
(* The network pages, development/simpleadmin/www/js/pages/network.js: the *)
(* band locks with their guard, the cell locks with the scans, the NR      *)
(* frequency lock, the PDP contexts and the carrier profiles (MBN).        *)
(*                                                                         *)
(* The five panels share the connection and nothing else that changes, so  *)
(* a behaviour looks at one of them, chosen at the start.                  *)
(*                                                                         *)
(* A call is in flights until the server handles it, in any order; replies *)
(* come back in the order they were handled (one thread, one connection).  *)
(* A call may fail at any time; the server may still carry it out then.    *)
(*                                                                         *)
(* Abstracted: a band list, an APN, a lock, a profile are values; a scan   *)
(* finds one of a few sets of cells; the table of frequency bands is left  *)
(* out, and so are texts, but for the verdict of a guard.                  *)
(***************************************************************************)
EXTENDS PageCalls

CONSTANTS Modes,      \* radio modes with a band list: bandModes()
          Lte, Nr,    \* cells a scan can find
          Scans       \* the sets of cells it finds

ASSUME ScansAssumption == Scans \subseteq SUBSET (Lte \union Nr)

-----------------------------------------------------------------------------

All == "ALL"
Keys == Modes \union {All}
Cells == Lte \union Nr

\* A call of these pages also says which mode, form or button it is about.
Ask(kind, key, val) == [kind |-> kind, key |-> key, val |-> val, orphan |-> FALSE]

-----------------------------------------------------------------------------
(* Bands.                                                                  *)

BandsPage ==
  [model |-> FALSE, modelCall |-> "pending", attempt |-> 0, drawn |-> FALSE,
   shown |-> [m \in Modes |-> Unknown], inFlight |-> {}, retry |-> {},
   retries |-> [k \in Keys |-> 0], setting |-> Unknown, settingsCall |-> FALSE,
   countdown |-> {}, polls |-> 0]

BandsModule == [bands |-> [m \in Modes |-> Initially], phase |-> "idle", mode |-> All,
                previous |-> Initially, setting |-> Initially, untold |-> FALSE, overtaken |-> FALSE]

\* getSupportedBands and getCurrentSettings: a query under way is joined.
BandQuery(p, k) == IF k \in p.inFlight THEN <<>> ELSE <<Ask("bands", k, Unknown)>>
SettingsQuery(p) == IF p.settingsCall THEN <<>> ELSE <<Ask("settings", All, Unknown)>>
Queries(p, k) == BandQuery(p, k) \o SettingsQuery(p)
Asked(p, k) == [p EXCEPT !.inFlight = @ \union {k}, !.settingsCall = TRUE]

\* The rest of init() once the model is known, or given up.
InitGoesOn(p) == [Asked(p, All) EXCEPT !.modelCall = "none", !.drawn = TRUE]

\* getModel asks at most four times, and twice for an answer that is final.
ModelAnswered ==
  /\ Reply("model")
  /\ \/ /\ page' = InitGoesOn([page EXCEPT !.model = TRUE])
        /\ Done(Queries(page, All))
     \/ /\ page.attempt < 3
        /\ page' = [page EXCEPT !.attempt = @ + 1]
        /\ Done(<<Ask("model", All, Unknown)>>)
     \/ /\ page.attempt >= 1
        /\ page' = InitGoesOn(page)
        /\ Done(Queries(page, All))
  /\ Page

\* init() again: after the settings were saved.
Reinit(p) == CASE p.model -> InitGoesOn(p)
               [] ~p.model /\ p.modelCall = "none" ->
                    [p EXCEPT !.modelCall = "pending", !.attempt = 0]
               [] OTHER -> p
ReinitCalls(p) == CASE p.model -> Queries(p, All)
                    [] ~p.model /\ p.modelCall = "none" -> <<Ask("model", All, Unknown)>>
                    [] OTHER -> <<>>

Known(p, k, bands) ==
  [p EXCEPT !.shown = [m \in Modes |-> IF k \in {m, All} THEN bands[m] ELSE @[m]],
            !.retries[k] = 0]

\* scheduleBandsRetry, for an answer that has no list yet.
ScheduleRetry(p, k) ==
  IF p.retries[k] >= 3 THEN p
  ELSE [p EXCEPT !.retries[k] = @ + 1, !.retry = @ \union {k}]

BandsAnswered ==
  /\ Reply("bands")
  /\ LET a == Head(answers)
         p == [page EXCEPT !.inFlight = @ \ {a.key}] IN
     page' = IF a.ok THEN Known(p, a.key, a.snap.bands) ELSE ScheduleRetry(p, a.key)
  /\ Done(<<>>)
  /\ Page

Loaded(p, k) == \A m \in Modes : k \in {m, All} => p.shown[m] # Unknown

RetryFires(k) ==
  /\ k \in page.retry /\ Room(1)
  /\ LET p == [page EXCEPT !.retry = @ \ {k}] IN
     IF Loaded(page, k) THEN page' = p /\ SendNothing
     ELSE page' = [p EXCEPT !.inFlight = @ \union {k}] /\ Send(BandQuery(page, k))
  /\ Page

SettingsAnswered ==
  /\ Reply("settings")
  /\ page' = [page EXCEPT !.setting = Head(answers).snap.setting, !.settingsCall = FALSE]
  /\ Done(<<>>)
  /\ Page

\* The dialog of a countdown covers the page.
Uncovered == page.countdown = {}

\* There is nothing to tick before the lists are drawn.
LockBands ==
  /\ User /\ Uncovered /\ Room(1) /\ page.drawn
  /\ \E m \in Modes, v \in Values \ {Initially}, kind \in {"lock", "lock_guarded"} : Send(<<Ask(kind, m, v)>>)
  /\ UNCHANGED page

ResetBands == User /\ Uncovered /\ Room(1) /\ Send(<<Ask("reset", All, Initially)>>) /\ UNCHANGED page

SaveChanges ==
  /\ User /\ Uncovered /\ Room(1)
  /\ \E v \in Values \ {Initially} : Send(<<Ask("save", All, v)>>)
  /\ UNCHANGED page

Forgotten(p, k) == [p EXCEPT !.shown = [m \in Modes |-> IF k \in {m, All} THEN Unknown ELSE @[m]]]

\* followBandGuard clears the timer set last, if it is still to fire: polls
\* counts the timers that will ask for the verdict.
LockAnswered ==
  /\ Reply("lock") \/ Reply("lock_guarded")
  /\ LET a == Head(answers)
         p == [Forgotten(page, a.key) EXCEPT !.countdown = @ \union {a.key}] IN
     CASE ~a.ok -> page' = page
       [] a.ok /\ a.kind = "lock" -> page' = p
       [] OTHER -> \/ page' = [p EXCEPT !.polls = @ + 1]
                   \/ page.polls > 0 /\ page' = p
  /\ Done(<<>>)
  /\ Page

ResetAnswered ==
  /\ Reply("reset")
  /\ page' = [Forgotten(page, All) EXCEPT !.countdown = @ \union {All}]
  /\ Done(<<>>)
  /\ Page

SaveAnswered ==
  /\ Reply("save")
  /\ page' = [page EXCEPT !.countdown = @ \union {"save"}]
  /\ Done(<<>>)
  /\ Page

BandsCountdownEnds(k) ==
  /\ k \in page.countdown /\ Room(2)
  /\ LET p == [page EXCEPT !.countdown = @ \ {k}] IN
     IF k = "save" THEN page' = Reinit(p) /\ Send(ReinitCalls(p))
                   ELSE page' = Asked(p, k) /\ Send(Queries(p, k))
  /\ Page

GuardTimerFires ==
  /\ page.polls > 0 /\ Room(1)
  /\ page' = [page EXCEPT !.polls = @ - 1]
  /\ Send(<<Ask("band_guard", All, Unknown)>>)
  /\ Page

\* Mutant: the lists on the page are taken to be still in force.
VerdictKeeps(p) == p

\* The module's list is no longer the one that was locked.
VerdictForgets(p) == [Forgotten(p, All) EXCEPT !.inFlight = @ \union {All}]

GuardAnswered ==
  /\ Reply("band_guard")
  /\ LET phase == Head(answers).snap.phase
         p == VerdictForgets(page) IN
     CASE phase = "checking" -> page' = [page EXCEPT !.polls = @ + 1] /\ Done(<<>>)
       [] phase \in {"reverted", "failed"} ->
            /\ page' = p
            /\ Done(IF p.inFlight = page.inFlight THEN <<>> ELSE BandQuery(page, All))
       [] OTHER -> page' = page /\ Done(<<>>)
  /\ Page

BandsFailed(c) ==
  CASE c.kind = "model" -> [page EXCEPT !.modelCall = "rejected"]
    [] c.kind = "bands" -> [page EXCEPT !.inFlight = @ \ {c.key}]
    [] c.kind = "settings" -> [page EXCEPT !.settingsCall = FALSE]
    [] OTHER -> page

\* untold and overtaken are history: a guard put its list back and the page
\* has not asked since; another guard started then.

\* lock_bands ends the guard of an earlier lock, also when the module refuses.
Unguarded == IF server.phase = "checking" THEN "cancelled" ELSE server.phase

BandsHandled(c, ok) ==
  CASE c.kind \in {"lock", "lock_guarded"} /\ ~ok -> [server EXCEPT !.phase = Unguarded]
    [] c.kind = "lock" /\ ok -> [server EXCEPT !.bands[c.key] = c.val, !.phase = Unguarded]
    [] c.kind = "lock_guarded" /\ ok ->
         [server EXCEPT !.bands[c.key] = c.val, !.mode = c.key, !.phase = "checking",
                        !.previous = server.bands[c.key], !.overtaken = @ \/ server.untold]
    [] c.kind = "reset" -> [server EXCEPT !.bands = [m \in Modes |-> IF ok THEN c.val ELSE @[m]],
                                          !.phase = Unguarded]
    [] c.kind = "save" /\ ok -> [server EXCEPT !.setting = c.val]
    [] c.kind = "band_guard" -> [server EXCEPT !.untold = FALSE]
    [] OTHER -> server

Bands ==
  \/ LockBands \/ ResetBands \/ SaveChanges \/ GuardTimerFires
  \/ \E k \in Keys : RetryFires(k)
  \/ \E k \in Keys \union {"save"} : BandsCountdownEnds(k)

BandsAnswer == ModelAnswered \/ BandsAnswered \/ SettingsAnswered \/ LockAnswered
               \/ ResetAnswered \/ SaveAnswered \/ GuardAnswered

-----------------------------------------------------------------------------
(* PDP contexts and carrier profiles: one change at a time, then a fresh   *)
(* read whatever came of it. A profile takes effect at a restart.          *)

ListPage == [shown |-> Unknown, busy |-> FALSE, reboot |-> FALSE, form |-> FALSE]
ListModule == [set |-> Initially, inForce |-> Initially]

Load(key) == Ask("load", key, Unknown)

\* savePdp keeps the form open until the change is accepted.
OpenForm == User /\ panel = "pdp" /\ ~page.busy /\ page' = [page EXCEPT !.form = TRUE] /\ SendNothing

\* runPdp and runMbn.
RunChange ==
  /\ User /\ ~page.busy /\ Room(1)
  /\ page' = [page EXCEPT !.busy = TRUE]
  /\ \E v \in Values : Send(<<Ask("change", IF page.form THEN "form" ELSE All, v)>>)

\* rebootForMbn does not look at mbnBusy.
RebootForMbn ==
  /\ User /\ panel = "mbn" /\ page.reboot /\ Room(1)
  /\ UNCHANGED page
  /\ Send(<<Ask("reboot", All, Unknown)>>)

RebootAnswered ==
  /\ Reply("reboot")
  /\ page' = [page EXCEPT !.reboot = ~Head(answers).ok /\ @]
  /\ Done(<<>>)
  /\ Page

ChangeAnswered ==
  /\ Reply("change")
  /\ LET a == Head(answers) IN
     page' = [page EXCEPT !.reboot = @ \/ (a.ok /\ panel = "mbn"),
                          !.form = @ /\ ~(a.ok /\ a.key = "form")]
  /\ Done(<<Load("after")>>)
  /\ Page

LoadAnswered ==
  /\ Reply("load")
  /\ page' = [page EXCEPT !.shown = Head(answers).snap.set,
                          !.busy = @ /\ Head(answers).key # "after"]
  /\ Done(<<>>)
  /\ Page

ListFailed(c) ==
  IF c.kind = "load" /\ c.key = "after" THEN [page EXCEPT !.busy = FALSE] ELSE page

ListHandled(c, ok) ==
  CASE c.kind = "change" /\ ok ->
         [server EXCEPT !.set = c.val, !.inForce = IF panel = "pdp" THEN c.val ELSE @]
    [] c.kind = "reboot" /\ ok -> [server EXCEPT !.inForce = server.set]
    [] OTHER -> server

List == OpenForm \/ RunChange \/ RebootForMbn
ListAnswer == ChangeAnswered \/ LoadAnswered \/ RebootAnswered

-----------------------------------------------------------------------------
(* NR frequency lock. *)

FreqPage == [shown |-> Unknown, guard |-> "idle", busy |-> FALSE, follow |-> FALSE,
             timer |-> FALSE, verdict |-> "none"]
FreqModule == [lock |-> Initially, phase |-> "idle", previous |-> Initially]

ReadFreq == Ask("freq", All, Unknown)

\* The rest of loadFreqLock, after an answer or a failure.
Followed(p) ==
  LET q == [p EXCEPT !.timer = FALSE] IN
  IF p.guard = "checking" THEN [q EXCEPT !.timer = TRUE, !.verdict = "checking"]
  ELSE IF p.follow THEN [q EXCEPT !.follow = FALSE,
                           !.verdict = IF p.guard \in {"ok", "reverted", "failed"} THEN p.guard ELSE @]
  ELSE q

FreqAnswered ==
  /\ Reply("freq")
  /\ page' = Followed([page EXCEPT !.shown = Head(answers).snap.lock, !.guard = Head(answers).snap.phase])
  /\ Done(<<>>)
  /\ Page

FreqTimerFires ==
  /\ page.timer /\ Room(1)
  /\ page' = [page EXCEPT !.timer = FALSE]
  /\ Send(<<ReadFreq>>)
  /\ Page

\* lockFreq and unlockFreq; their buttons are off while freqBusy.
LockFreq ==
  /\ User /\ ~page.busy /\ Room(1)
  /\ page' = [page EXCEPT !.busy = TRUE, !.verdict = "none"]
  /\ \E v \in Values, kind \in {"freq_set", "freq_guarded", "freq_unlock"} :
       Send(<<Ask(kind, All, IF kind = "freq_unlock" THEN Initially ELSE v)>>)

FreqSet ==
  /\ Reply("freq_set") \/ Reply("freq_guarded") \/ Reply("freq_unlock")
  /\ LET a == Head(answers) IN
     page' = [page EXCEPT !.busy = FALSE,
                !.follow = IF a.ok /\ a.kind # "freq_unlock" THEN a.kind = "freq_guarded" ELSE @,
                !.verdict = IF a.ok THEN "none" ELSE "refused"]
  /\ Done(<<ReadFreq>>)
  /\ Page

FreqFailed(c) ==
  IF c.kind = "freq" THEN Followed(page) ELSE [page EXCEPT !.busy = FALSE, !.verdict = "refused"]

FreqHandled(c, ok) ==
  CASE c.kind = "freq_guarded" /\ ok ->
         [server EXCEPT !.lock = c.val, !.phase = "checking", !.previous = server.lock]
    [] c.kind = "freq_set" /\ ok -> [server EXCEPT !.lock = c.val, !.phase = "idle"]
    [] c.kind = "freq_unlock" -> [server EXCEPT !.lock = IF ok THEN c.val ELSE @,
                                                !.phase = IF @ = "checking" THEN "idle" ELSE @]
    [] OTHER -> server

FreqAnswer == FreqAnswered \/ FreqSet
Freq == FreqTimerFires \/ LockFreq

\* The guard finds a cell, or puts the earlier lock back, or fails to.
GuardDecides ==
  /\ panel \in {"bands", "freq"} /\ server.phase = "checking"
  /\ \E phase \in {"ok", "reverted", "failed"} :
       server' = [(IF phase # "reverted" THEN server
                   ELSE IF panel = "freq" THEN [server EXCEPT !.lock = server.previous]
                   ELSE [server EXCEPT !.bands[server.mode] = server.previous, !.untold = TRUE])
                  EXCEPT !.phase = phase]
  /\ UNCHANGED <<panel, page, calls, active, bounds>>

-----------------------------------------------------------------------------
(* Cell locks and the scans they are chosen from. A lock is a set of       *)
(* cells, {} for none.                                                     *)

Kinds == {"neighbour", "full"}
ScanModes == {"all", "lte"}
NoResult == [state |-> "none", mode |-> "all", cells |-> {}]

CellsPage == [lock |-> {Unknown}, busy |-> FALSE, refreshing |-> TRUE, timer |-> TRUE,
              settingsCall |-> TRUE, countdown |-> FALSE,
              loading |-> FALSE, scanning |-> FALSE, kind |-> "neighbour", mode |-> "none",
              known |-> FALSE, results |-> [k \in Kinds |-> NoResult], poll |-> FALSE,
              rows |-> {}, selected |-> {}]
Found(cells) == [state |-> "cells", mode |-> "all", cells |-> cells]
CellsModule == {[lock |-> {}, running |-> "none", mode |-> "all", latest |-> "neighbour",
                 results |-> [k \in Kinds |-> IF k = "neighbour" THEN r ELSE NoResult]] :
                  r \in {NoResult} \union {Found(cells) : cells \in Scans}}

ReadLocks == Ask("locks", All, Unknown)
ReadScans == Ask("scan_status", All, Unknown)
ReadSettings(p) == IF p.settingsCall THEN <<>> ELSE <<Ask("settings", All, Unknown)>>

\* refreshCellLocks: one at a time.
RefreshLocks(p) == IF p.refreshing THEN <<>> ELSE <<ReadLocks>>

LocksAnswered ==
  /\ Reply("locks")
  /\ page' = [page EXCEPT !.lock = Head(answers).snap.lock, !.refreshing = FALSE]
  /\ Done(<<>>)
  /\ Page

\* The interval that runs while the page is shown.
LockTick ==
  /\ page.timer /\ ~page.refreshing /\ Room(1)
  /\ page' = [page EXCEPT !.refreshing = TRUE]
  /\ Send(<<ReadLocks>>)
  /\ Page

\* Mutant: the ticks stay when the rows go.
RowsCleared(p) == [p EXCEPT !.rows = {}]

\* clearTableRowsBodyCellScan.
Cleared(p) == [p EXCEPT !.rows = {}, !.selected = {}]

\* showScanResult.
Shown(p, kind, match) ==
  LET r == p.results[kind] IN
  IF r.state = "none" \/ (match /\ r.mode # p.mode) THEN Cleared(p)
  ELSE [Cleared(p) EXCEPT !.mode = IF kind = "full" THEN r.mode ELSE @, !.rows = r.cells]

\* Mutant: the next look at a scan under way is not planned.
ScanSeen(p, s) ==
  [p EXCEPT !.loading = TRUE, !.scanning = TRUE, !.kind = s.running, !.poll = FALSE,
            !.mode = IF s.running = "full" THEN s.mode ELSE @]

ScanFollowed(p, s) ==
  [p EXCEPT !.loading = TRUE, !.scanning = TRUE, !.kind = s.running, !.poll = TRUE,
            !.mode = IF s.running = "full" THEN s.mode ELSE @]

\* applyScanStatus; the first status shows the result that is left, if any.
Applied(p, s, started) ==
  LET q == [p EXCEPT !.known = TRUE, !.results = s.results, !.poll = FALSE]
      over == [q EXCEPT !.loading = FALSE, !.scanning = FALSE] IN
  CASE s.running # "none" -> ScanFollowed(q, s)
    [] s.running = "none" /\ (p.scanning \/ started) -> Shown(over, q.kind, FALSE)
    [] s.running = "none" /\ ~(p.scanning \/ started) ->
         IF ~p.known /\ s.results[s.latest].state # "none"
         THEN Shown([over EXCEPT !.kind = s.latest], s.latest, FALSE) ELSE over

ScanStopped(p) == [p EXCEPT !.loading = FALSE, !.scanning = FALSE]

ScanAnswered ==
  /\ Reply("scan_status") \/ Reply("scan_start")
  /\ LET a == Head(answers) IN
     page' = IF a.ok THEN Applied(page, a.snap, a.kind = "scan_start") ELSE ScanStopped(page)
  /\ Done(<<>>)
  /\ Page

ScanTimerFires ==
  /\ page.poll /\ Room(1)
  /\ page' = [page EXCEPT !.poll = FALSE]
  /\ Send(<<ReadScans>>)
  /\ Page

\* The dialog of the countdown covers the page.
Idle == ~page.loading /\ ~page.busy /\ ~page.countdown

SetScanKind == \E k \in Kinds \ {page.kind} :
  /\ User /\ Idle
  /\ page' = Shown([page EXCEPT !.kind = k], k, FALSE)
  /\ SendNothing

ScanModeChange == \E m \in ScanModes \ {page.mode} :
  /\ User /\ Idle /\ page.kind = "full"
  /\ page' = Shown([page EXCEPT !.mode = m], "full", TRUE)
  /\ SendNothing

StartCellScan ==
  /\ User /\ Idle /\ Room(1)
  /\ page.kind = "full" => page.mode \in ScanModes
  /\ page' = [Cleared(page) EXCEPT !.loading = TRUE, !.scanning = TRUE]
  /\ Send(<<Ask("scan_start", page.kind, page.mode)>>)

ClearRows == User /\ Idle /\ page' = Cleared(page) /\ SendNothing

\* scannedCellsForMode.
ScannedCells(p) == CASE p.kind = "neighbour" \/ p.mode = "all" -> p.rows
                     [] p.kind = "full" /\ p.mode = "lte" -> p.rows \intersect Lte
                     [] p.kind = "full" /\ p.mode = "none" -> {}

ToggleCell == \E c \in ScannedCells(page) :
  /\ User /\ Idle
  /\ page' = [page EXCEPT !.selected =
       IF c \in @ THEN @ \ {c}
       ELSE IF c \in Nr \/ @ \intersect Lte = {} THEN {c}
       ELSE @ \union {c}]
  /\ SendNothing

\* lockSelectedCells; getCellDetails wants every ticked cell among the rows.
LockSelected ==
  /\ User /\ Idle /\ Room(1)
  /\ page.selected # {} /\ page.selected \subseteq ScannedCells(page)
  /\ page' = [page EXCEPT !.busy = TRUE]
  /\ Send(<<Ask("cell_lock", "init", page.selected)>>)

\* The manual locks and unlocks, which look at no flag, and the two buttons
\* of a saved lock, which are off while lockBusy and read nothing again.
LockByHand ==
  /\ User /\ ~page.countdown /\ Room(1)
  /\ page' = [page EXCEPT !.busy = TRUE]
  /\ \E key \in {"init", "saved"}, cells \in {{}} \union {{c} : c \in Cells} :
       /\ key = "saved" => ~page.busy
       /\ Send(<<Ask("cell_lock", key, cells)>>)

\* requestCellLock asks for the module's lock as well.
LockTaken(p, lock) == [p EXCEPT !.busy = FALSE, !.lock = lock, !.refreshing = TRUE]

CellLockAnswered ==
  /\ Reply("cell_lock")
  /\ LET a == Head(answers) IN
     IF a.ok
     THEN /\ page' = [LockTaken(page, a.snap.lock) EXCEPT !.countdown = @ \/ a.key = "init"]
          /\ Done(RefreshLocks(page))
     ELSE page' = [page EXCEPT !.busy = FALSE] /\ Done(<<>>)
  /\ Page

\* Of init(), what reads the locks: getCurrentSettings.
LockCountdownEnds ==
  /\ page.countdown /\ Room(1)
  /\ page' = [page EXCEPT !.countdown = FALSE, !.settingsCall = TRUE]
  /\ Send(ReadSettings(page))
  /\ Page

LocksRead ==
  /\ Reply("settings")
  /\ page' = [page EXCEPT !.lock = Head(answers).snap.lock, !.settingsCall = FALSE]
  /\ Done(<<>>)
  /\ Page

\* Mutant: a failed read of the locks leaves its flag set.
CellsStuck(c) ==
  CASE c.kind = "settings" -> [page EXCEPT !.settingsCall = FALSE]
    [] c.kind = "scan_start" -> ScanStopped(page)
    [] c.kind = "cell_lock" -> [page EXCEPT !.busy = FALSE]
    [] OTHER -> page

CellsFailed(c) ==
  CASE c.kind = "locks" -> [page EXCEPT !.refreshing = FALSE]
    [] c.kind = "settings" -> [page EXCEPT !.settingsCall = FALSE]
    [] c.kind = "scan_start" -> ScanStopped(page)
    [] c.kind = "cell_lock" -> [page EXCEPT !.busy = FALSE]
    [] OTHER -> page

CellsHandled(c, ok) ==
  CASE c.kind = "cell_lock" /\ ok -> [server EXCEPT !.lock = c.val]
    [] c.kind = "scan_start" /\ ok -> [server EXCEPT !.running = c.key,
                                                   !.mode = IF c.key = "full" THEN c.val ELSE @]
    [] OTHER -> server

\* No data call came up: the program takes the lock off again.
AutoUnlock ==
  /\ server.lock # {} /\ server' = [server EXCEPT !.lock = {}]
  /\ UNCHANGED <<panel, page, calls, active, bounds>>

OtherBrowserScans == \E k \in Kinds :
  /\ events < Budget[panel] /\ events' = events + 1 /\ server.running = "none"
  /\ server' = [server EXCEPT !.running = k, !.mode = "all"]
  /\ UNCHANGED <<panel, page, calls, active, failures>>

ScanFinishes ==
  /\ server.running # "none"
  /\ \E cells \in Scans \union {{}}, state \in {"cells", "error"} :
       /\ state = "error" => cells = {}
       /\ server.running = "full" /\ server.mode = "lte" => cells \subseteq Lte
       /\ server' = [server EXCEPT !.running = "none", !.latest = server.running,
            !.results[server.running] = [state |-> state, mode |-> server.mode, cells |-> cells]]
  /\ UNCHANGED <<panel, page, calls, active, bounds>>

\* Ten minutes later.
ResultExpires == \E k \in Kinds :
  /\ events < Budget[panel] /\ events' = events + 1 /\ server.results[k].state # "none"
  /\ server' = [server EXCEPT !.results[k] = NoResult]
  /\ UNCHANGED <<panel, page, calls, active, failures>>

CellsStep == \/ LockTick \/ ScanTimerFires \/ SetScanKind \/ ScanModeChange \/ StartCellScan
             \/ ClearRows \/ ToggleCell \/ LockSelected \/ LockByHand \/ LockCountdownEnds
             \/ AutoUnlock \/ OtherBrowserScans \/ ScanFinishes \/ ResultExpires
CellsAnswer == LocksAnswered \/ ScanAnswered \/ CellLockAnswered \/ LocksRead

-----------------------------------------------------------------------------
(* What the panels share. *)

Panels == {"bands", "cells", "freq", "pdp", "mbn"}
Lists == {"pdp", "mbn"}

\* sync() in init(): the page is entered, or left.
EnterNetwork ==
  /\ panel \in {"cells", "freq"} /\ Room(2) /\ events < Budget[panel]
  /\ events' = events + 1 /\ active' = TRUE
  /\ IF panel = "freq" THEN page' = page /\ Send(<<ReadFreq>>)
     ELSE /\ page' = [page EXCEPT !.refreshing = TRUE, !.timer = TRUE]
          /\ Send(RefreshLocks(page) \o <<ReadScans>>)
  /\ UNCHANGED <<panel, server, failures>>

LeaveNetwork ==
  /\ panel = "cells" /\ active /\ events < Budget[panel]
  /\ events' = events + 1 /\ active' = FALSE
  /\ page' = [page EXCEPT !.timer = FALSE]
  /\ UNCHANGED <<panel, server, calls, failures>>

Changing == {"lock", "lock_guarded", "reset", "save", "change", "reboot", "freq_set",
             "freq_guarded", "freq_unlock", "scan_start", "cell_lock"}

HandledBy(c, ok) == CASE panel = "bands" -> BandsHandled(c, ok)
                      [] panel = "cells" -> CellsHandled(c, ok)
                      [] panel = "freq" -> FreqHandled(c, ok)
                      [] panel \in Lists -> ListHandled(c, ok)

\* A scan is refused while one runs; anything else the module may refuse.
ServerHandles(i) ==
  LET c == flights[i] IN
  /\ \E ok \in BOOLEAN :
       /\ IF c.kind = "scan_start"
          THEN (ok <=> server.running = "none") /\ UNCHANGED bounds
          ELSE \/ ok /\ UNCHANGED bounds
               \/ /\ ~ok /\ events < Budget[panel] /\ c.kind \in Changing \union {"bands"}
                  /\ events' = events + 1 /\ failures' = failures + 1
       /\ server' = HandledBy(c, ok)
       /\ answers' = IF c.orphan THEN answers
            ELSE Append(answers, [kind |-> c.kind, key |-> c.key, ok |-> ok, snap |-> server'])
  /\ flights' = RemoveAt(flights, i)
  /\ UNCHANGED <<panel, page, active>>

FailedBy(c) == CASE panel = "bands" -> BandsFailed(c)
                 [] panel = "cells" -> CellsFailed(c)
                 [] panel = "freq" -> FreqFailed(c)
                 [] panel \in Lists -> ListFailed(c)

\* What is read again after a change whether it went well or not.
AfterFailure(c) ==
  CASE panel \in Lists /\ c.kind = "change" -> <<Load("after")>>
    [] panel = "freq" /\ c.kind # "freq" -> <<ReadFreq>>
    [] OTHER -> <<>>

\* The call is given up; the server may never have seen it, or obey it later.
CallFails(i) ==
  LET c == flights[i] IN
  Mishap /\ GiveUp(i, c.kind \in Changing, FailedBy(c), AfterFailure(c))

Deliver == CASE panel = "bands" -> BandsAnswer
             [] panel = "cells" -> CellsAnswer
             [] panel = "freq" -> FreqAnswer
             [] panel \in Lists -> ListAnswer

PageOf(p) == CASE p = "bands" -> BandsPage [] p = "cells" -> CellsPage
               [] p = "freq" -> FreqPage [] p \in Lists -> ListPage
ModulesOf(p) == CASE p = "bands" -> {BandsModule} [] p = "cells" -> CellsModule
                   [] p = "freq" -> {FreqModule} [] p \in Lists -> {ListModule}

\* init() is under way.
FirstCalls(p) == CASE p = "bands" -> <<Ask("model", All, Unknown)>>
                   [] p = "cells" -> <<ReadLocks, ReadScans, Ask("settings", All, Unknown)>>
                   [] p = "freq" -> <<ReadFreq, ReadFreq>>
                   [] p \in Lists -> <<Load("first")>>

NetworkInit ==
  /\ panel \in Panels
  /\ page = PageOf(panel) /\ server \in ModulesOf(panel) /\ flights = FirstCalls(panel)
  /\ answers = <<>> /\ active = TRUE /\ failures = 0 /\ events = 0

PanelStep == \/ panel = "bands" /\ Bands
             \/ panel = "cells" /\ CellsStep
             \/ panel = "freq" /\ Freq
             \/ panel \in Lists /\ List

NetworkNext == \/ PanelStep \/ Deliver \/ GuardDecides \/ EnterNetwork \/ LeaveNetwork
               \/ \E i \in DOMAIN flights : ServerHandles(i) \/ CallFails(i)

Spec == NetworkInit /\ [][NetworkNext]_vars

-----------------------------------------------------------------------------
(* Fairness: timers fire, the server works off what it has, a guard and a  *)
(* scan end.                                                               *)

Timers == \/ panel = "cells" /\ (ScanTimerFires \/ LockCountdownEnds)
          \/ panel = "freq" /\ FreqTimerFires
          \/ panel = "bands" /\ (GuardTimerFires \/ \E k \in Keys \union {"save"} : BandsCountdownEnds(k))

LiveSpec == /\ Spec
            /\ WF_vars(Deliver)
            /\ WF_vars(flights # <<>> /\ ServerHandles(1))
            /\ WF_vars(Timers)
            /\ WF_vars(panel = "cells" /\ LockTick)
            /\ WF_vars(panel = "cells" /\ ScanFinishes)
            /\ WF_vars(GuardDecides)

-----------------------------------------------------------------------------
(* Properties. *)

\* Nothing is under way for the page.
Quiet ==
  /\ flights = <<>> /\ answers = <<>>
  /\ CASE panel = "bands" -> page.countdown = {} /\ page.polls = 0
       [] panel = "freq" -> ~page.timer
       [] OTHER -> TRUE

\* Once the page is at rest, and no call failed, what it shows
\* as locked or set is what the module holds, whatever guards took back
\* meanwhile; a carrier profile that waits for a restart has its button. (A
\* guarded band lock made before the page hears that the guard of an earlier
\* one put its list back takes that verdict's place: the page never learns.)
ShownIsReal ==
  Quiet /\ failures = 0 =>
    CASE panel = "bands" -> ~server.overtaken =>
                            /\ page.setting \in {Unknown, server.setting}
                            /\ \A m \in Modes : page.shown[m] \in {Unknown, server.bands[m]}
      [] panel = "freq" -> /\ page.shown = server.lock
                           /\ page.verdict \in {"ok", "reverted", "failed"} => page.verdict = server.phase
      [] panel \in Lists -> /\ page.shown = server.set
                            /\ server.set # server.inForce => page.reboot
      [] OTHER -> TRUE

\* A tick is on a cell of the table, and the ticks are several LTE cells or
\* one NR cell, across scans, other scans, changes of kind and mode.
SelectionIsShown ==
  panel = "cells" =>
    /\ page.selected \subseteq page.rows
    /\ page.selected \subseteq Lte \/ \E c \in Nr : page.selected = {c}

\* While the page stays shown, the lock on it becomes the module's for good,
\* failed reads and late changes included.
LocksConverge == <>[](panel = "cells" /\ active => page.lock = server.lock)

\* What the page follows comes to an end: a scan, the guard of a frequency
\* lock, the guard of a band lock.
Following == \/ panel = "cells" /\ page.scanning
             \/ panel = "freq" /\ page.follow
             \/ panel = "bands" /\ page.polls > 0
FollowingEnds == Following ~> ~Following \/ failures > 0
-----------------------------------------------------------------------------
(* The invariant the proofs rest on (NetworkPageProofs).                   *)

GuardPhases == {"idle", "checking", "ok", "reverted", "failed", "cancelled"}

BandsPages ==
  [model : BOOLEAN, modelCall : {"none", "pending", "rejected"}, attempt : Nat, drawn : BOOLEAN,
   shown : [Modes -> Shows], inFlight : SUBSET Keys, retry : SUBSET Keys,
   retries : [Keys -> Nat], setting : Shows, settingsCall : BOOLEAN,
   countdown : SUBSET (Keys \union {"save"}), polls : Nat]
BandsModules == [bands : [Modes -> Values], phase : GuardPhases, mode : Keys, previous : Values,
                 setting : Values, untold : BOOLEAN, overtaken : BOOLEAN]

ListPages == [shown : Shows, busy : BOOLEAN, reboot : BOOLEAN, form : BOOLEAN]
ListModules == [set : Values, inForce : Values]

FreqPages == [shown : Shows, guard : GuardPhases, busy : BOOLEAN, follow : BOOLEAN,
              timer : BOOLEAN,
              verdict : {"none", "checking", "ok", "reverted", "failed", "refused"}]
FreqModules == [lock : Values, phase : GuardPhases, previous : Values]

Results == [state : {"none", "cells", "error"}, mode : ScanModes, cells : SUBSET Cells]
Locks == SUBSET (Cells \union {Unknown})
CellsPages ==
  [lock : Locks, busy : BOOLEAN, refreshing : BOOLEAN, timer : BOOLEAN,
   settingsCall : BOOLEAN, countdown : BOOLEAN, loading : BOOLEAN, scanning : BOOLEAN,
   kind : Kinds, mode : ScanModes \union {"none"}, known : BOOLEAN, results : [Kinds -> Results],
   poll : BOOLEAN, rows : SUBSET Cells, selected : SUBSET Cells]
CellsModules == [lock : Locks, running : Kinds \union {"none"}, mode : ScanModes, latest : Kinds,
                 results : [Kinds -> Results]]

\* A call has a kind of its panel and what that kind is about.
CallsOf(kinds, keys, vals) == [kind : kinds, key : keys, val : vals, orphan : BOOLEAN]

BandsCalls == CallsOf({"model", "bands", "settings", "band_guard"}, Keys, {Unknown})
              \union CallsOf({"lock", "lock_guarded"}, Modes, Values)
              \union CallsOf({"reset", "save"}, {All}, Values)
ListCalls == CallsOf({"load"}, {"first", "after"}, {Unknown})
             \union CallsOf({"change"}, {"form", All}, Values)
             \union CallsOf({"reboot"}, {All}, {Unknown})
FreqCalls == CallsOf({"freq"}, {All}, {Unknown})
             \union CallsOf({"freq_set", "freq_guarded", "freq_unlock"}, {All}, Values)
CellsCalls == CallsOf({"locks", "scan_status", "settings"}, {All}, {Unknown})
              \union CallsOf({"scan_start"}, {"neighbour"}, ScanModes \union {"none"})
              \union CallsOf({"scan_start"}, {"full"}, ScanModes)
              \union CallsOf({"cell_lock"}, {"init", "saved"}, SUBSET Cells)

AnswersOf(called, modules) ==
  [kind : {c.kind : c \in called}, key : {c.key : c \in called}, ok : BOOLEAN, snap : modules]

Typed(pages, modules, called) ==
  /\ page \in pages /\ server \in modules
  /\ flights \in Seq(called) /\ answers \in Seq(AnswersOf(called, modules))

TypeOK ==
  /\ panel \in Panels /\ active \in BOOLEAN /\ failures \in Nat /\ events \in Nat
  /\ panel = "bands" => Typed(BandsPages, BandsModules, BandsCalls)
  /\ panel \in Lists => Typed(ListPages, ListModules, ListCalls)
  /\ panel = "freq" => Typed(FreqPages, FreqModules, FreqCalls)
  /\ panel = "cells" => Typed(CellsPages, CellsModules, CellsCalls)

\* Profiles and contexts: what a reply says is so, or the reply to a change
\* follows it, which has the list read again.
ListAgrees ==
  /\ \A i \in DOMAIN answers : answers[i].kind = "load" =>
       \/ answers[i].snap.set = server.set
       \/ \E j \in DOMAIN answers : i < j /\ answers[j].kind = "change"
  /\ page.shown = server.set \/ UnderWay({"load"}) \/ Told({"load", "change"})

\* The change that waits for a restart was told after the last restart was.
RestartOffered ==
  server.set # server.inForce =>
    \/ page.reboot /\ ~Told({"reboot"})
    \/ \E i \in DOMAIN answers :
         /\ answers[i].kind = "change"
         /\ \A j \in DOMAIN answers : i < j => answers[j].kind # "reboot"
PdpAtOnce == panel = "pdp" => server.inForce = server.set
ListInv == ListAgrees /\ RestartOffered /\ PdpAtOnce

\* The frequency lock: what a reply says is so, or was said of a guard that had
\* not decided, or the reply to a change follows it.
FreqChanges == {"freq_set", "freq_guarded", "freq_unlock"}
Decided == {"ok", "reverted", "failed"}
FreqAgrees ==
  /\ \A i \in DOMAIN answers : answers[i].kind = "freq" =>
       \/ answers[i].snap.phase = "checking"
       \/ answers[i].snap.lock = server.lock /\ answers[i].snap.phase = server.phase
       \/ \E j \in DOMAIN answers : i < j /\ answers[j].kind \in FreqChanges
  /\ \/ page.shown = server.lock /\ page.guard = server.phase /\ page.guard # "checking"
     \/ page.timer \/ UnderWay({"freq"}) \/ Told({"freq"} \union FreqChanges)

\* A verdict stays true until the reply to the next change.
VerdictHolds ==
  /\ \A i \in DOMAIN answers : answers[i].snap.phase \in Decided =>
       \/ answers[i].snap.phase = server.phase
       \/ \E j \in DOMAIN answers : i < j /\ answers[j].kind \in FreqChanges
  /\ page.verdict \in Decided => page.verdict = server.phase \/ Told(FreqChanges)
FreqInv == FreqAgrees /\ VerdictHolds

\* The verdict of a band guard is still to come: its timer runs, or was asked,
\* or will be set by a reply on its way.
VerdictComes ==
  \/ page.polls > 0 \/ UnderWay({"band_guard"}) \/ Told({"lock_guarded"})
  \/ \E i \in DOMAIN answers : answers[i].kind = "band_guard" /\ answers[i].snap.phase = "checking"

\* The reply has the page forget the list of this mode.
Forgets(a, m) ==
  \/ a.kind \in {"lock", "lock_guarded", "reset"} /\ a.key \in {m, All}
  \/ a.kind = "band_guard" /\ a.snap.phase \in {"reverted", "failed"}

\* Bands: what a reply says of a mode is so, or the page has yet to hear why not.
BandsAgree ==
  \A m \in Modes : ~server.untold =>
    /\ \A i \in DOMAIN answers : answers[i].kind = "bands" /\ answers[i].key \in {m, All} =>
         \/ answers[i].snap.bands[m] = server.bands[m]
         \/ \E j \in DOMAIN answers : i < j /\ Forgets(answers[j], m)
    /\ \/ page.shown[m] \in {Unknown, server.bands[m]}
       \/ \E j \in DOMAIN answers : Forgets(answers[j], m)

GuardIsFollowed ==
  /\ server.phase = "checking" \/ server.untold => VerdictComes
  /\ server.untold => server.phase = "reverted"

SettingAgrees ==
  /\ \A i \in DOMAIN answers : answers[i].kind = "settings" =>
       \/ answers[i].snap.setting = server.setting
       \/ \E j \in DOMAIN answers : i < j /\ answers[j].kind = "save"
  /\ \/ page.setting \in {Unknown, server.setting}
     \/ "save" \in page.countdown
     \/ UnderWay({"model", "settings"}) \/ Told({"model", "settings", "save"})

\* What the page waits for is under way.
WaitsForCalls ==
  /\ page.modelCall = "pending" => UnderWay({"model"}) \/ Told({"model"})
  /\ page.modelCall # "rejected"
  /\ page.settingsCall => UnderWay({"settings"}) \/ Told({"settings"})
BandsInv == BandsAgree /\ GuardIsFollowed /\ SettingAgrees /\ WaitsForCalls

IndInv ==
  /\ TypeOK /\ SelectionIsShown
  /\ failures = 0 /\ panel # "cells" =>
       /\ NothingFailed
       /\ panel = "bands" /\ ~server.overtaken => BandsInv
       /\ panel = "freq" => FreqInv
       /\ panel \in Lists => ListInv
=============================================================================
