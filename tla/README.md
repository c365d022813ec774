# Verification of SimpleAdmin

TLA+ models, TLC runs and TLAPS proofs for the administration of Quectel 5G modules in this
repository: the Rust server on the module (`src/src/`), its web pages
(`src/development/simpleadmin/www/js/`), and the Windows assistant that installs both
(`src/installer/`). A file named without a directory is one of `src/src/` (`*.rs`) or of the
web pages (`*.js`). `PROJECT.json` lists components, runs, mutants, hazards and the findings,
and maps every definition to its lines.

## 1. The system

**The server.** One process on the module serves the web pages and keeps several background
tasks. All tasks run on one thread (`main.rs` 166-170, tokio `current_thread`): two of them interleave only
where one waits at an `.await`. Code between two awaits is therefore one atomic step in the
models. Two things run elsewhere: writes to disk (`spawn_blocking`), which finish even when
the task that waits for them is dropped, and the AT worker (`at.rs` 146-207), one thread that
takes commands from a queue of 16 and talks to the module.

| Part | Keeps | Operations | Talks to |
| --- | --- | --- | --- |
| AT worker, queue, cache (`at.rs`, `at_policy.rs`, `at_log.rs`) | queue, cached answers, log | run, fetch, invalidate, refresh | the module; everyone below |
| Frequency lock (`freq_lock.rs`) | saved lock, phase, guard, generation, mutex; `freq-lock.json` | lock, unlock, restore at startup, guard task | AT, Store, events |
| Cell locks (`cell_lock.rs`) | a rule per radio, deadlines, phase, mutex, Notify; `cell-lock.json` | apply, restore, check of deadlines | AT, Store |
| Band guard (`band_guard.rs`, `server.rs` 1078) | generation, status | cancel, watch, revert | AT, events |
| Watchdog (`watchdog.rs`) | settings, tier, restart count and outage; `watchdog.json`, `watchdog-state.json` | loop, recover (4 tiers), save | AT, telemetry, events, both locks (through the module) |
| Telemetry (`telemetry.rs`) | history, target, schedule, probe | probe, set target, set schedule | AT, events, Store |
| Events (`events.rs`) | last 200 events, outage in progress | observe, push, subscribe | watchdog, forwarding |
| Notifications (`forwarding.rs`) | settings, generation, detector, queue, outcomes; `forwarding.json` | poll, deliver, notice, save | AT, platforms, events, cleanup |
| SMS cleanup (`cleanup.rs`) | plans to delete; `sms-delete-receipts.json` | schedule, cancel, flush, delete | AT, Store |
| Online update (`ota.rs`) | phase, latest, settings | check, install, daily check | network, installer |
| Login (`auth.rs`) | sessions, failures | attempt, create, revoke | Store |
| Scans (`scan.rs`) | running scan, last results | begin, finish | AT |
| Persistence (`persistence.rs`) | one lock | update: temporary file, rename, sync, remount | all that save |
| Requests (`server.rs`) | - | one handler per endpoint | all |

**The web pages.** One page in the browser (`simpleadmin-spa.js` shows and leaves its views) with
an object per view. All of them call the server through one WebSocket
(`simpleadmin-core.js`, `SimpleAdmin.Api`). JavaScript runs one callback at a time: code
between two awaits is one step, and whatever an object holds may have changed after an await.

| Part | Keeps | Operations | Talks to |
| --- | --- | --- | --- |
| Web API client (`simpleadmin-core.js`, `ws_loop` of `server.rs`) | handle, attempt under way, map of calls, ids | request, open, message, error, close, time limit, check of the login | every page; the server |
| SMS page (`pages/sms.js`) | list, ticks, open message, settings, poll state | load, tick, open, delete, save, send, poll | server's SMS calls |
| Network page (`pages/network.js`) | bands, locks, scans, ticks, profiles, countdowns | lock, unlock, scan, follow, apply | both locks, scans, band guard |
| Settings page (`pages/settings.js`) | forms, countdown, update state | actions with restart, watchdog form, update, accounts | watchdog, update, login |
| Dashboard, monitor, events, AT queue, notifications, device (`pages/*.js`, `monitor.js`) | what was read last, timers, forms | poll, leave, hide, edit, save | telemetry, events, AT log, notifications |
| Router (`simpleadmin-spa.js`) | view, address, history | link, group, back and forward | all pages |

**The Windows assistant.** A program on the user's PC with a local web server and one page.
One operation runs at a time, on a thread of its own, over ADB (`engine.rs`) or over the
serial port (`qualcomm.rs`); the page polls what it does.

| Part | Keeps | Operations | Talks to |
| --- | --- | --- | --- |
| Server (`installer/src/server.rs`) | operation slot, token to cancel, identified module, plan that waits, devices | state, devices, identify, preview, confirm, dismiss, read, stop, run, quit | the operation; the page |
| Operation (`qualcomm.rs`, `engine.rs`) | the link, what is left of a plan | open and verify, commands, finish | the module |
| Page (`installer/web/app.js`) | last state, dialog, timers | poll, render, clicks, confirm, quit | the server |

Parsers, encoders, TLS, console, resolver, translations and the shell scripts have little
state or none that others rely on; `PROJECT.json` gives the reason for each.

### What is hard here

- **Handlers are dropped.** When the client of a plain HTTP request disconnects, the handler ends
  at its await. What it had handed to the AT worker or to a writing thread may still happen. Only
  some handlers are spawned and run to their end (`server.rs` 655, 757). Calls over the WebSocket
  run in tasks of their own (1381) and are not dropped with it.
- **Three outcomes of a command.** It is obeyed and answered, obeyed with the answer lost, or
  refused or never sent. The service acts on the answer.
- **Three outcomes of a write.** Written; written but reported as failed (`committed`);
  failed. Memory follows the first two.
- **State read before an await** and used after it: the settings, the generation, the lock in
  force, the list of messages.
- **Restarts.** The program restarts at any point, the module too (the watchdog restarts it
  on purpose) and forgets its locks. Files survive, everything else does not.
- **Mutexes held over AT commands**, so that a task waits for another's whole conversation.
- **Connections replace each other.** A page's connection ends at any time; its events may
  come when a newer one is opened or in use, and both share the map of calls. The server may
  carry out a call whose page was told that it failed.
- **Answers to yesterday's question.** A page is left, hidden, edited or told to load again
  while calls are under way; polls overlap; other browsers and guards change what the page shows.
- **Timers of timers.** Polls, countdowns and followed scans set their next timer when the last
  answer arrives: one answer lost or of another kind may end them, or leave two.
- **A plan and its agreement.** What the user agreed to in the assistant, what waits, the
  operation that runs and the module on the port change separately.

### What makes each part correct

- Frequency lock: "unlocked" means gone from module, file and memory; no file holds a lock
  that memory forgot; a guard that was replaced does nothing; a reported revert took place; a
  guard is decided.
- Cell locks: a rule that removes itself is always watched, by a deadline or because it was
  seen connected; a removed rule is gone and does not come back; the background task does
  not sleep through a deadline.
- Watchdog: the number of restarts in a row is bounded whatever happens between them; the
  outage that caused a restart is the same outage afterwards; steps undo what did not help.
- Notifications and cleanup: nothing is deleted unless every channel confirmed it; nothing is
  forwarded twice or for a switch that is off; a plan is on file before it is carried out.
- Web API client: a call is settled once, by the reply to its own request; none waits for ever.
- Pages: marks stay on the messages and cells they were made on; what is shown at rest is what
  the server holds; busy flags and waits end; polls go on while the page is shown and only
  then; what the user types is not overwritten; the address is that of the view.
- Assistant: only what was agreed to is sent, once, to the module that was identified; a stop
  ends the operation it was meant for; the dialog shows the plan that waits.
- Not modelled yet: frequency and cell lock of the NR radio exclude each other; the radio step
  brings back only locks that are still wanted; cached answers are never older than the last
  change; the queue and cache limits are kept; one update at a time.

## 2. The modules

Each component module is the state as variables, one action per step between two awaits, and
its properties at the end. `MC<Component>` gives it small sets and nothing else, apart from
`MCFreqLock`, which also states the two claims that do not hold. Some properties are stated because a document or a text of the program
makes the claim and the code does not keep it: two have a run that is expected to be violated,
the others are part of no run and say so (section 4). An operator with the comment *Mutant* is
a plausible bug; it is used by no action and serves to show that the property next to it can
fail. An operator named *bound* or commented *Bound* keeps the instance finite.

### FreqLock and GuardedLock (`freq_lock.rs`, `server.rs` 655-661, 1017-1049)

`modem`, `file` and `saved`/`stored` are the lock in the module, in the file and in memory;
`phase`, `guard` and `generation` what the page shows; `mutation` who holds the mutex;
`client[c]` a request, `boot` the restore, `watch[g]` the guard of generation `g` with the
lock it would put back. `unsure` is a history variable: an answer was lost, so nobody knows
what the module holds. A lock is a model value: the entries of a request matter only as equal
or different. `LockRequest` takes the lock in force (`previous`) without the mutex, as the
handler does; `UnlockDropped` is the disconnect. A guard's waiting times and its five checks
are a choice between "serves" and "no service".

`GuardedLock` is what the user is promised, without requests, tasks, mutex and generations: the
lock in the module (`module`), on disk and in memory, what is reported, one operation under way
at most (`busy`), one lock on trial at most (`trial`) and the lock the start has still to send
(`restore`). `FreqLock` implements it (`Promise`, `KeepsPromise`): `Busy` is the request between its
command and its end, `Trial` the guard of the current generation, whatever guards of earlier
generations are still asleep, and a wait for the mutex is a stutter. The last section of the
module, from `Sending` on, is this mapping. Waiting for nobody (a mutant of `Acquire`) or
acting for an old generation (a mutant of `Current`) breaks the refinement.

### CellLock (`cell_lock.rs`, `server.rs` 745-761)

`rules`, `file`, `modem`, `phase` and `deadline` per radio. A deadline is a stage: none,
fresh, settled (the delay before the first query has passed), due. `permit` is the permit of
the `Notify`, `keeper` the background task (restore, then check and wait), `client[c]` a
request. `ApplyRollback` is the second command sent when the save failed.

### Watchdog (`watchdog.rs`, parts of `events.rs` and `telemetry.rs`)

`settings`/`settingsFile`/`saver` are the saved settings and the request that saves them;
`reboots`, `since`, `stateFile` the restart count and outage; `dirty` a change of the
settings the loop has not looked at yet; `loop` the task with the settings of its step (`under`) and its
tier; `cooling` and `warm` the cooldown and the quiet period after a start; `probing`,
`probe`, `seenOk`, `outage`, `reported` what telemetry and events know. `away` says whether
the SIM slot differs from the one the SIM step began with. `series` (restarts since the
connection was last seen), `interrupted` and `lost` (a count could not be written) are
history; `series` is reset by the probe itself and not by what the watchdog believes.
Times are abstracted to short and long outages.

### Forwarding (`forwarding.rs`, `cleanup.rs`, parts of `server.rs`)

Four tasks: `poll`, `flight` (the delivery), `Notice` (receiver of outages) and `sweep` (the
minute tick). The generation is modelled as a flag `stale` that a change of generation sets on
whoever read the old one. `queue` is a set of jobs: age decides which job is ready, expired or
due, so any may be. `outcomes` counts the channels a message still waits for; `receipts`,
`receiptsFile` and `unsaved` are the plans. `Completed` and `Schedule` are parts of the
delivery step, as in the code. History: `wanted`, `delivered`, `queuedTimes`, `deleted`,
`cancelled`. `sms_mutation` and the settings mutex are taken together by every saver and are
one variable. A message or a notice is queued on the channels there is room for (`Accepted`): the room is a
number of jobs, and any job may be refused besides, for the queue has a budget of bytes too. The SIM channel, `test()` and the age of the cached message list are left out:
a read of the inbox sees what is in it.

### WebApi and RequestService (`simpleadmin-core.js` 13-174, `server.rs` `ws_loop`)

`ws` and `connectPromise` are the two shared handles, `state[s]` the readyState of each
connection, `joined[s]` the calls whose promise waits for it to open, `pending` the map.
`requests`, `running` and `replies` are what is in flight and at the server. `OnOpen`,
`OnError`, `Closing`, `OnClose` and `OnMessage` are the handlers; `Timeout` the time limit of a call;
`CheckHandled` and `CheckAnswered` the HTTP question whether the login still holds.
`RequestService` is the promise in terms of `made`, `handled` and `result` alone: make, handle,
answer, refuse, fail. `PromiseKept` is that `WebApi` implements it; the refinement mapping
(`INSTANCE RequestService WITH made <- made, handled <- handled, result <- result`) takes the
three variables as they are and forgets ids, connections and the map. The modules of the pages take from it that each call is
settled, and that a failed one may still be carried out. Handled means carried out, or answered
with an error status by the server (400, 401, 404, 405, 413; `server.rs` 428-441, 486): an answer
says that the server is done with the call, its status what came of it. Only 429 is told apart,
as the refusal of a call the server never looked at.

### SmsPage (`pages/sms.js`)

Every call is a flight: handled by the server when it comes to it, answered later or failed
at any time. `shown` is the list, `selected` and `detail` are positions in it, as in the code;
`ticked` and `opened` are history and remember the messages. `pend` is the change of the index
a poll has seen and how often. `Without` is the list after a deletion: `Place` says to which
place a message that stays moves up. `DeleteAllSettled` is `Promise.allSettled` over the two banks.

### NetworkPage (`pages/network.js`)

Five panels that share only the connection: bands, cells, frequency lock, profiles, MBN. A
behaviour looks at one of them. `server` is what the server and the module hold, with the
guards, scans and locks as far as the page sees them. Replies come in the order the calls were
handled; calls are handled in any order. The section at the end of the module states the types
and the invariant of the proofs and models nothing.

### PageCalls, SettingsPage, SmallPages, Pages

`PageCalls` is what the network pages and the modules below share: one panel, its fields, its
calls, the server's side, and what a call that is given up leaves behind. `SettingsPage` has the
network functions, the watchdog's form, the update and the accounts; `SmallPages` the pages that
poll and the router. A call may be answered with an error although it was done (`ok` and `done` of
`SettingsHandles` and `PageHandles`): the file was written and its commit reported as failed, or the
command obeyed and what follows it failed. The update has its check, its installation and the
save of its settings, by this page and by others, and the installer's three ends: an error, a
restart, or success without a restart; `silent` is history and says that the installation ended
without a word to the page that follows it. An edit of its form, the log of an earlier update and
the preview mode are left out. The input of AT commands takes the Enter key while the page is
covered, so `SendATCommand` has no guard but the user's. `Pages` puts the two together: a behaviour looks at one panel of either. Its
last section states the types and the invariant of the proofs and models nothing.

### Assistant (`installer/src/server.rs`, `qualcomm.rs`, `main.rs`, `installer/web/app.js`)

`busy`, `identity`, `pending`, `devices` are the fields of `Inner`, `scanning` the flag of
`App`, `cancel` the token of the operation begun last. One action per handler (`Handle...`);
serial work has a second, `BeginSerial`, because `serial_task` reads the identity, lets the
lock go and claims the slot after it, and two handlers may be between the two. `worker` is
the operation, step by step from opening the port to `finish`; `scan` the thread that lists
devices with the handler that waits for it. `page` is the page's state, with `shown` for
`pendingShown` and `dialog` for the dialog being open. A poll is handled when it is sent and
answered when it may be. `ClosePage` keeps the calls the server has read and drops the
handler that waits. `agreed`, `ran` and `worker.stopped` are history.

## 3. Runs

Bounds are the constants of the `.cfg` files. The runs of the server check deadlock. The runs
of the pages and the assistant do not (`CHECK_DEADLOCK FALSE`): there a behaviour ends when the
user has done what its bound allows, every call is settled, or the program has ended.

| Run | Instance | Shows |
| --- | --- | --- |
| `freq_lock` | 2 locks (symmetric), 1 client, 2 generations | UnlockedIsGone, NoForgottenLock, RevertIsReal, KeepsPromise (the refinement) |
| `freq_lock_live` | 1 lock, 1 client, 2 generations, fair | GuardIsDecided |
| `freq_lock_restore` | as `freq_lock` | a finding of section 4 |
| `cell_lock` | 1 radio, 2 cells, 2 clients, fair | AutoUnlockIsWatched, RemovedIsGone, ModuleHoldsSaved, NoLostWakeup, DueIsDecided, RemovalIsRetried |
| `watchdog` | 3 settings, 3 outages (symmetric), at most 2 restarts | RebootLimit, OutageSurvives |
| `forwarding` | 1 message of 2 fragments, 2 channels, 1 outage, 3 settings, queue of 2, 1 plan | DeletedWasDelivered, ForwardedOnce, PendingIsTrue, DeletionIsOnFile, OffIsQuiet |
| `forwarding_queue` | as `forwarding` | QueueBound, a finding of section 4 |
| `web_api` | 3 calls, 3 connections, 1 request at the server at a time, fair | PromiseKept (the refinement), NobodyForgotten, EveryCallSettles |
| `sms_page` | 2 messages stored, 1 more to come, 3 places in 2 banks, 2 calls under way, 3 events, fair | MarksFollowMessages, QuietElsewhere, BusyEnds, InboxConverges |
| `network_page` | 2 modes, 2 values, 2 LTE cells and 1 NR cell, 2 calls under way, 2 to 4 events by panel, fair | ShownIsReal, SelectionIsShown, LocksConverge, FollowingEnds |
| `pages` | 2 values, 3 views in 2 groups, history of 4, 3 calls under way, 3 events (4 for the router), fair | SettingsAreReal, EditsSurvive, WaitsEnd, PollingGoesOn, QuietWhenAway, SamplesAreOfTarget, AddressIsView |
| `assistant` | 2 modules, 2 plans, 2 commands a plan, 4 kinds of behaviour of 3 to 5 events, polls fair | OnlyAgreedIsSent, StopStopsOne, DialogFollowsPlans |

The `TypeOK` of the modules say the types and are in no run; those of `FreqLock`, `CellLock`,
`Watchdog`, `Forwarding`, `WebApi`, `SmsPage`, `NetworkPage` and `Assistant`, and the `PageTypeOK` of
`Pages`, are proved.

Why these bounds are enough to meet the interesting cases:

- Two generations are a guard and its successor; the client, the restore and two guards are
  four contenders for the mutex. Restarts are unbounded in every run, so an unlimited number
  of lives is covered with the generations starting anew. `FreqLockProofs` removes the bounds
  on locks, clients and generations.
- Two cells per radio make "another lock than before" and "the same lock again" happen; two
  clients and the background task contend for the mutex. One radio keeps the instance small
  enough for the two liveness properties; what two radios share, the file, the mutex and the task,
  is what the clients contend for too, and `CellLockProofs` proves the four safety properties for
  every number of radios, cells and clients.
- A limit of two restarts with settings of limit one and two lets the limit be lowered below
  the count. Three outages are the interrupted one, the one of the restarted program and a
  later one. `series` saturates one above the limit, where the property is violated already.
  `WatchdogProofs` removes the bounds on settings, outages and restarts.
- Two channels and a queue of two make the queue overflow for part of a message, behind a
  notice that waits on both channels. The message of two fragments may arrive in two
  parts, before and after the baseline. The three settings are everything on, forwarding off,
  and deletion and notice off; every pair of them can follow each other. `ForwardingProofs`
  removes the bounds on messages, fragments, channels, outages, settings, queue and plans.
- Three connections are one that ends, its successor and one more, so an old one may tell of
  its end while the next opens, is in use, or was replaced in turn. With three calls one can
  wait in the map, one for a connection, and one be made after both. One request at a time at
  the server makes the other ones be refused. `WebApiProofs` removes these bounds.
- A user event is a click, a page left or shown, or a call that fails: three or four of them,
  with two or three calls under way and any number of polls, are an action, the poll or reload that
  races it, and a failure or a second action between the two. Two values make "changed" and
  "changed back" differ. The store of two banks lets half a deletion fail. The scan finds one of two
  sets, so that a new scan drops cells that were ticked. `SmsPageProofs` removes the bounds on
  messages, places, calls and events of the SMS page, `PageProofs` those on modes, values, cells,
  scans, views, groups, history, calls and events of the other pages.
- The assistant's behaviours are of four kinds, since all of them together have too many states to check: plans
  of two modules that are swapped; operations and late stops; two overlapping polls; devices,
  quitting and pages that come and go. Two plans let one replace the other under its dialog; two
  commands a plan have a stop between them. `AssistantProofs` removes the bounds on modules, plans,
  commands and events, and lets all kinds happen in one behaviour.

Fairness. `FreqLock` and `CellLock` assume weak fairness of each task's own steps (the
runtime polls a ready task, the AT worker answers or times out, a write ends) and strong
fairness of taking the mutex (tokio's mutex is a FIFO queue: whoever waits gets it although
others take it in between). `CellLock` also assumes that time passes. Requests, dropped
handlers, restarts and the module's own restarts have no fairness. `GuardIsDecided` excepts
`restore_failed`: there the code really leaves the guard "checking" (`freq_lock.rs` 336-348).
No fairness says that a write or a command succeeds, so a removal may fail for ever;
`RemovalIsRetried` says that after each failure the next try comes, as `docs/sms-cell-lock.md:50`
promises.

For the pages: `WebApi` assumes that timers fire and that an attempt to connect ends, and
nothing of the server or the network. The modules of the pages assume what `EveryCallSettles`
gives them, that the server works off a call it has and its answer is taken, that timers fire,
that a scan, a guard, a check or an installation ends, and that the service comes back after
an installation. Users, failures, other browsers and changes of the module have no fairness.
`Assistant` assumes that the page polls (its timers) and each poll is answered or fails; nothing of
users, other handlers and threads.

## 4. What the models found

Two claims are violated by the code and have a run.

- `freq_lock_restore`: `start()` copies the saved entries before it waits for the mutex and may
  send a lock that was removed or replaced meanwhile; its comment (`freq_lock.rs:324`) says that it
  sends a saved lock.
- `forwarding_queue`: `docs/sms.md:33` says that at most 64 jobs wait, besides the one being sent. A
  delivery that is to be tried again, or goes on with the next part, puts its job back
  (`forwarding.rs` 897, 914) without looking at the limit, and the queue may have filled up while it
  was under way: 65 wait and none is being sent. `TypeOK` states the bound that holds.

The following claims of documents, comments or texts are stated in the modules. TLC finds each
violated; they are part of no run.

| Claim | What the code does |
| --- | --- |
| `MCFreqLock!PreviousIsInForce` | the lock a guard would put back is read four commands before the mutex and may have been replaced (`server.rs` 1027) |
| `Watchdog!RebootLimitAlways` | the write of the restart count may fail unnoticed, the module restarts all the same and the limit no longer holds. `RebootLimit` is the claim that does hold: the limit as long as the count could be written (`lost` is false) |
| `Watchdog!SimReturns` | after a SIM switch the module refused, the switch "back" leaves the slot |
| `Forwarding!NoticeOffIsQuiet` | a notice in flight is queued again after notices were switched off. `OffIsQuiet` is the same claim for SMS, which holds |
| `Forwarding!CancelledIsKept` | cancelled deletions come back after a restart within the minute before the file is written, once the option is on again |
| `SettingsPage!InstalledIsTrue` | a page that follows the daily check, or a check of someone else, says "installed, waiting for the service to restart" when the check has ended, and polls for good (`settings.js` 634, 725) |
| `Assistant!SkippedWhileScanning` | the handler of a device listing is dropped when its page is closed or loaded again; the flag it would reset stays set, and every later listing is skipped until the program is started again (`installer/src/server.rs` 437-457). The page goes on saying that a device will appear by itself |
| `Assistant!OperationIsNotCut` | after "quit" was accepted, a call the server has already read may begin an operation, which ends with the program; `docs/build.md:87` says that the program does not quit while one runs |

Seen while modelling the server and not stated as properties: a failed unlock calls the guard off and
leaves the lock unguarded; `freq_unlock` and `watchdog_save` dropped while they write leave
file and memory apart, and a later save equal to memory is then skipped (`freq_lock.rs` 240,
`watchdog.rs` 236); the watchdog restarts the module although it was switched off while the
count was being written (388); scans time out after 190 s (`scanTimeout`), where
`docs/security.md:42` says 150 s.

Seen while modelling the pages:

- `network.js`: a rejected promise of the model stays for good (997); one failed poll of
  the band guard ends its following without a word (731), and a guarded band lock made before the
  page hears an earlier guard's revert takes that verdict's place (728-755; `ShownIsReal`
  excepts it); a failed `scan_status` poll leaves `isLoading` (272-276); the restart after an MBN
  change is not kept from running twice; manual cell locks ignore `lockBusy`.
- `settings.js`: a second countdown begun within five seconds of the end of another gets
  `isRebooted` early (302-308); a late failure in `ipPassThroughDisable` starts the countdown
  again (422-427); `watchdogLoad` stops for good when an answer arrives in a hidden tab
  (772-775); an edit made while a save is under way is overwritten by its answer (824-826);
  a check whose request and following refresh both fail stays "checking" (658-673); `otaPoll`
  goes on for good when an installation failed and its error is cleared within the 1.5 s before
  the next poll, by a check or by a save of the update's settings (`ota.rs` 526), the user's own
  included (729), or when the installer reported success and the service was not restarted (`ota.rs`
  751; `WaitsEnd` excepts these by `silent`, and TLC finds it violated without the exception); an edit
  of the update's form made during its save is replaced by the answer (734); a lost
  answer to the install request shows a failure while the installation goes on (675-688).
- `events.js` and `atqueue.js` have no single flight: after leaving and returning two chains of timers may run.
- `forwarding.js` reads settings, changes them and saves them (106-108): a change made in
  between, the SMS flags included, is lost.
- The assistant: overlapping polls append the same log lines twice; `dismiss` has no number
  and drops a plan made after the one declined; a confirmation while the slot is busy loses its
  plan; a plan is verified against the module identified when it is confirmed, the dialog shows
  the one of an earlier poll.

## 5. Proofs

Each `<Component>Proofs` module ends with its theorems; `PageProofs` has those of `NetworkPage`
and `Pages`. All of them rest on `Invariance`, `Spec => []IndInv` (for `Pages` on
`PageInvariant` and `PageInv`): the property to be proved is seldom inductive, and `IndInv`,
stated in the component's module as a conjunction of named parts, adds what the code relies on
without saying so. Every `IndInv` was checked by TLC on the instance of the component's run
before it was proved. The assumptions are those named in the component's module (`ASSUME`), and
TLC evaluates them in the run. `TypeCorrect`, `Spec => []TypeOK`, is proved for every component
below (`PageTypes` for `Pages`).

### FreqLock

`FreqLockProofs` proves for every set of locks, every set of clients and every `MaxGeneration`,
from the assumptions named in `FreqLock`:

- `TypeCorrect`: `Spec => []TypeOK`
- `GoneIsGone`: `Spec => []UnlockedIsGone`
- `NothingForgotten`: `Spec => []NoForgottenLock`
- `ReplacedGuardIsHarmless`: `Spec => ReplacedGuardNeverActs`
- `RevertsAreReal`: `Spec => RevertIsReal`
- `PromiseIsKept`: `Spec => KeepsPromise`, the refinement of `GuardedLock`

`ReplacedGuardNeverActs` is in no run of its own: a guard that acts after it was replaced breaks
the refinement too (the mutant of `Current`). `UnlockedIsGone` is not inductive: the state between the two halves of an unlock, with another task
about to act, must be excluded. `IndInv` adds

- `Holding`: whoever is between taking and releasing the mutex holds it, and a guard does so
  only while its generation is current. This is what makes every critical section exclusive;
- `RoomKept`: whoever is about to begin a generation was let in below the bound;
- `GuardBelongs`: a guard belongs to a generation that has begun, and while it is the current
  one no unlock is under way and the phase is not "unlocked";
- `Known`: what the module holds at each stage at which the code relies on it.

The proof has one lemma per conjunct of `IndInv` and, below it, one step per action.

The refinement needs `Blank` besides: a record without a request, a restore or a guard has
nothing left in it, and the others name a lock (an unlock under way looks the same whoever sends
it). One lemma per action says which step of `GuardedLock` it is: `BusyIs` and `BusyKept` read
the mapping through the mutex (who sends holds it, by `Holding`), `GuardActs` through the
generation (who is in a guard's section is the guard on trial), `NoGuardYet` says that a new
generation begins without one, and `WatchUnseen` that older guards only fall silent.

### WebApi

`WebApiProofs` proves for every set of calls and of connections and every `Concurrency`, from the
assumptions named in `WebApi`:

- `TypeCorrect`: `Spec => []TypeOK`
- `NobodyIsForgotten`: `Spec => []NobodyForgotten`
- `HandledOnce`: `Spec => []SentOnce`, the server has a call at most once and never after it
  handled it or refused it
- `PromiseIsKept`: `Spec => Promise!Spec`, the client with the server's end implements
  `RequestService`: initial states map to initial states and every step to a step or a stutter

The promise is about calls, the code works with ids, so `IndInv` says how the two agree: an id
belongs to one call wherever it is met (`OneId`); a call is at the server once and only before it
is handled (`SentOnce`); a reply says what happened (`RepliesAreTrue`); a call that waits for a
connection waits on one list, once, and was not sent (`JoinedOnce`); a call has one entry in the
map and only while it waits (`PendingWaits`); nothing is about a call that was not made
(`OnlyMade`); the shared attempt is a connection that still opens (`AttemptIsConnecting`); and
`NobodyForgotten`, which is not inductive without them. The two actions that send, `RequestNow` and
`OnOpen`, share the lemmas about a batch of new ids (`Batch`, `SendsBatch`, `BatchKeeps`,
`SendsKeep`); every other action puts no id on a call it was not on (`StepTags`).

### CellLock

`CellLockProofs` proves for every number of radios and every set of cells and of clients:

- `LocksAreWatched`: `Spec => []AutoUnlockIsWatched`
- `RemovedLocksAreGone`: `Spec => []RemovedIsGone`
- `ModuleFollowsSettings`: `Spec => []ModuleHoldsSaved`
- `WakeupIsNotLost`: `Spec => []NoLostWakeup`
- `OneAtATime`: of the requests and the background task at most one is between its first
  command and its last

The properties speak of the moments at which the mutex is free; `IndInv` says what holds inside a
section, so that it can be left. `Holding`: whoever is inside holds the mutex. `RequestsAreSound`:
only a persistent lock removes itself, and an unlock is neither. `SavedIsOnFile`: memory and file
differ only while a write is under way. `RestoreCovers`: every radio the restore has passed has no
rule to send or was touched, by it or by a request. `TouchedIsWatched`: a touched lock that removes
itself has a deadline or was seen connected. `DeadlinesBelong`: a deadline runs only for a lock
installed as persistent. `RemovalIsDue`: the removal under way is of a radio whose time is up, and
its saved rule is off. `Known`: what the module holds in each phase. `NoLostWakeup` itself is
inductive with them: either the permit is there, or the keeper has yet to look at the deadlines.

### Watchdog

`WatchdogProofs` proves for every set of settings and of outages and every `MaxReboots`:

- `RestartsAreLimited`: `Spec => RebootLimit`
- `OutagesSurvive`: `Spec => []OutageSurvives`

`RebootLimit` compares the restarts that happened (`series`) with the limit; the code compares a
count that is in memory, is being written, or is on file. `SeriesIsCounted` says that the restarts
are counted in the one or the other unless a write was lost, `NextIsCounted` that a restart is
counted in memory, then on file, before it is sent, and `ClearedHasEnded` that a count is set back
only when the series has ended. For the outage, `InterruptedBelongs` says that an interrupted
outage is part of a series and ends with it, `CountedIsReported` that the outage that was counted
is on record, and `InterruptedIsKept` that telemetry, the loop and the file all hold the
interrupted one. Only `lost` (a write that failed unnoticed) is excepted.

### Forwarding

`ForwardingProofs` proves for every finite set of messages, fragments and channels, any outages and
settings, and every size of queue and list of plans:

- `OnlyArrivedIsDeleted`: `Spec => []DeletedWasDelivered`
- `NoneIsForwardedTwice`: `Spec => []ForwardedOnce`
- `CountsAreTrue`: `Spec => []PendingIsTrue`
- `DeletionsAreOnFile`: `Spec => []DeletionIsOnFile`
- `SwitchedOffIsQuiet`: `Spec => OffIsQuiet`

`DeletedWasDelivered` is far from inductive: a deletion rests on a plan, the plan on a file or a
write under way, the plan on a count that came to zero without a failure, and the count on the jobs
in the queue and the delivery under way. `IndInv` follows this chain: `DueIsPlanned`, `FileIsKnown`
and `PlansFit` (the plan, in memory, on file and being written), `PlannedHasArrived` (a plan is of
a message that has arrived on every channel), `PendingIsTrue` (the count is the number of jobs),
`NothingIsDropped` (a message that is still counted without a failure has, on every channel it was
to go to, a job or an arrival), `JobsBelong` (a message's jobs are of the channels it is to go to,
one for each, which the settings still want), `ForwardedIsSeen` (the detector knows each message it
forwarded while it can still meet it), `PollIsOn` and `Holding` (a poll that counts was begun under
settings that want it; who is inside holds the mutex). The lemmas behind it are about the
operators: what `Completed` does to the count (`CountStep`), what a delivery makes of the queue
(`DeliveryJobs`, `Struck`), and that the last job of a message without a failure means it has
arrived (`FinishedHasArrived`). `PendingIsTrue` counts jobs, so the queue must be finite:
`FiniteAssumption`. `FragmentsAssumption` says that a message has at least one part, which the code
gives by construction (a part is a row of the inbox). `IndInv` was also checked with messages of
one fragment and a queue of three.

### SmsPage

`SmsPageProofs` proves for every set of messages, any inbox and any number of calls and events:

- `MarksStayOnMessages`: `Spec => []MarksFollowMessages`
- `NoPollElsewhere`: `Spec => []QuietElsewhere`

`MarksFollowMessages` is about positions: unticking one message, or moving the marks to a list the
server sent, must not touch another message. That needs every list to hold each message once, and a
list comes from the store by way of a call, a held poll or the list shown; `TypeOK` says it of each
of them, and `StoreHasArrived` that a message still to come is not in store. The lemmas are
`Places` (after a deletion the messages left move up to the first places, one on each),
`WithoutIsList`, `PrependIsList`, `MarksMoved` (marks moved by identity stay on their messages) and
`LeastNumber` (the message a dialog is restored to).

### NetworkPage

`PageProofs` proves for every set of modes, values, cells and scans, any number of calls under
way, of failures and of events:

- `ShownStaysReal`: `Spec => []ShownIsReal`
- `SelectionStaysShown`: `Spec => []SelectionIsShown`

`ShownIsReal` speaks of a page at rest; `IndInv` says why it gets there. It has one idea, stated for
each panel: what a reply or the page says of the module is so, or something that is still under way
will correct it. For the PDP contexts and profiles that is the reply to a change, or the fresh read
it leads to (`ListAgrees`), and a restart that is due was offered or will be (`RestartOffered`,
`PdpAtOnce`). For the frequency lock a reply that says "checking" will be asked again by its timer
(`FreqAgrees`), and a verdict stays true until the reply to the next change (`VerdictHolds`). For the
bands, where the server alone knows that a guard put its list back, the reply to a change of the list
or about the guard has the page forget it (`BandsAgree`), the verdict is still to come
(`GuardIsFollowed`, `VerdictComes`), and settings that were saved are read again by the init() after
the countdown (`SettingAgrees`), which must find its calls under way (`WaitsForCalls`). All of it
holds as long as no call failed (`NothingFailed`), and for the bands as long as no verdict was
overtaken, as the property itself says. `SelectionIsShown` is inductive: `ShownIs` and `AppliedIs` say
that a scan's result takes the ticks with the rows or leaves both.

Replies keep the order in which calls were handled. The lemmas about that are stated once for all
panels: `Removed` (a sequence without its i-th element), `SentAsks` (new calls leave the earlier
ones to be answered), `Shift` (the first reply is gone, the others move up) and `Grow` (one more comes
last and says what the module now holds). `ValuesAssumption` says that what is set at first can be
set, `ScansAssumption` that a scan finds cells. `IndInv` was also checked with three calls under way.

### Pages

`PageProofs` proves for every set of values, of views and their groups, any number of calls under
way, of failures and of events, and any history of the browser:

- `SettingsReality`: `PageSpec => []SettingsAreReal`
- `SamplesOfTarget`: `PageSpec => []SamplesAreOfTarget`
- `AddressOfView`: `PageSpec => []AddressIsView`
- `EditsAreKept`: `PageSpec => EditsSurvive`
- `AwayIsQuiet`: `PageSpec => QuietWhenAway`

They share the invariant `PageInv` and one lemma per panel (`NetworkStepKeeps` to `RouterStepKeeps`)
that says what a step does to it. For the network functions `SetAgrees` and `TtlAgrees` have the idea
of the network pages: the last reply and the page say what the server does, or something under way
will have the page ask again; `JobIsCovered` says that the commands the server still runs after its
answer end under a countdown, after which the page reads the settings. `WatchdogInv` says the same
of the watchdog's form, unless it was edited. The monitor's samples need that each reply carries
samples of one target (`MonitorServers`) and that the page adds a reply to its own samples only
when both are of one generation; `TimerIsSeen` says that its timer runs only while the page is seen. `ChangedWasLoaded` says that
the notifications are edited only after they were loaded, without which a late answer would take
the place of an edit. For the router `RouterInv` says that the address is that of the view, or that
both events which follow it are to come and the page was not switched yet. `Polled` says what a step
of a page that polls may send while the page is away; the lemmas on `PollsAt` count polls in what
is left of the calls.

`GroupsAssumption` says that every view has a group, `ViewsAssumption` that the overview is a view
and the empty address names none, as in the table of `simpleadmin-spa.js`. `PageInv` was also checked with TLC,
its numbers bounded.

### Assistant

`AssistantProofs` proves for every set of modules and of behaviours, any number of plans and of
commands in a plan:

- `AgreedAndOnce`: `Spec => OnlyAgreedIsSent`
- `StopsAreExact`: `Spec => StopStopsOne`

The claim is about the task, the danger lies in what is handed to it. `OneOwner` says that a plan
that was not dropped has one owner: it waits (`pending`), one handler has taken it, or the task has
it. `Confirmed` says that whoever has a confirmed plan has one the user agreed to in its dialog,
and a module, `Numbered` that the number of a new plan is met nowhere yet, `Begun` that the task
has all its commands left until the first is sent. `Slot` says that a task has the slot, and that
the token in `cancel` is its own: cancelled exactly when this task was told to stop. This is what
keeps a late stop from the next operation. `PortIsOpen` says that the module at the port is the one
identified when the port was opened. Instead of one lemma per action and conjunct, `StepKinds` and
`EveryKind` class the steps by what becomes of plans and task, and each conjunct is proved by kind.

### Only model-checked

Liveness is out of the prover's reach: GuardIsDecided, DueIsDecided, RemovalIsRetried, EveryCallSettles, BusyEnds,
InboxConverges, LocksConverge, FollowingEnds, WaitsEnd, PollingGoesOn and DialogFollowsPlans stay
with TLC. Every safety property a run checks is proved.

## 6. Not modelled, and the plan

In this order; each module is written so that it can be proved about (constants with
assumptions, one action per step, no RECURSIVE operators).

1. `LockExclusion`: `FreqLock` and `CellLock` beside each other with the checks of
   `server.rs` 751 and 1024: the forbidden combination.
2. `WatchdogRadio`: `radio()` against an unlock by the user and a module that keeps or
   forgets its locks; the radio is on again.
3. `At`: bounded queue, abandoned requests, cache entries with the query under way,
   invalidation; bounds and freshness; then `BandGuard` on top of it, with the dropped handler
   of `lock_bands`, and the multi-command requests of `server.rs`.
4. `Store`: the steps of `update()` with a crash after each; implements the atomic write with
   three outcomes the other modules use (a refinement).
5. The SIM channel of `Forwarding`, with two messages; `Ota`; `Throttle` and the sessions;
   history rings and cursors of `telemetry.rs` as pure operators against a reference.
6. Steps of an installation over ADB (`engine.rs`) with a cable pulled between two of them; the
   requests of `simpleadmin-core.js` that go through fetch, its theme and language helpers.

Not planned: charts and formatting of the pages, translations, band tables, the DOM helpers, TLS, the console,
the resolver, system metrics, the simulated module and the shell scripts, which are I/O or
data without a state others rely on.
