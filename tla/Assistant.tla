----------------------------- MODULE Assistant -----------------------------
(***************************************************************************)
(* The Windows assistant (installer/): its page (web/app.js), its server   *)
(* (src/server.rs), and the one task that works at a time, over ADB or     *)
(* over the serial port (engine.rs, qualcomm.rs: the order of their steps).*)
(*                                                                         *)
(* The page asks for the state again and again, and each click is a call.  *)
(* Calls go over connections of their own: they are handled in any order   *)
(* and answered in any order.  A page that is closed takes its connections *)
(* with it; what the server has read by then it still handles, but a       *)
(* handler that waits for a thread is dropped with its connection.         *)
(*                                                                         *)
(* poll() is called by its timers, when a call has ended and when the page *)
(* comes to view; a timer is set whenever no poll is under way, and polls  *)
(* overlap.  Here the page polls at any time, and a poll is handled when   *)
(* it is sent (one that waits is one not sent yet); its answer comes later.*)
(* The end of other calls does nothing but poll, but for two.              *)
(*                                                                         *)
(* Abstracted: one serial port and one ADB device, every module supported; *)
(* ports, presets, reports, logs, status texts and what a plan's commands  *)
(* are (a plan is its number and whether the module restarts with it);     *)
(* the status window; how long a page must be away before the program ends *)
(* (a page opened again in time is one that was never missed).             *)
(***************************************************************************)
EXTENDS Naturals, FiniteSets

CONSTANTS Modules, NoModule,
          Commands,   \* commands of a plan without a restart
          MaxPlans,   \* bound: plans made
          Uses        \* bound: what one behaviour contains: [doing, events, polls]

ASSUME NoModuleAssumption == NoModule \notin Modules
ASSUME CommandsAssumption == Commands \in Nat \ {0}
ASSUME UsesAssumption == Uses \subseteq [doing : SUBSET STRING, events : Nat, polls : Nat]

VARIABLES
  attached,  \* the module on the serial port
  plugged,   \* an ADB device is there
  busy, identity, pending, devices, scanning, \* Inner and App
  cancel,    \* the Cancel token of the operation begun last
  handling,  \* handlers of serial work that have read the identity
  worker,    \* the blocking task
  scan,      \* the thread that lists devices, and the call that waits for it
  serving,   \* "yes", "stopping" after shutdown was notified, "no"
  page,
  flights,   \* calls not handled: [kind, arg, orphan]
  answers,   \* of polls: what they saw; "rescanned"; "quit"
  plans,     \* plans made so far
  agreed,    \* history: plans whose dialog the user agreed to
  ran,       \* history: plans that sent a command
  use,       \* what users do in this behaviour, chosen at the start
  events     \* what they did, and the listings that the timer asked for

world == <<attached, plugged>>
inner == <<busy, identity, pending, devices>>
threads == <<cancel, handling, worker, scanning, scan>>
calls == <<flights, answers>>
history == <<agreed, ran>>
bounds == <<use, events>>
vars == <<world, inner, threads, serving, page, calls, plans, history, bounds>>

-----------------------------------------------------------------------------

NoPlan == [id |-> 0, restarts |-> FALSE]
CommandsOf(plan) == IF plan.restarts THEN 1 ELSE Commands

NoWorker == [pc |-> "none", task |-> "adb", expected |-> NoModule, plan |-> NoPlan,
             left |-> 0, link |-> FALSE, stopped |-> FALSE]

\* stopped is history: a stop was handled while this operation had the slot.
Worker(task, expected, plan) ==
  [NoWorker EXCEPT !.pc = "open", !.task = task, !.expected = expected, !.plan = plan,
                   !.left = CommandsOf(plan)]

NoScan == [running |-> FALSE, handler |-> FALSE, kind |-> "devices"]

\* What of the state the buttons go by.
Snapshot == [busy |-> busy, known |-> identity # NoModule, devices |-> devices]
NoSnapshot == [busy |-> "none", known |-> FALSE, devices |-> FALSE]

\* data is state.data, null until loaded; shown is state.pendingShown, 0 for
\* null; rescan: the timer of scheduleDevices is set; over is state.exited.
ClosedPage == [open |-> FALSE, loaded |-> FALSE, data |-> NoSnapshot, shown |-> 0, dialog |-> FALSE,
               rescan |-> FALSE, offline |-> 0, over |-> FALSE]
FreshPage == [ClosedPage EXCEPT !.open = TRUE, !.rescan = TRUE]

Call(kind, arg) == [kind |-> kind, arg |-> arg, orphan |-> FALSE]

\* Bound: the devices are listed only in behaviours about them.
OnLoad == {Call("devices", 0) : does \in use.doing \intersect {"devices"}}

Polled(slot) == [kind |-> "state", slot |-> slot, data |-> Snapshot, plan |-> pending.id]
Other(kind) == [kind |-> kind, slot |-> 0, data |-> NoSnapshot, plan |-> 0]

Init ==
  /\ attached \in Modules /\ plugged = FALSE
  /\ busy = "none" /\ identity = NoModule /\ pending = NoPlan /\ devices = FALSE
  /\ cancel = FALSE /\ handling = {} /\ worker = NoWorker /\ scanning = FALSE /\ scan = NoScan
  /\ serving = "yes"
  /\ use \in Uses
  /\ page = FreshPage /\ flights = OnLoad /\ answers = {}
  /\ plans = 0 /\ agreed = {} /\ ran = {} /\ events = 0

-----------------------------------------------------------------------------
(* The page. *)

Serves == serving # "no"
Live == page.open /\ ~page.over
Event(does) ==
  /\ does \in use.doing /\ events < use.events
  /\ events' = events + 1
  /\ UNCHANGED use
ElsewherePage == UNCHANGED <<world, inner, threads, serving, plans>>

Polls == {a \in answers : a.kind = "state"}

\* Bound: so many polls at a time.
SendPoll ==
  /\ Live /\ Serves
  /\ \E slot \in 1..use.polls :
       /\ \A a \in Polls : a.slot # slot
       /\ answers' = answers \union {Polled(slot)}
  /\ UNCHANGED <<page, flights, history, bounds>>
  /\ ElsewherePage

\* scheduleDevices: without a call, the timer is set again at once.
RescanTimerFires ==
  /\ Live /\ page.rescan /\ page.loaded /\ page.data.busy = "none"
  /\ Event("rescan")
  /\ page' = [page EXCEPT !.rescan = FALSE]
  /\ flights' = flights \union {Call("rescan", 0)}
  /\ UNCHANGED <<answers, history>>
  /\ ElsewherePage

\* Mutant: a plan that is gone is remembered as shown.
RenderPendingKept(p, plan) ==
  IF plan = 0 THEN [p EXCEPT !.dialog = FALSE]
  ELSE IF p.shown = plan THEN p ELSE [p EXCEPT !.shown = plan, !.dialog = TRUE]

RenderPending(p, plan) ==
  IF plan = 0 THEN [p EXCEPT !.dialog = FALSE, !.shown = 0]
  ELSE IF p.shown = plan THEN p ELSE [p EXCEPT !.shown = plan, !.dialog = TRUE]

PollAnswered(a) ==
  /\ a \in Polls
  /\ page' = RenderPending([page EXCEPT !.data = a.data, !.loaded = TRUE, !.offline = 0], a.plan)
  /\ answers' = answers \ {a}
  /\ UNCHANGED <<flights, history, bounds>>
  /\ ElsewherePage

ShowOverlay(p) == [p EXCEPT !.over = TRUE, !.rescan = FALSE]

\* The program is gone, or about to go: three failed polls show the overlay.
PollFails ==
  /\ Live /\ serving # "yes"
  /\ page' = IF page.offline = 2 THEN [ShowOverlay(page) EXCEPT !.offline = 3]
             ELSE [page EXCEPT !.offline = @ + 1]
  /\ UNCHANGED <<calls, history, bounds>>
  /\ ElsewherePage

\* "quit" was accepted: the overlay. The listing that the timer asked for has
\* ended: the timer is set again.
CallAnswered(a) ==
  /\ a \notin Polls
  /\ page' = IF a.kind = "quit" THEN ShowOverlay(page) ELSE [page EXCEPT !.rescan = ~page.over]
  /\ answers' = answers \ {a}
  /\ UNCHANGED <<flights, history, bounds>>
  /\ ElsewherePage

\* The buttons there are: what the page knows decides, and an open dialog
\* covers them. Bound: one call of a kind waits at a time.
Buttons ==
  IF ~page.loaded \/ page.dialog \/ page.over THEN {}
  ELSE {"quit"}
    \union (IF page.data.busy = "none" THEN {"identify", "devices"} ELSE {})
    \union (IF page.data.busy = "serial" THEN {"stop"} ELSE {})
    \union (IF page.data.busy = "none" /\ page.data.known THEN {"check", "restart", "read"} ELSE {})
    \union (IF page.data.busy = "none" /\ page.data.devices THEN {"run"} ELSE {})

Click(kinds) ==
  /\ page.open
  /\ \E f \in {Call(kind, 0) : kind \in Buttons \intersect kinds} \ flights :
       Event(f.kind) /\ flights' = flights \union {f}
  /\ UNCHANGED <<page, answers, history>>
  /\ ElsewherePage

ClickSerial == Click({"identify", "check", "restart", "read", "stop"})
RefreshDevices == Click({"devices"})
RunOperation == Click({"run"})
Quit == Click({"quit"})

\* confirm-ok: the number of the plan is read, then the dialog is closed.
Agree ==
  /\ page.open /\ page.dialog /\ Event("agree")
  /\ Call("confirm", page.shown) \notin flights
  /\ flights' = flights \union {Call("confirm", page.shown)}
  /\ agreed' = agreed \union {page.shown}
  /\ page' = [page EXCEPT !.dialog = FALSE]
  /\ UNCHANGED <<answers, ran>>
  /\ ElsewherePage

Decline ==
  /\ page.open /\ page.dialog /\ Event("decline")
  /\ Call("dismiss", 0) \notin flights
  /\ flights' = flights \union {Call("dismiss", 0)}
  /\ page' = [page EXCEPT !.dialog = FALSE]
  /\ UNCHANGED <<answers, history>>
  /\ ElsewherePage

\* pagehide. Of the calls under way the server may have read some.
ClosePage ==
  /\ page.open /\ Event("close")
  /\ \E read \in SUBSET {f \in flights : ~f.orphan} :
       flights' = {f \in flights : f.orphan} \union {[f EXCEPT !.orphan = TRUE] : f \in read}
  /\ answers' = {}
  /\ scan' = [scan EXCEPT !.handler = FALSE]
  /\ page' = ClosedPage
  /\ UNCHANGED <<world, inner, cancel, handling, worker, scanning, serving, plans, history>>

\* The page is opened, or loaded again: it polls and lists devices.
OpenPage ==
  /\ ~page.open /\ serving = "yes" /\ Event("open")
  /\ page' = FreshPage
  /\ flights' = flights \union OnLoad
  /\ UNCHANGED <<answers, history>>
  /\ ElsewherePage

-----------------------------------------------------------------------------
(* The server: one action for each handler, two for those that begin       *)
(* serial work.                                                            *)

\* A call ends; the page makes something of the end of these two only.
Reply(f, ok) ==
  answers' = IF f.orphan \/ ~(f.kind = "rescan" \/ (f.kind = "quit" /\ ok)) THEN answers
             ELSE answers \union {Other(f.kind)}

\* refresh_devices, up to the thread it waits for.
HandleDevices(f) ==
  /\ f.kind \in {"devices", "rescan"}
  /\ IF busy # "none" \/ scanning
     THEN Reply(f, TRUE) /\ UNCHANGED <<scanning, scan>>
     ELSE /\ scanning' = TRUE
          /\ scan' = [running |-> TRUE, handler |-> ~f.orphan, kind |-> f.kind]
          /\ UNCHANGED answers
  /\ UNCHANGED <<inner, cancel, handling, worker, serving, plans>>

\* Mutant: the token of the operation before is kept.
KeptToken == cancel

FreshToken == FALSE

\* begin: the slot is claimed, with a token that nobody has cancelled.
Begin(kind, task, expected, plan) ==
  /\ busy' = kind
  /\ cancel' = FreshToken
  /\ worker' = Worker(task, expected, plan)

\* Mutant: whatever is pending is confirmed.
ConfirmsAny(id) == pending.id # 0

Confirms(id) == pending.id = id

\* serial_task, first half: the identity is read, by confirm after its plan
\* was taken.
HandleSerial(f) ==
  /\ f.kind \in {"identify", "check", "read", "confirm"}
  /\ LET found == f.kind = "confirm" => Confirms(f.arg)
         plan == IF f.kind = "confirm" /\ found THEN pending ELSE NoPlan
     IN
     /\ pending' = IF f.kind = "confirm" /\ found THEN NoPlan ELSE pending
     /\ IF found /\ (f.kind = "identify" \/ identity # NoModule)
        THEN /\ handling' = handling \union
                  {[call |-> f, plan |-> plan,
                    expected |-> IF f.kind = "identify" THEN NoModule ELSE identity]}
             /\ UNCHANGED answers
        ELSE Reply(f, FALSE) /\ UNCHANGED handling
  /\ UNCHANGED <<busy, identity, devices, cancel, worker, scanning, scan, serving, plans>>

\* serial_task, second half.
BeginSerial(h) ==
  /\ Serves
  /\ handling' = handling \ {h}
  /\ IF busy # "none" THEN Reply(h.call, FALSE) /\ UNCHANGED <<busy, cancel, worker>>
     ELSE Begin("serial", h.call.kind, h.expected, h.plan) /\ Reply(h.call, TRUE)
  /\ UNCHANGED <<world, identity, pending, devices, scanning, scan, serving, page, flights, plans, history, bounds>>

NewPlan(restarts) ==
  /\ plans < MaxPlans
  /\ plans' = plans + 1
  /\ pending' = [id |-> plans + 1, restarts |-> restarts]

\* preview of a plan that needs nothing read first: restart, factory, custom.
HandlePreview(f) ==
  /\ f.kind = "restart"
  /\ IF identity = NoModule THEN Reply(f, FALSE) /\ UNCHANGED <<pending, plans>>
     ELSE (\E restarts \in BOOLEAN : NewPlan(restarts)) /\ Reply(f, TRUE)
  /\ UNCHANGED <<busy, identity, devices, threads, serving>>

HandleDismiss(f) ==
  /\ f.kind = "dismiss"
  /\ pending' = NoPlan
  /\ Reply(f, TRUE)
  /\ UNCHANGED <<busy, identity, devices, threads, serving, plans>>

HandleStop(f) ==
  /\ f.kind = "stop"
  /\ cancel' = TRUE
  /\ worker' = IF worker = NoWorker THEN NoWorker ELSE [worker EXCEPT !.stopped = TRUE]
  /\ Reply(f, TRUE)
  /\ UNCHANGED <<inner, handling, scanning, scan, serving, plans>>

\* run_operation
HandleRun(f) ==
  /\ f.kind = "run"
  /\ IF ~devices \/ busy # "none"
     THEN Reply(f, FALSE) /\ UNCHANGED <<busy, cancel, worker>>
     ELSE Begin("adb", "adb", NoModule, NoPlan) /\ Reply(f, TRUE)
  /\ UNCHANGED <<identity, pending, devices, handling, scanning, scan, serving, plans>>

HandleQuit(f) ==
  /\ f.kind = "quit"
  /\ serving' = IF busy = "none" THEN "stopping" ELSE serving
  /\ Reply(f, busy = "none")
  /\ UNCHANGED <<inner, threads, plans>>

Handle(f) ==
  /\ Serves
  /\ flights' = flights \ {f}
  /\ \/ HandleDevices(f) \/ HandleSerial(f) \/ HandlePreview(f)
     \/ HandleDismiss(f) \/ HandleStop(f) \/ HandleRun(f) \/ HandleQuit(f)
  /\ UNCHANGED <<world, page, history, bounds>>

\* The listing ends, with the devices or with an error. What it found is put
\* down, and the flag reset, by the handler: if it still waits.
ScanEnds ==
  /\ scan.running
  /\ scan' = NoScan
  /\ IF scan.handler
     THEN /\ devices' \in {devices, plugged}
          /\ scanning' = FALSE
          /\ Reply(Call(scan.kind, 0), TRUE)
     ELSE UNCHANGED <<devices, scanning, answers>>
  /\ UNCHANGED <<world, busy, identity, pending, cancel, handling, worker, serving, page, flights, plans, history, bounds>>

\* watchdog (without the status window): the page went away and no operation
\* runs. What the page asked last has long been handled.
WatchdogExits ==
  /\ serving = "yes" /\ ~page.open /\ busy = "none" /\ flights = {} /\ handling = {}
  /\ serving' = "stopping"
  /\ UNCHANGED <<world, inner, threads, page, calls, plans, history, bounds>>

\* The connections have come to their end; what runs then ends with the
\* program. Calls still under way fail, which the next polls tell as well.
Stops ==
  /\ serving = "stopping" /\ handling = {} /\ ~scan.handler
  /\ serving' = "no"
  /\ flights' = {}
  /\ scan' = NoScan
  /\ UNCHANGED <<world, inner, cancel, handling, worker, scanning, page, answers, plans, history, bounds>>

-----------------------------------------------------------------------------
(* The task. *)

Task == UNCHANGED <<world, busy, devices, cancel, handling, scanning, scan, serving, page, calls, agreed, bounds>>
GoTo(pc) == worker' = [worker EXCEPT !.pc = pc]
At(pc, tasks) == Serves /\ worker.pc = pc /\ worker.task \in tasks
Serial == {"identify", "check", "read", "confirm"}

\* An error or a stop: what was identified and what is pending is dropped.
Fails == identity' = NoModule /\ pending' = NoPlan /\ GoTo("finish")

\* The port is opened and, but for "identify", the module on it must be the
\* one that the handler read.
WorkerOpens ==
  /\ At("open", Serial) /\ ~cancel
  /\ attached # NoModule /\ worker.expected \in {NoModule, attached}
  /\ worker' = [worker EXCEPT !.pc = "work", !.link = TRUE]
  /\ UNCHANGED <<identity, pending, plans, ran>>
  /\ Task

\* Cancel::check: the stop is seen, before a command or while its reply is waited for.
WorkerCancelled ==
  /\ At("open", Serial) \/ At("work", Serial)
  /\ cancel /\ Fails
  /\ UNCHANGED <<plans, ran>>
  /\ Task

\* Another module, a command refused or not answered, settings that changed.
WorkerFails ==
  /\ At("open", Serial) \/ (At("work", Serial) /\ ~worker.plan.restarts)
  /\ Fails
  /\ UNCHANGED <<plans, ran>>
  /\ Task

WorkerIdentifies ==
  /\ At("work", {"identify"}) /\ worker.link
  /\ identity' = attached /\ GoTo("finish")
  /\ UNCHANGED <<pending, plans, ran>>
  /\ Task

\* The USB or the network settings are read: a plan.
WorkerPlans ==
  /\ At("work", {"check"}) /\ worker.link
  /\ NewPlan(FALSE) /\ GoTo("finish")
  /\ UNCHANGED <<identity, ran>>
  /\ Task

\* Settings that need no change, the end of an installation, or all is read.
WorkerIsDone ==
  /\ \/ At("work", {"read", "check"}) /\ worker.link
     \/ At("work", {"confirm"}) /\ worker.link /\ worker.left = Commands /\ ~worker.plan.restarts
     \/ At("open", {"adb"})
  /\ GoTo("finish")
  /\ UNCHANGED <<identity, pending, plans, ran>>
  /\ Task

\* execute_plan: the token is looked at, then the next command written.
WorkerChecks ==
  /\ At("work", {"confirm"}) /\ ~cancel
  /\ GoTo("write")
  /\ UNCHANGED <<identity, pending, plans, ran>>
  /\ Task

\* The command is written and its reply read, or not. After one that restarts
\* the module neither a reply nor the lack of one is an error.
WorkerSends ==
  /\ At("write", {"confirm"}) /\ worker.link
  /\ ran' = ran \union {worker.plan.id}
  /\ \/ /\ worker' = [worker EXCEPT !.left = @ - 1, !.pc = IF worker.left = 1 THEN "finish" ELSE "work"]
        /\ identity' = IF worker.plan.restarts THEN NoModule ELSE identity
        /\ UNCHANGED pending
     \/ ~worker.plan.restarts /\ Fails
     \/ worker.plan.restarts /\ cancel /\ Fails
  /\ UNCHANGED plans
  /\ Task

\* The port is gone before the command could be written.
WorkerCannotSend ==
  /\ At("write", {"confirm"}) /\ ~worker.link
  /\ IF worker.plan.restarts
     THEN identity' = NoModule /\ GoTo("finish") /\ UNCHANGED pending
     ELSE Fails
  /\ UNCHANGED <<plans, ran>>
  /\ Task

WorkerFinishes ==
  /\ Serves /\ worker.pc = "finish"
  /\ busy' = "none" /\ worker' = NoWorker
  /\ UNCHANGED <<world, identity, pending, devices, cancel, handling, scanning, scan, serving, page, calls, plans, history, bounds>>

WorkerSteps == \/ WorkerOpens \/ WorkerCancelled \/ WorkerFails \/ WorkerIdentifies \/ WorkerPlans
               \/ WorkerIsDone \/ WorkerChecks \/ WorkerSends \/ WorkerCannotSend \/ WorkerFinishes

-----------------------------------------------------------------------------
(* The cables. A port that is unplugged is gone for those who have it open. *)

Swap ==
  /\ Event("swap")
  /\ \E m \in Modules \union {NoModule} : m # attached /\ attached' = m
  /\ worker' = [worker EXCEPT !.link = FALSE]
  /\ UNCHANGED <<plugged, inner, cancel, handling, scanning, scan, serving, page, calls, plans, history>>

Plug ==
  /\ Event("plug")
  /\ plugged' = ~plugged
  /\ UNCHANGED <<attached, inner, threads, serving, page, calls, plans, history>>

-----------------------------------------------------------------------------

PageNext ==
  \/ SendPoll \/ PollFails \/ RescanTimerFires
  \/ \E a \in answers : PollAnswered(a) \/ CallAnswered(a)
  \/ ClickSerial \/ RefreshDevices \/ RunOperation \/ Quit \/ Agree \/ Decline \/ ClosePage \/ OpenPage

ServerNext ==
  \/ \E f \in flights : Handle(f)
  \/ \E h \in handling : BeginSerial(h)
  \/ ScanEnds \/ WatchdogExits \/ Stops

Next == PageNext \/ ServerNext \/ WorkerSteps \/ Swap \/ Plug

Spec == Init /\ [][Next]_vars

\* The page polls, as its timers make it, and polls are answered or fail.
\* Nothing is asked of users, of the other handlers or of the threads.
LiveSpec == Spec /\ WF_vars(SendPoll) /\ WF_vars(PollFails) /\ \A n \in 1..2 : WF_vars(\E a \in Polls : a.slot = n /\ PollAnswered(a))

-----------------------------------------------------------------------------
(* Properties. *)

\* Only what the user agreed to is sent, once, and to the module that was
\* identified when it was confirmed (confirm, serial_task, verify_identity).
OnlyAgreedIsSent ==
  [][WorkerSends => /\ worker.plan.id \in agreed
                    /\ worker.left = CommandsOf(worker.plan) => worker.plan.id \notin ran
                    /\ attached = worker.expected]_vars

\* A stop ends the operation that had the slot when it was handled and no
\* other: none is cancelled without one, and after one no further command is
\* begun (begin, stop, Cancel).
StopStopsOne ==
  [][/\ WorkerCancelled => worker.stopped
     /\ WorkerChecks => ~worker.stopped]_vars

\* While the program serves and its page is open, a plan that waits is shown,
\* again if an older answer to a poll closed its dialog, until the user has
\* answered; and the dialog of a plan that is gone is closed (poll,
\* renderPending).
DialogFollowsPlans ==
  \A i \in 1..MaxPlans :
    /\ (pending.id = i /\ page.open) ~>
         \/ pending.id # i \/ (page.dialog /\ page.shown = i)
         \/ {Call("confirm", i), Call("dismiss", 0)} \intersect flights # {}
         \/ ~page.open \/ page.over \/ ~Serves
    /\ (page.dialog /\ page.shown = i /\ pending.id # i) ~> (~(page.dialog /\ page.shown = i) \/ page.over)

\* "skip it while an operation drives adb or a scan is running"
\* (refresh_devices): a listing is skipped for no other reason. Part of no run:
\* after a page was closed while its listing ran, all later ones are skipped.
SkippedWhileScanning ==
  [][\A f \in flights : (HandleDevices(f) /\ Handle(f) /\ ~scan.running /\ busy = "none") => scan'.running]_vars

\* "操作进行中不会退出" (docs/build.md): the program does not end while an
\* operation runs. Part of no run: a call handled after "quit" may begin one
\* before the server is down.
OperationIsNotCut == serving = "no" => busy = "none"
-----------------------------------------------------------------------------
(* The invariant the proofs rest on (AssistantProofs).                     *)

Kinds == {"identify", "check", "read", "confirm", "restart", "dismiss", "stop", "devices",
          "rescan", "run", "quit"}
Known == Modules \union {NoModule}
Calls == [kind : Kinds, arg : Nat, orphan : BOOLEAN]
Plans == [id : Nat, restarts : BOOLEAN]
Handlers == [call : {c \in Calls : c.kind \in Serial}, plan : Plans, expected : Known]
Snapshots == [busy : {"none", "serial", "adb"}, known : BOOLEAN, devices : BOOLEAN]
Answers == [kind : {"state", "rescan", "quit"}, slot : Nat, data : Snapshots, plan : Nat]

TypeOK ==
  /\ attached \in Known /\ plugged \in BOOLEAN
  /\ busy \in {"none", "serial", "adb"} /\ identity \in Known /\ pending \in Plans
  /\ devices \in BOOLEAN /\ scanning \in BOOLEAN /\ cancel \in BOOLEAN
  /\ handling \subseteq Handlers
  /\ worker \in [pc : {"none", "open", "work", "write", "finish"}, task : Serial \union {"adb"},
                 expected : Known, plan : Plans, left : Nat, link : BOOLEAN, stopped : BOOLEAN]
  /\ scan \in [running : BOOLEAN, handler : BOOLEAN, kind : {"devices", "rescan"}]
  /\ serving \in {"yes", "stopping", "no"}
  /\ page \in [open : BOOLEAN, loaded : BOOLEAN, data : Snapshots, shown : Nat, dialog : BOOLEAN,
               rescan : BOOLEAN, offline : Nat, over : BOOLEAN]
  /\ flights \subseteq Calls /\ answers \subseteq Answers
  /\ plans \in Nat /\ agreed \subseteq Nat /\ ran \subseteq Nat
  /\ use \in Uses /\ events \in Nat

\* A worker has the slot, alone, and with it its own token: the token is
\* cancelled when the worker was told to stop, and only then.
Slot ==
  /\ busy = "none" <=> worker.pc = "none"
  /\ worker.pc = "none" => worker = NoWorker
  /\ worker.pc # "none" => (cancel <=> worker.stopped)

\* A plan is confirmed through its dialog: from there to the task that sends
\* it everyone who has it has one the user agreed to, and a module.
Confirmed ==
  /\ page.dialog => page.shown # 0
  /\ \A f \in flights : f.kind = "confirm" => f.arg # 0 /\ f.arg \in agreed
  /\ \A h \in handling :
       IF h.call.kind = "confirm"
       THEN h.plan.id # 0 /\ h.plan.id \in agreed /\ h.expected # NoModule
       ELSE h.plan.id = 0
  /\ IF worker.task = "confirm"
     THEN worker.plan.id # 0 /\ worker.plan.id \in agreed /\ worker.expected # NoModule
     ELSE worker.plan.id = 0

\* The numbers of plans are given once.
Numbered ==
  /\ pending.id <= plans
  /\ \A h \in handling : h.plan.id <= plans
  /\ worker.plan.id <= plans
  /\ \A p \in ran : p # 0 /\ p <= plans

\* A plan has one owner: it waits, or one handler has it, or the task; and
\* while it waits or is handed on nothing of it was sent.
OneOwner ==
  /\ pending.id # 0 =>
       /\ pending.id \notin ran
       /\ \A h \in handling : h.plan.id # pending.id
       /\ worker.plan.id # pending.id
  /\ \A h \in handling : h.plan.id # 0 =>
       /\ h.plan.id \notin ran
       /\ worker.plan.id # h.plan.id
       /\ \A g \in handling : g.plan.id = h.plan.id => g = h

\* Until its first command is sent the task has all of them left.
AtWork == worker.pc \in {"open", "work", "write"}
Begun ==
  /\ AtWork => worker.left # 0 /\ worker.left <= CommandsOf(worker.plan)
  /\ AtWork /\ worker.plan.id \in ran => worker.left < CommandsOf(worker.plan)

\* A port that is open leads to the module it was opened to.
PortIsOpen == worker.link => worker.expected \in {NoModule, attached}

IndInv == TypeOK /\ Slot /\ Confirmed /\ Numbered /\ OneOwner /\ Begun /\ PortIsOpen
=============================================================================
