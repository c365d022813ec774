--------------------------- MODULE AssistantProofs ---------------------------
(* Proofs about Assistant, for all modules, plans, commands and behaviours. *)
EXTENDS Assistant, TLAPS

\* A plan has at least one command.
LEMMA CommandsOfPlan == \A plan \in Plans : CommandsOf(plan) \in Nat \ {0}
BY CommandsAssumption DEF CommandsOf, Plans

LEMMA NoPlanIsPlan == NoPlan \in Plans /\ NoPlan.id = 0
BY DEF NoPlan, Plans

-----------------------------------------------------------------------------
(* What the kinds of steps leave alone.                                     *)

LEMMA PageFrame ==
  ASSUME PageNext
  PROVE UNCHANGED <<attached, plugged, busy, identity, pending, devices, cancel, handling, worker,
                    scanning, serving, plans, ran, use>>
<1>1. ASSUME SendPoll \/ PollFails \/ RescanTimerFires PROVE UNCHANGED <<attached, plugged, busy,
        identity, pending, devices, cancel, handling, worker, scanning, serving, plans, ran, use>>
  BY <1>1 DEF SendPoll, PollFails, RescanTimerFires, Event, ElsewherePage, world, inner, threads,
              history, bounds, calls
<1>2. ASSUME \E a \in answers : PollAnswered(a) \/ CallAnswered(a)
      PROVE UNCHANGED <<attached, plugged, busy, identity, pending, devices, cancel, handling,
                        worker, scanning, serving, plans, ran, use>>
  BY <1>2 DEF PollAnswered, CallAnswered, ElsewherePage, world, inner, threads, history, bounds
<1>3. ASSUME NEW kinds, Click(kinds)
      PROVE UNCHANGED <<attached, plugged, busy, identity, pending, devices, cancel, handling,
                        worker, scanning, serving, plans, ran, use>>
  BY <1>3 DEF Click, Event, ElsewherePage, world, inner, threads, history
<1>4. ASSUME Agree \/ Decline \/ ClosePage \/ OpenPage
      PROVE UNCHANGED <<attached, plugged, busy, identity, pending, devices, cancel, handling,
                        worker, scanning, serving, plans, ran, use>>
  BY <1>4 DEF Agree, Decline, ClosePage, OpenPage, Event, ElsewherePage, world, inner, threads,
              history
<1> QED
  BY <1>1, <1>2, <1>3, <1>4 DEF PageNext, ClickSerial, RefreshDevices, RunOperation, Quit

\* The handlers, one by one.
Handlings(f) ==
  \/ HandleDevices(f) \/ HandleSerial(f) \/ HandlePreview(f)
  \/ HandleDismiss(f) \/ HandleStop(f) \/ HandleRun(f) \/ HandleQuit(f)

LEMMA HandleDoes ==
  ASSUME NEW f, Handle(f)
  PROVE /\ Handlings(f)
        /\ flights' = flights \ {f}
        /\ UNCHANGED <<attached, plugged, page, agreed, ran, use, events>>
BY DEF Handle, Handlings, world, history, bounds

LEMMA ServerFrame ==
  ASSUME ServerNext
  PROVE /\ UNCHANGED <<attached, plugged, page, agreed, ran, use, events>>
        /\ flights' \subseteq flights
<1>1. ASSUME NEW f \in flights, Handle(f)
      PROVE UNCHANGED <<attached, plugged, page, agreed, ran, use, events>> /\ flights' \subseteq flights
  BY <1>1, HandleDoes
<1>2. ASSUME NEW h \in handling, BeginSerial(h)
      PROVE UNCHANGED <<attached, plugged, page, agreed, ran, use, events>> /\ flights' \subseteq flights
  BY <1>2 DEF BeginSerial, world, history, bounds
<1>3. ASSUME ScanEnds \/ WatchdogExits \/ Stops
      PROVE UNCHANGED <<attached, plugged, page, agreed, ran, use, events>> /\ flights' \subseteq flights
  BY <1>3 DEF ScanEnds, WatchdogExits, Stops, world, history, bounds, calls
<1> QED
  BY <1>1, <1>2, <1>3 DEF ServerNext

LEMMA WorkerFrame ==
  ASSUME WorkerSteps
  PROVE UNCHANGED <<attached, plugged, devices, cancel, handling, scanning, scan, serving, page,
                    flights, answers, agreed, use, events>>
<1>1. ASSUME Task PROVE UNCHANGED <<attached, plugged, devices, cancel, handling, scanning, scan,
        serving, page, flights, answers, agreed, use, events>>
  BY <1>1 DEF Task, world, calls, bounds
<1>2. CASE WorkerFinishes
  BY <1>2 DEF WorkerFinishes, world, calls, history, bounds
<1>3. CASE ~WorkerFinishes
  <2>1. Task
    BY <1>3 DEF WorkerSteps, WorkerOpens, WorkerCancelled, WorkerFails, WorkerIdentifies,
                WorkerPlans, WorkerIsDone, WorkerChecks, WorkerSends, WorkerCannotSend
  <2> QED
    BY <2>1, <1>1
<1> QED
  BY <1>2, <1>3

LEMMA CablesFrame ==
  ASSUME Swap \/ Plug
  PROVE /\ UNCHANGED <<busy, identity, pending, devices, cancel, handling, scanning, scan, serving,
                       page, flights, answers, plans, agreed, ran, use>>
        /\ Swap => worker' = [worker EXCEPT !.link = FALSE]
        /\ Plug => UNCHANGED <<worker, attached>>
BY DEF Swap, Plug, Event, inner, threads, calls, history

LEMMA Stutter ==
  ASSUME UNCHANGED vars
  PROVE UNCHANGED <<attached, plugged, busy, identity, pending, devices, cancel, handling, worker,
                    scanning, scan, serving, page, flights, answers, plans, agreed, ran, use, events>>
BY DEF vars, world, inner, threads, calls, history, bounds

-----------------------------------------------------------------------------
(* What becomes of the plans, the slot and the task in one step.            *)

WorkerState ==
  [pc : {"none", "open", "work", "write", "finish"}, task : Serial \union {"adb"},
   expected : Known, plan : Plans, left : Nat, link : BOOLEAN, stopped : BOOLEAN]

\* The task keeps what it was begun for, and is not further back than it was.
SameTask ==
  /\ worker' \in WorkerState
  /\ worker'.task = worker.task /\ worker'.expected = worker.expected
  /\ worker'.plan = worker.plan /\ worker'.left = worker.left
  /\ AtWork' => AtWork
Dropped == pending' \in {pending, NoPlan}

PlansStay == UNCHANGED <<plans, ran, handling>> /\ Dropped /\ SameTask
PlanMade ==
  /\ UNCHANGED <<ran, handling>> /\ SameTask
  /\ plans' = plans + 1 /\ pending' \in Plans /\ pending'.id = plans + 1
PlanTaken ==
  /\ UNCHANGED <<plans, ran, worker>> /\ pending' = NoPlan
  /\ \E f \in flights :
       /\ f.kind = "confirm" /\ pending.id = f.arg /\ identity # NoModule
       /\ handling' = handling \union {[call |-> f, plan |-> pending, expected |-> identity]}
OtherHandled ==
  /\ UNCHANGED <<plans, ran, worker, pending>>
  /\ \E f \in flights, m \in Known :
       /\ f.kind \in Serial \ {"confirm"}
       /\ handling' = handling \union {[call |-> f, plan |-> NoPlan, expected |-> m]}
HandlerEnds ==
  /\ UNCHANGED <<plans, ran, pending>>
  /\ \E h \in handling :
       /\ handling' = handling \ {h}
       /\ \/ UNCHANGED worker
          \/ h.call.kind \in Serial /\ worker' = Worker(h.call.kind, h.expected, h.plan)
AdbBegins == UNCHANGED <<plans, ran, pending, handling>> /\ worker' = Worker("adb", NoModule, NoPlan)
Sent ==
  /\ UNCHANGED <<plans, handling>> /\ Dropped
  /\ worker.task = "confirm" /\ worker.pc = "write"
  /\ ran' = ran \union {worker.plan.id}
  /\ worker' \in WorkerState /\ worker'.task = worker.task
  /\ worker'.expected = worker.expected /\ worker'.plan = worker.plan
  /\ \/ worker'.left = worker.left - 1 /\ (AtWork' => worker.left # 1)
     \/ worker'.left = worker.left /\ ~AtWork'
Freed == UNCHANGED <<plans, ran, pending, handling>> /\ worker' = NoWorker

StepKinds ==
  PlansStay \/ PlanMade \/ PlanTaken \/ OtherHandled \/ HandlerEnds \/ AdbBegins \/ Sent \/ Freed

LEMMA NoWorkerType == NoWorker \in WorkerState /\ NoWorker.pc = "none" /\ NoWorker.task = "adb"
                      /\ NoWorker.plan = NoPlan /\ NoWorker.link = FALSE
BY NoPlanIsPlan DEF NoWorker, WorkerState, Known, NoPlan

LEMMA WorkerType ==
  \A task \in Serial \union {"adb"}, expected \in Known, plan \in Plans :
    \A w : w = Worker(task, expected, plan) =>
        /\ w \in WorkerState
        /\ w.pc = "open" /\ w.task = task /\ w.expected = expected /\ w.plan = plan
        /\ w.left = CommandsOf(plan) /\ w.link = FALSE /\ w.stopped = FALSE
<1> SUFFICES ASSUME NEW task \in Serial \union {"adb"}, NEW expected \in Known, NEW plan \in Plans,
                    NEW w, w = Worker(task, expected, plan)
             PROVE  /\ w \in WorkerState
                    /\ w.pc = "open" /\ w.task = task /\ w.expected = expected /\ w.plan = plan
                    /\ w.left = CommandsOf(plan) /\ w.link = FALSE /\ w.stopped = FALSE
  OBVIOUS
<1>1. CommandsOf(plan) \in Nat
  BY CommandsOfPlan
<1> QED
  BY <1>1, NoPlanIsPlan DEF Worker, NoWorker, WorkerState, Serial

\* Where the task goes when it only goes on.
LEMMA GoesOn ==
  ASSUME worker \in WorkerState, NEW pc \in {"work", "write", "finish"}, NEW link \in BOOLEAN,
         worker' = [worker EXCEPT !.pc = pc, !.link = link], AtWork \/ pc = "finish"
  PROVE SameTask /\ worker'.pc = pc /\ worker'.link = link /\ worker'.stopped = worker.stopped
BY DEF SameTask, WorkerState, AtWork

LEMMA GoToDoes ==
  ASSUME worker \in WorkerState, NEW pc \in {"work", "write", "finish"}, GoTo(pc),
         AtWork \/ pc = "finish"
  PROVE SameTask /\ worker'.pc = pc /\ worker'.link = worker.link /\ worker'.stopped = worker.stopped
BY DEF GoTo, SameTask, WorkerState, AtWork

LEMMA SentOn ==
  ASSUME worker \in WorkerState, worker.left \in Nat \ {0},
         worker' = [worker EXCEPT !.left = @ - 1, !.pc = IF worker.left = 1 THEN "finish" ELSE "work"]
  PROVE /\ worker' \in WorkerState /\ worker'.task = worker.task
        /\ worker'.expected = worker.expected /\ worker'.plan = worker.plan
        /\ worker'.left = worker.left - 1 /\ worker'.link = worker.link
        /\ worker'.stopped = worker.stopped
        /\ worker'.pc = IF worker.left = 1 THEN "finish" ELSE "work"
<1> DEFINE left == worker.left - 1
           pc == IF worker.left = 1 THEN "finish" ELSE "work"
<1>1. left \in Nat /\ pc \in {"finish", "work"}
  OBVIOUS
<1>2. worker' = [worker EXCEPT !.left = left, !.pc = pc]
  BY DEF WorkerState
<1> HIDE DEF left, pc
<1>3. /\ worker' \in WorkerState /\ worker'.task = worker.task
      /\ worker'.expected = worker.expected /\ worker'.plan = worker.plan
      /\ worker'.left = left /\ worker'.link = worker.link
      /\ worker'.stopped = worker.stopped /\ worker'.pc = pc
  BY <1>1, <1>2 DEF WorkerState
<1> QED
  BY <1>3 DEF left, pc

LEMMA FailsDoes ==
  ASSUME worker \in WorkerState, Fails
  PROVE Dropped /\ SameTask /\ worker'.pc = "finish" /\ worker'.link = worker.link
        /\ worker'.stopped = worker.stopped
BY DEF Fails, GoTo, Dropped, SameTask, WorkerState, AtWork

LEMMA NewPlanDoes ==
  ASSUME plans \in Nat, NEW restarts \in BOOLEAN, NewPlan(restarts)
  PROVE plans' = plans + 1 /\ pending' \in Plans /\ pending'.id = plans + 1
BY DEF NewPlan, Plans

LEMMA KeepsTask == ASSUME worker \in WorkerState, UNCHANGED worker PROVE SameTask
BY DEF SameTask, AtWork

\* A step of the task that does not end it.
Onwards ==
  /\ worker' \in WorkerState /\ worker.pc # "none" /\ worker'.pc \in {"work", "write", "finish"}
  /\ worker'.stopped = worker.stopped /\ worker'.expected = worker.expected
  /\ worker'.link => worker.link \/ worker.expected \in {NoModule, attached}
  /\ UNCHANGED busy
  /\ identity' \in {identity, NoModule, attached} /\ (pending' = pending \/ pending' \in Plans)
  /\ plans' \in Nat /\ (ran' = ran \/ ran' = ran \union {worker.plan.id})
  /\ PlansStay \/ PlanMade \/ Sent

LEMMA TaskDoes == ASSUME TypeOK, Begun, WorkerSteps, ~WorkerFinishes PROVE Onwards
<1>1. worker \in WorkerState /\ plans \in Nat /\ NoPlan \in Plans
  BY NoPlanIsPlan DEF TypeOK, WorkerState
<1>2. ASSUME Task PROVE UNCHANGED <<busy, handling>>
  BY <1>2 DEF Task
<1>3. CASE WorkerOpens
  <2>1. AtWork /\ worker.pc # "none" /\ worker.expected \in {NoModule, attached}
        /\ worker' = [worker EXCEPT !.pc = "work", !.link = TRUE]
        /\ UNCHANGED <<identity, pending, plans, ran, busy, handling>>
    BY <1>2, <1>3 DEF WorkerOpens, At, AtWork
  <2>2. SameTask /\ worker'.pc = "work" /\ worker'.stopped = worker.stopped
    BY <1>1, <2>1, GoesOn
  <2> QED
    BY <1>1, <2>1, <2>2 DEF Onwards, PlansStay, Dropped, SameTask
<1>4. CASE WorkerCancelled \/ WorkerFails
  <2>1. AtWork /\ worker.pc # "none" /\ Fails /\ UNCHANGED <<plans, ran, busy, handling>>
    BY <1>2, <1>4 DEF WorkerCancelled, WorkerFails, At, AtWork
  <2>2. identity' = NoModule /\ pending' = NoPlan
    BY <2>1 DEF Fails
  <2>3. Dropped /\ SameTask /\ worker'.pc = "finish" /\ worker'.link = worker.link
        /\ worker'.stopped = worker.stopped
    BY <1>1, <2>1, FailsDoes
  <2> QED
    BY <1>1, <2>1, <2>2, <2>3 DEF Onwards, PlansStay, SameTask
<1>5. CASE WorkerIdentifies \/ WorkerIsDone
  <2>1. worker.pc # "none" /\ GoTo("finish") /\ UNCHANGED <<pending, plans, ran, busy, handling>>
        /\ identity' \in {identity, attached}
    BY <1>2, <1>5 DEF WorkerIdentifies, WorkerIsDone, At
  <2>2. SameTask /\ worker'.pc = "finish" /\ worker'.link = worker.link
        /\ worker'.stopped = worker.stopped
    BY <1>1, <2>1, GoToDoes
  <2> QED
    BY <1>1, <2>1, <2>2 DEF Onwards, PlansStay, Dropped, SameTask
<1>6. CASE WorkerPlans
  <2>1. worker.pc # "none" /\ GoTo("finish") /\ NewPlan(FALSE)
        /\ UNCHANGED <<identity, ran, busy, handling>>
    BY <1>2, <1>6 DEF WorkerPlans, At
  <2>2. SameTask /\ worker'.pc = "finish" /\ worker'.link = worker.link
        /\ worker'.stopped = worker.stopped
    BY <1>1, <2>1, GoToDoes
  <2>3. plans' = plans + 1 /\ pending' \in Plans /\ pending'.id = plans + 1
    BY <1>1, <2>1, NewPlanDoes
  <2> QED
    BY <1>1, <2>1, <2>2, <2>3 DEF Onwards, PlanMade, SameTask
<1>7. CASE WorkerChecks
  <2>1. AtWork /\ worker.pc # "none" /\ GoTo("write")
        /\ UNCHANGED <<identity, pending, plans, ran, busy, handling>>
    BY <1>2, <1>7 DEF WorkerChecks, At, AtWork
  <2>2. SameTask /\ worker'.pc = "write" /\ worker'.link = worker.link
        /\ worker'.stopped = worker.stopped
    BY <1>1, <2>1, GoToDoes
  <2> QED
    BY <1>1, <2>1, <2>2 DEF Onwards, PlansStay, Dropped, SameTask
<1>8. CASE WorkerSends
  <2>1. /\ worker.pc = "write" /\ worker.task = "confirm" /\ ran' = ran \union {worker.plan.id}
        /\ UNCHANGED <<plans, busy, handling>>
    BY <1>2, <1>8 DEF WorkerSends, At
  <2>2. CASE Fails
    <3>1. Dropped /\ SameTask /\ worker'.pc = "finish" /\ worker'.link = worker.link
          /\ worker'.stopped = worker.stopped
      BY <1>1, <2>2, FailsDoes
    <3>2. identity' = NoModule /\ pending' = NoPlan
      BY <2>2 DEF Fails
    <3>3. Sent
      BY <2>1, <3>1 DEF Sent, SameTask, AtWork
    <3> QED
      BY <1>1, <2>1, <3>1, <3>2, <3>3 DEF Onwards, SameTask
  <2>3. CASE ~Fails
    <3>1. /\ worker' = [worker EXCEPT !.left = @ - 1, !.pc = IF worker.left = 1 THEN "finish" ELSE "work"]
          /\ identity' = IF worker.plan.restarts THEN NoModule ELSE identity
          /\ UNCHANGED pending
      BY <1>8, <2>3 DEF WorkerSends
    <3>2. worker.left \in Nat \ {0}
      BY <1>1, <2>1 DEF Begun, AtWork, WorkerState
    <3>3. /\ worker' \in WorkerState /\ worker'.task = worker.task
          /\ worker'.expected = worker.expected /\ worker'.plan = worker.plan
          /\ worker'.left = worker.left - 1 /\ worker'.link = worker.link
          /\ worker'.stopped = worker.stopped
          /\ worker'.pc = IF worker.left = 1 THEN "finish" ELSE "work"
      BY <1>1, <3>1, <3>2, SentOn
    <3>4. Sent
      BY <2>1, <3>1, <3>3 DEF Sent, Dropped, AtWork
    <3>5. identity' \in {identity, NoModule, attached}
      BY <3>1
    <3> QED
      BY <1>1, <2>1, <3>1, <3>3, <3>4, <3>5 DEF Onwards
  <2> QED
    BY <2>2, <2>3
<1>9. CASE WorkerCannotSend
  <2>1. /\ worker.pc = "write" /\ UNCHANGED <<plans, ran, busy, handling>>
        /\ Fails \/ (identity' = NoModule /\ GoTo("finish") /\ UNCHANGED pending)
    BY <1>2, <1>9 DEF WorkerCannotSend, At
  <2>2. Dropped /\ SameTask /\ worker'.pc = "finish" /\ worker'.link = worker.link
        /\ worker'.stopped = worker.stopped /\ identity' = NoModule
    <3>1. CASE Fails
      BY <1>1, <3>1, FailsDoes DEF Fails
    <3>2. CASE identity' = NoModule /\ GoTo("finish") /\ UNCHANGED pending
      BY <1>1, <3>2, GoToDoes DEF Dropped
    <3> QED
      BY <2>1, <3>1, <3>2
  <2> QED
    BY <1>1, <2>1, <2>2 DEF Onwards, PlansStay, SameTask, Dropped
<1> QED
  BY <1>3, <1>4, <1>5, <1>6, <1>7, <1>8, <1>9 DEF WorkerSteps

-----------------------------------------------------------------------------
(* Every step is of one of the kinds.                                       *)

LEMMA HandlerKinds ==
  ASSUME TypeOK, NEW f \in flights, Handle(f)
  PROVE StepKinds
<1>1. worker \in WorkerState /\ plans \in Nat /\ UNCHANGED ran /\ f \in Calls
  BY HandleDoes DEF TypeOK, WorkerState
<1>2. CASE HandleDevices(f) \/ HandleQuit(f)
  <2>1. UNCHANGED <<pending, handling, worker, plans>>
    BY <1>2 DEF HandleDevices, HandleQuit, inner, threads
  <2> QED
    BY <1>1, <2>1, KeepsTask DEF StepKinds, PlansStay, Dropped
<1>3. CASE HandleSerial(f)
  <2>1. UNCHANGED <<worker, plans>>
    BY <1>3 DEF HandleSerial
  <2>2. CASE UNCHANGED handling
    <3>1. Dropped
      BY <1>3 DEF HandleSerial, Dropped
    <3> QED
      BY <1>1, <2>1, <2>2, <3>1, KeepsTask DEF StepKinds, PlansStay
  <2>3. CASE handling' # handling /\ f.kind = "confirm"
    <3>1. /\ pending.id = f.arg /\ identity # NoModule /\ pending' = NoPlan
          /\ handling' = handling \union {[call |-> f, plan |-> pending, expected |-> identity]}
      BY <1>3, <2>3 DEF HandleSerial, Confirms
    <3> QED
      BY <1>1, <2>1, <2>3, <3>1 DEF StepKinds, PlanTaken
  <2>4. CASE handling' # handling /\ f.kind # "confirm"
    <3>1. /\ UNCHANGED pending
          /\ \E m \in {NoModule, identity} :
               handling' = handling \union {[call |-> f, plan |-> NoPlan, expected |-> m]}
          /\ f.kind \in Serial
      BY <1>3, <2>4 DEF HandleSerial, Serial
    <3>2. {NoModule, identity} \subseteq Known
      BY DEF TypeOK, Known
    <3> QED
      BY <1>1, <2>1, <2>4, <3>1, <3>2 DEF StepKinds, OtherHandled
  <2> QED
    BY <2>2, <2>3, <2>4
<1>4. CASE HandlePreview(f)
  <2>1. UNCHANGED <<handling, worker>>
    BY <1>4 DEF HandlePreview, threads
  <2>2. CASE identity = NoModule
    BY <1>1, <1>4, <2>1, <2>2, KeepsTask DEF HandlePreview, StepKinds, PlansStay, Dropped
  <2>3. CASE identity # NoModule
    <3>1. plans' = plans + 1 /\ pending' \in Plans /\ pending'.id = plans + 1
      BY <1>1, <1>4, <2>3, NewPlanDoes DEF HandlePreview
    <3> QED
      BY <1>1, <2>1, <3>1, KeepsTask DEF StepKinds, PlanMade
  <2> QED
    BY <2>2, <2>3
<1>5. CASE HandleDismiss(f)
  <2>1. UNCHANGED <<handling, worker, plans>> /\ pending' = NoPlan
    BY <1>5 DEF HandleDismiss, threads
  <2> QED
    BY <1>1, <2>1, KeepsTask DEF StepKinds, PlansStay, Dropped
<1>6. CASE HandleStop(f)
  <2>1. UNCHANGED <<pending, handling, plans>>
    BY <1>6 DEF HandleStop, inner
  <2>2. SameTask
    BY <1>1, <1>6, NoWorkerType DEF HandleStop, SameTask, WorkerState, AtWork
  <2> QED
    BY <1>1, <2>1, <2>2 DEF StepKinds, PlansStay, Dropped
<1>7. CASE HandleRun(f)
  <2>1. UNCHANGED <<pending, handling, plans>>
        /\ (UNCHANGED worker \/ worker' = Worker("adb", NoModule, NoPlan))
    BY <1>7 DEF HandleRun, Begin
  <2> QED
    BY <1>1, <2>1, KeepsTask DEF StepKinds, PlansStay, Dropped, AdbBegins
<1> QED
  BY <1>2, <1>3, <1>4, <1>5, <1>6, <1>7, HandleDoes DEF Handlings

LEMMA ServerKinds == ASSUME TypeOK, ServerNext PROVE StepKinds
<1>1. worker \in WorkerState /\ UNCHANGED ran
  BY ServerFrame DEF TypeOK, WorkerState
<1>2. ASSUME NEW h \in handling, BeginSerial(h) PROVE StepKinds
  <2>1. UNCHANGED <<pending, plans>> /\ handling' = handling \ {h}
        /\ (UNCHANGED worker \/ worker' = Worker(h.call.kind, h.expected, h.plan))
    BY <1>2 DEF BeginSerial, Begin
  <2>2. CASE UNCHANGED worker
    BY <1>1, <2>1, <2>2 DEF StepKinds, HandlerEnds
  <2>3. CASE worker' = Worker(h.call.kind, h.expected, h.plan)
    <3>1. h.call.kind \in Serial
      BY DEF TypeOK, Handlers
    <3> QED
      BY <1>1, <2>1, <2>3, <3>1 DEF StepKinds, HandlerEnds
  <2> QED
    BY <2>1, <2>2, <2>3
<1>3. CASE ScanEnds \/ WatchdogExits \/ Stops
  <2>1. UNCHANGED <<pending, plans, handling, worker>>
    BY <1>3 DEF ScanEnds, WatchdogExits, Stops, inner, threads
  <2> QED
    BY <1>1, <2>1, KeepsTask DEF StepKinds, PlansStay, Dropped
<1> QED
  BY <1>2, <1>3, HandlerKinds DEF ServerNext

LEMMA EveryKind == ASSUME TypeOK, Begun, [Next]_vars PROVE StepKinds
<1>1. worker \in WorkerState
  BY DEF TypeOK, WorkerState
<1>2. CASE PageNext \/ UNCHANGED vars
  BY <1>1, <1>2, PageFrame, Stutter, KeepsTask DEF StepKinds, PlansStay, Dropped
<1>3. CASE ServerNext
  BY <1>3, ServerKinds
<1>4. CASE WorkerSteps /\ ~WorkerFinishes
  BY <1>4, TaskDoes DEF Onwards, StepKinds
<1>5. CASE WorkerFinishes
  BY <1>5 DEF WorkerFinishes, StepKinds, Freed, history
<1>6. CASE Swap
  <2>1. SameTask
    BY <1>1, <1>6, CablesFrame DEF SameTask, WorkerState, AtWork
  <2> QED
    BY <1>6, <2>1, CablesFrame DEF StepKinds, PlansStay, Dropped
<1>7. CASE Plug
  BY <1>1, <1>7, CablesFrame, KeepsTask DEF StepKinds, PlansStay, Dropped
<1> QED
  BY <1>2, <1>3, <1>4, <1>5, <1>6, <1>7 DEF Next

-----------------------------------------------------------------------------
(* The conjuncts of the invariant.                                          *)

\* The task a handler begins.
LEMMA Begins ==
  ASSUME TypeOK, NEW h \in handling,
         h.call.kind \in Serial, worker' = Worker(h.call.kind, h.expected, h.plan)
  PROVE /\ worker' \in WorkerState /\ worker'.pc = "open" /\ worker'.task = h.call.kind
        /\ worker'.expected = h.expected /\ worker'.plan = h.plan
        /\ worker'.left = CommandsOf(h.plan) /\ worker'.link = FALSE /\ worker'.stopped = FALSE
<1>1. h.expected \in Known /\ h.plan \in Plans /\ h.call.kind \in Serial \union {"adb"}
  BY DEF TypeOK, Handlers
<1> QED
  BY <1>1, WorkerType

LEMMA AdbTask ==
  ASSUME AdbBegins
  PROVE /\ worker' \in WorkerState /\ worker'.pc = "open" /\ worker'.task = "adb"
        /\ worker'.expected = NoModule /\ worker'.plan = NoPlan
        /\ worker'.left = CommandsOf(NoPlan) /\ worker'.link = FALSE /\ worker'.stopped = FALSE
<1>1. NoModule \in Known /\ "adb" \in Serial \union {"adb"}
  BY DEF Known
<1> QED
  BY <1>1, WorkerType, NoPlanIsPlan DEF AdbBegins

LEMMA StepNumbered == ASSUME TypeOK, Begun, Confirmed, Numbered, [Next]_vars PROVE Numbered'
<1>1. StepKinds
  BY EveryKind
<1>2. plans \in Nat /\ NoPlan.id = 0 /\ pending.id \in Nat
  BY NoPlanIsPlan DEF TypeOK, Plans
<1>3. CASE PlansStay
  BY <1>2, <1>3 DEF PlansStay, Dropped, SameTask, Numbered
<1>4. CASE PlanMade
  <2>1. \A n \in Nat : n <= plans => n <= plans + 1
    BY <1>2
  <2>2. (\A h \in handling : h.plan.id \in Nat) /\ worker.plan.id \in Nat /\ ran \subseteq Nat
    BY DEF TypeOK, Handlers, Plans
  <2> QED
    BY <1>2, <1>4, <2>1, <2>2 DEF PlanMade, SameTask, Numbered
<1>5. CASE PlanTaken \/ OtherHandled
  BY <1>2, <1>5 DEF PlanTaken, OtherHandled, Numbered
<1>6. CASE HandlerEnds
  BY <1>6, Begins DEF HandlerEnds, Numbered
<1>7. CASE AdbBegins
  BY <1>2, <1>7, AdbTask DEF AdbBegins, Numbered
<1>8. CASE Sent
  <2>1. worker.plan.id # 0
    BY <1>8 DEF Sent, Confirmed
  <2> QED
    BY <1>2, <1>8, <2>1 DEF Sent, Dropped, Numbered
<1>9. CASE Freed
  BY <1>2, <1>9, NoWorkerType DEF Freed, Numbered
<1> QED
  BY <1>1, <1>3, <1>4, <1>5, <1>6, <1>7, <1>8, <1>9 DEF StepKinds

LEMMA StepOneOwner ==
  ASSUME TypeOK, Begun, Numbered, Confirmed, OneOwner, [Next]_vars PROVE OneOwner'
<1>1. StepKinds
  BY EveryKind
<1>2. plans \in Nat /\ NoPlan.id = 0 /\ NoWorker.plan = NoPlan
  BY NoPlanIsPlan, NoWorkerType DEF TypeOK
<1>3. CASE PlansStay
  BY <1>2, <1>3 DEF PlansStay, Dropped, SameTask, OneOwner
<1>4. CASE PlanMade
  <2>1. \A n \in Nat : n <= plans => n # plans + 1
    BY <1>2
  <2>2. (\A h \in handling : h.plan.id \in Nat) /\ worker.plan.id \in Nat /\ ran \subseteq Nat
    BY DEF TypeOK, Handlers, Plans
  <2>3. /\ plans + 1 \notin ran
        /\ \A h \in handling : h.plan.id # plans + 1
        /\ worker.plan.id # plans + 1
    BY <2>1, <2>2 DEF Numbered
  <2> QED
    BY <1>4, <2>3 DEF PlanMade, SameTask, OneOwner
<1>5. CASE PlanTaken
  <2>1. PICK f \in flights :
          /\ f.kind = "confirm" /\ pending.id = f.arg
          /\ handling' = handling \union {[call |-> f, plan |-> pending, expected |-> identity]}
    BY <1>5 DEF PlanTaken
  <2>2. pending.id # 0
    BY <2>1 DEF Confirmed
  <2>3. pending' = NoPlan /\ UNCHANGED <<ran, worker>>
    BY <1>5 DEF PlanTaken
  <2> DEFINE new == [call |-> f, plan |-> pending, expected |-> identity]
  <2>4. new.plan = pending /\ handling' = handling \union {new}
    BY <2>1
  <2> HIDE DEF new
  <2> QED
    BY <1>2, <2>2, <2>3, <2>4 DEF OneOwner
<1>6. CASE OtherHandled
  <2>1. PICK f \in flights, m \in Known :
          handling' = handling \union {[call |-> f, plan |-> NoPlan, expected |-> m]}
    BY <1>6 DEF OtherHandled
  <2> DEFINE new == [call |-> f, plan |-> NoPlan, expected |-> m]
  <2>2. new.plan.id = 0 /\ handling' = handling \union {new}
    BY <1>2, <2>1
  <2> HIDE DEF new
  <2> QED
    BY <1>6, <2>2 DEF OtherHandled, OneOwner
<1>7. CASE HandlerEnds
  <2>1. PICK h \in handling :
          /\ handling' = handling \ {h}
          /\ UNCHANGED worker \/ worker'.plan = h.plan
    BY <1>7, Begins DEF HandlerEnds
  <2>2. UNCHANGED <<ran, pending>>
    BY <1>7 DEF HandlerEnds
  <2> QED
    BY <2>1, <2>2 DEF OneOwner
<1>8. CASE AdbBegins
  BY <1>2, <1>8, AdbTask DEF AdbBegins, OneOwner
<1>9. CASE Sent
  <2>1. worker.plan.id # 0
    BY <1>9 DEF Sent, Confirmed
  <2> QED
    BY <1>2, <1>9, <2>1 DEF Sent, Dropped, OneOwner
<1>10. CASE Freed
  BY <1>2, <1>10 DEF Freed, OneOwner
<1> QED
  BY <1>1, <1>3, <1>4, <1>5, <1>6, <1>7, <1>8, <1>9, <1>10 DEF StepKinds

LEMMA StepBegun ==
  ASSUME TypeOK, Numbered, Confirmed, OneOwner, Begun, [Next]_vars PROVE Begun'
<1>1. StepKinds
  BY EveryKind
<1>2. worker \in WorkerState /\ NoPlan \in Plans /\ NoPlan.id = 0
  BY NoPlanIsPlan DEF TypeOK, WorkerState
<1>3. CASE PlansStay \/ PlanMade
  BY <1>3 DEF PlansStay, PlanMade, SameTask, Begun
<1>4. CASE PlanTaken \/ OtherHandled
  BY <1>4 DEF PlanTaken, OtherHandled, Begun, AtWork
<1>5. CASE HandlerEnds /\ UNCHANGED worker
  BY <1>5 DEF HandlerEnds, Begun, AtWork
<1>6. CASE HandlerEnds /\ ~UNCHANGED worker
  <2>1. PICK h \in handling : h.call.kind \in Serial /\ worker' = Worker(h.call.kind, h.expected, h.plan)
    BY <1>6 DEF HandlerEnds
  <2>2. worker'.plan = h.plan /\ worker'.left = CommandsOf(h.plan) /\ h.plan \in Plans
    BY <2>1, Begins DEF TypeOK, Handlers
  <2>3. h.plan.id \notin ran
    BY <1>6 DEF OneOwner, Numbered
  <2> QED
    BY <1>6, <2>2, <2>3, CommandsOfPlan DEF HandlerEnds, Begun
<1>7. CASE AdbBegins
  BY <1>2, <1>7, AdbTask, CommandsOfPlan DEF AdbBegins, Begun, Numbered
<1>8. CASE Sent
  <2>1. AtWork /\ worker.left \in Nat /\ worker.plan \in Plans
    BY <1>2, <1>8 DEF Sent, AtWork, WorkerState
  <2>2. CommandsOf(worker.plan) \in Nat /\ worker.left # 0
    BY <2>1, CommandsOfPlan DEF Begun
  <2>3. CASE ~AtWork'
    BY <2>3 DEF Begun
  <2>4. CASE AtWork'
    <3>1. worker'.left = worker.left - 1 /\ worker.left # 1 /\ worker'.plan = worker.plan
      BY <1>8, <2>4 DEF Sent
    <3>2. worker.left <= CommandsOf(worker.plan)
      BY <2>1 DEF Begun
    <3> QED
      BY <2>1, <2>2, <3>1, <3>2 DEF Begun
  <2> QED
    BY <2>3, <2>4
<1>9. CASE Freed
  BY <1>9, NoWorkerType DEF Freed, Begun, AtWork
<1> QED
  BY <1>1, <1>3, <1>4, <1>5, <1>6, <1>7, <1>8, <1>9 DEF StepKinds

\* What the page does to its dialog, its calls and what was agreed to.
PageState ==
  [open : BOOLEAN, loaded : BOOLEAN, data : Snapshots, shown : Nat, dialog : BOOLEAN,
   rescan : BOOLEAN, offline : Nat, over : BOOLEAN]
DialogStays == page'.dialog => page.dialog /\ page'.shown = page.shown
DialogOpens == page'.dialog => page'.shown # 0
CallsStay == \A f \in flights' : f.kind = "confirm" =>
               \E g \in flights : g.kind = f.kind /\ g.arg = f.arg

LEMMA Rendering ==
  ASSUME NEW p \in PageState, NEW plan \in Nat
  PROVE /\ RenderPending(p, plan) \in PageState
        /\ RenderPending(p, plan).dialog => RenderPending(p, plan).shown # 0 \/
             (p.dialog /\ RenderPending(p, plan).shown = p.shown)
BY DEF RenderPending, PageState

LEMMA PageDoes ==
  ASSUME TypeOK, PageNext
  PROVE /\ page' \in PageState
        /\ DialogStays \/ DialogOpens
        /\ \/ CallsStay /\ UNCHANGED agreed
           \/ /\ page.dialog
              /\ flights' = flights \union {Call("confirm", page.shown)}
              /\ agreed' = agreed \union {page.shown}
<1>1. page \in PageState /\ answers \subseteq Answers /\ flights \subseteq Calls
  BY DEF TypeOK, PageState
<1>2. ClosedPage \in PageState /\ FreshPage \in PageState /\ ~ClosedPage.dialog /\ ~FreshPage.dialog
  BY DEF ClosedPage, FreshPage, PageState, NoSnapshot, Snapshots
<1>3. \A kind, arg : Call(kind, arg).kind = kind /\ Call(kind, arg).arg = arg
  BY DEF Call
<1>4. OnLoad \subseteq {Call("devices", 0)}
  BY DEF OnLoad
<1>5. CASE SendPoll
  <2>1. UNCHANGED <<page, flights, agreed>>
    BY <1>5 DEF SendPoll, history
  <2> QED
    BY <1>1, <2>1 DEF DialogStays, CallsStay
<1>6. CASE PollFails
  <2>1. UNCHANGED <<flights, agreed>>
    BY <1>6 DEF PollFails, calls, history
  <2>2. CASE page.offline = 2
    <3>1. page' = [page EXCEPT !.over = TRUE, !.rescan = FALSE, !.offline = 3]
      BY <1>1, <1>6, <2>2 DEF PollFails, ShowOverlay, PageState
    <3>2. page' \in PageState /\ page'.dialog = page.dialog /\ page'.shown = page.shown
      BY <1>1, <3>1 DEF PageState
    <3> QED
      BY <2>1, <3>2 DEF DialogStays, CallsStay
  <2>3. CASE page.offline # 2
    <3> DEFINE offline == page.offline + 1
    <3>1. page' = [page EXCEPT !.offline = offline] /\ offline \in Nat
      BY <1>1, <1>6, <2>3 DEF PollFails, PageState
    <3> HIDE DEF offline
    <3>2. page' \in PageState /\ page'.dialog = page.dialog /\ page'.shown = page.shown
      BY <1>1, <3>1 DEF PageState
    <3> QED
      BY <2>1, <3>2 DEF DialogStays, CallsStay
  <2> QED
    BY <2>2, <2>3
<1>7. CASE RescanTimerFires
  <2>1. page' = [page EXCEPT !.rescan = FALSE] /\ UNCHANGED agreed
        /\ flights' = flights \union {Call("rescan", 0)}
    BY <1>7 DEF RescanTimerFires, history
  <2>2. page' \in PageState /\ page'.dialog = page.dialog /\ page'.shown = page.shown
    BY <1>1, <2>1 DEF PageState
  <2> QED
    BY <1>3, <2>1, <2>2 DEF DialogStays, CallsStay
<1>8. ASSUME NEW a \in answers, PollAnswered(a)
      PROVE  page' \in PageState /\ (DialogStays \/ DialogOpens) /\ UNCHANGED <<flights, agreed>>
  <2> DEFINE p == [page EXCEPT !.data = a.data, !.loaded = TRUE, !.offline = 0]
  <2>1. a.data \in Snapshots /\ a.plan \in Nat
    BY <1>1 DEF Answers
  <2>2. p \in PageState /\ p.dialog = page.dialog /\ p.shown = page.shown
    BY <1>1, <2>1 DEF PageState
  <2>3. page' = RenderPending(p, a.plan) /\ UNCHANGED <<flights, agreed>>
    BY <1>8 DEF PollAnswered, history
  <2> HIDE DEF p
  <2>4. page' \in PageState
    BY <2>1, <2>2, <2>3, Rendering
  <2>5. CASE a.plan = 0 \/ p.shown # a.plan
    <3>1. page'.dialog => page'.shown # 0
      BY <2>1, <2>2, <2>3, <2>5 DEF RenderPending, PageState
    <3> QED
      BY <2>3, <2>4, <3>1 DEF DialogOpens
  <2>6. CASE a.plan # 0 /\ p.shown = a.plan
    <3>1. page' = p
      BY <2>3, <2>6 DEF RenderPending
    <3> QED
      BY <2>2, <2>3, <2>4, <3>1 DEF DialogStays
  <2> QED
    BY <2>5, <2>6
<1>9. ASSUME NEW a \in answers, CallAnswered(a)
      PROVE  page' \in PageState /\ DialogStays /\ UNCHANGED <<flights, agreed>>
  <2>1. page' \in PageState /\ page'.dialog = page.dialog /\ page'.shown = page.shown
    BY <1>1, <1>9 DEF CallAnswered, ShowOverlay, PageState
  <2>2. UNCHANGED <<flights, agreed>>
    BY <1>9 DEF CallAnswered, history
  <2> QED
    BY <2>1, <2>2 DEF DialogStays
<1>10. ASSUME NEW kinds, Click(kinds), "confirm" \notin kinds
       PROVE  page' \in PageState /\ DialogStays /\ CallsStay /\ UNCHANGED agreed
  <2>1. UNCHANGED <<page, agreed>>
    BY <1>10 DEF Click, history
  <2>2. PICK f \in {Call(kind, 0) : kind \in Buttons \intersect kinds} : flights' = flights \union {f}
    BY <1>10 DEF Click
  <2>3. f.kind \in kinds
    BY <1>3, <2>2
  <2> QED
    BY <1>1, <1>10, <2>1, <2>2, <2>3 DEF DialogStays, CallsStay
<1>11. CASE Agree
  <2>1. page' = [page EXCEPT !.dialog = FALSE] /\ page.dialog
        /\ flights' = flights \union {Call("confirm", page.shown)}
        /\ agreed' = agreed \union {page.shown}
    BY <1>11 DEF Agree
  <2>2. page' \in PageState /\ ~page'.dialog
    BY <1>1, <2>1 DEF PageState
  <2> QED
    BY <2>1, <2>2 DEF DialogStays
<1>12. CASE Decline
  <2>1. page' = [page EXCEPT !.dialog = FALSE] /\ UNCHANGED agreed
        /\ flights' = flights \union {Call("dismiss", 0)}
    BY <1>12 DEF Decline, history
  <2>2. page' \in PageState /\ ~page'.dialog
    BY <1>1, <2>1 DEF PageState
  <2> QED
    BY <1>3, <2>1, <2>2 DEF DialogStays, CallsStay
<1>13. CASE ClosePage
  <2>1. page' = ClosedPage /\ UNCHANGED agreed
    BY <1>13 DEF ClosePage, history
  <2>2. PICK read \in SUBSET {f \in flights : ~f.orphan} :
          flights' = {f \in flights : f.orphan} \union {[f EXCEPT !.orphan = TRUE] : f \in read}
    BY <1>13 DEF ClosePage
  <2>3. \A f \in flights : [f EXCEPT !.orphan = TRUE].kind = f.kind /\ [f EXCEPT !.orphan = TRUE].arg = f.arg
    BY <1>1 DEF Calls
  <2>4. CallsStay
    BY <2>2, <2>3 DEF CallsStay
  <2> QED
    BY <1>2, <2>1, <2>4 DEF DialogStays
<1>14. CASE OpenPage
  <2>1. page' = FreshPage /\ flights' = flights \union OnLoad /\ UNCHANGED agreed
    BY <1>14 DEF OpenPage, history
  <2> QED
    BY <1>2, <1>3, <1>4, <2>1 DEF DialogStays, CallsStay
<1>15. CASE ClickSerial \/ RefreshDevices \/ RunOperation \/ Quit
  BY <1>10, <1>15 DEF ClickSerial, RefreshDevices, RunOperation, Quit
<1>16. UNCHANGED <<flights, agreed>> => CallsStay
  BY DEF CallsStay
<1> QED
  BY <1>5, <1>6, <1>7, <1>8, <1>9, <1>11, <1>12, <1>13, <1>14, <1>15, <1>16 DEF PageNext

LEMMA StepConfirmed == ASSUME TypeOK, Begun, Confirmed, [Next]_vars PROVE Confirmed'
<1>1. StepKinds
  BY EveryKind
<1>2. CASE PageNext
  <2>1. UNCHANGED <<handling, worker>>
    BY <1>2, PageFrame
  <2>2. page'.dialog => page'.shown # 0
    BY <1>2, PageDoes DEF DialogStays, DialogOpens, Confirmed
  <2>3. CASE CallsStay /\ UNCHANGED agreed
    BY <2>1, <2>2, <2>3 DEF CallsStay, Confirmed
  <2>4. CASE /\ page.dialog
             /\ flights' = flights \union {Call("confirm", page.shown)}
             /\ agreed' = agreed \union {page.shown}
    <3>1. Call("confirm", page.shown).arg = page.shown
      BY DEF Call
    <3> QED
      BY <2>1, <2>2, <2>4, <3>1 DEF Confirmed
  <2> QED
    BY <1>2, <2>3, <2>4, PageDoes
<1>3. CASE ~PageNext
  <2>1. UNCHANGED <<page, agreed>> /\ flights' \subseteq flights
    BY <1>3, ServerFrame, WorkerFrame, CablesFrame, Stutter DEF Next
  <2>2. NoPlan.id = 0 /\ NoWorker.task = "adb" /\ NoWorker.plan = NoPlan
    BY NoPlanIsPlan, NoWorkerType
  <2>3. CASE PlansStay \/ PlanMade \/ Sent
    BY <2>1, <2>3 DEF PlansStay, PlanMade, Sent, SameTask, Confirmed
  <2>4. CASE PlanTaken
    <3>1. PICK f \in flights :
            /\ f.kind = "confirm" /\ pending.id = f.arg /\ identity # NoModule
            /\ handling' = handling \union {[call |-> f, plan |-> pending, expected |-> identity]}
      BY <2>4 DEF PlanTaken
    <3>2. f.arg # 0 /\ f.arg \in agreed
      BY <3>1 DEF Confirmed
    <3> DEFINE new == [call |-> f, plan |-> pending, expected |-> identity]
    <3>3. new.call.kind = "confirm" /\ new.plan.id = f.arg /\ new.expected # NoModule
          /\ handling' = handling \union {new}
      BY <3>1
    <3>4. UNCHANGED worker
      BY <2>4 DEF PlanTaken
    <3> HIDE DEF new
    <3> QED
      BY <2>1, <3>2, <3>3, <3>4 DEF Confirmed
  <2>5. CASE OtherHandled
    <3>1. PICK f \in flights, m \in Known :
            /\ f.kind \in Serial \ {"confirm"}
            /\ handling' = handling \union {[call |-> f, plan |-> NoPlan, expected |-> m]}
      BY <2>5 DEF OtherHandled
    <3> DEFINE new == [call |-> f, plan |-> NoPlan, expected |-> m]
    <3>2. new.call.kind # "confirm" /\ new.plan.id = 0 /\ handling' = handling \union {new}
      BY <2>2, <3>1
    <3>3. UNCHANGED worker
      BY <2>5 DEF OtherHandled
    <3> HIDE DEF new
    <3> QED
      BY <2>1, <3>2, <3>3 DEF Confirmed
  <2>6. CASE HandlerEnds
    <3>1. PICK h \in handling :
            /\ handling' = handling \ {h}
            /\ \/ UNCHANGED worker
               \/ worker'.task = h.call.kind /\ worker'.plan = h.plan /\ worker'.expected = h.expected
      BY <2>6, Begins DEF HandlerEnds
    <3> QED
      BY <2>1, <3>1 DEF Confirmed
  <2>7. CASE AdbBegins
    BY <2>1, <2>2, <2>7, AdbTask DEF AdbBegins, Confirmed
  <2>8. CASE Freed
    BY <2>1, <2>2, <2>8 DEF Freed, Confirmed
  <2> QED
    BY <1>1, <2>3, <2>4, <2>5, <2>6, <2>7, <2>8 DEF StepKinds
<1> QED
  BY <1>2, <1>3

\* The token goes with the slot.
LEMMA StepSlot == ASSUME TypeOK, Begun, Slot, [Next]_vars PROVE Slot'
<1>1. CASE PageNext \/ Plug \/ UNCHANGED vars
  BY <1>1, PageFrame, CablesFrame, Stutter DEF Slot
<1>2. ASSUME NEW f \in flights, Handle(f) PROVE Slot'
  <2>1. CASE HandleDevices(f) \/ HandleSerial(f) \/ HandlePreview(f) \/ HandleDismiss(f) \/ HandleQuit(f)
    <3>1. UNCHANGED <<busy, worker, cancel>>
      BY <2>1 DEF HandleDevices, HandleSerial, HandlePreview, HandleDismiss, HandleQuit, inner, threads
    <3> QED
      BY <3>1 DEF Slot
  <2>2. CASE HandleStop(f)
    BY <2>2, NoWorkerType DEF HandleStop, inner, Slot, TypeOK
  <2>3. CASE HandleRun(f)
    <3>1. \/ UNCHANGED <<busy, worker, cancel>>
          \/ busy' = "adb" /\ cancel' = FALSE /\ worker' = Worker("adb", NoModule, NoPlan)
      BY <2>3 DEF HandleRun, Begin, FreshToken
    <3>2. "adb" \in Serial \union {"adb"} /\ NoModule \in Known /\ NoPlan \in Plans
      BY NoPlanIsPlan DEF Known
    <3> QED
      BY <3>1, <3>2, WorkerType DEF Slot
  <2> QED
    BY <1>2, <2>1, <2>2, <2>3, HandleDoes DEF Handlings
<1>3. ASSUME NEW h \in handling, BeginSerial(h) PROVE Slot'
  <2>1. h.call.kind \in Serial
    BY DEF TypeOK, Handlers
  <2>2. \/ UNCHANGED <<busy, worker, cancel>>
        \/ /\ busy' = "serial" /\ cancel' = FALSE
           /\ worker' = Worker(h.call.kind, h.expected, h.plan)
    BY <1>3 DEF BeginSerial, Begin, FreshToken
  <2>3. CASE UNCHANGED <<busy, worker, cancel>>
    BY <2>3 DEF Slot
  <2>4. CASE /\ busy' = "serial" /\ cancel' = FALSE
             /\ worker' = Worker(h.call.kind, h.expected, h.plan)
    <3>1. worker'.pc = "open" /\ worker'.stopped = FALSE
      BY <2>1, <2>4, Begins
    <3> QED
      BY <2>4, <3>1 DEF Slot
  <2> QED
    BY <2>2, <2>3, <2>4
<1>4. CASE ScanEnds \/ WatchdogExits \/ Stops
  <2>1. UNCHANGED <<busy, worker, cancel>>
    BY <1>4 DEF ScanEnds, WatchdogExits, Stops, inner, threads
  <2> QED
    BY <2>1 DEF Slot
<1>5. CASE WorkerSteps /\ ~WorkerFinishes
  BY <1>5, TaskDoes, WorkerFrame DEF Onwards, Slot
<1>6. CASE WorkerFinishes
  BY <1>6, NoWorkerType DEF WorkerFinishes, Slot
<1>7. CASE Swap
  <2>1. worker' = [worker EXCEPT !.link = FALSE] /\ UNCHANGED <<busy, cancel>>
    BY <1>7, CablesFrame
  <2>2. worker'.pc = worker.pc /\ worker'.stopped = worker.stopped
        /\ (worker = NoWorker => worker' = worker)
    BY <2>1 DEF TypeOK, NoWorker
  <2> QED
    BY <2>1, <2>2 DEF Slot
<1> QED
  BY <1>1, <1>2, <1>3, <1>4, <1>5, <1>6, <1>7 DEF Next, ServerNext

LEMMA StepPortIsOpen == ASSUME TypeOK, Begun, PortIsOpen, [Next]_vars PROVE PortIsOpen'
<1>1. CASE PageNext \/ Plug \/ UNCHANGED vars
  BY <1>1, PageFrame, CablesFrame, Stutter DEF PortIsOpen
<1>2. CASE ServerNext
  <2>1. UNCHANGED attached
    BY <1>2, ServerFrame
  <2>2. worker'.link => worker.link /\ worker'.expected = worker.expected
    <3>1. ASSUME NEW f \in flights, Handle(f)
          PROVE worker'.link => worker.link /\ worker'.expected = worker.expected
      <4>1. \/ UNCHANGED worker
            \/ worker' = [worker EXCEPT !.stopped = TRUE]
            \/ worker' = NoWorker
            \/ worker' = Worker("adb", NoModule, NoPlan)
        BY <3>1, HandleDoes DEF Handlings, HandleDevices, HandleSerial, HandlePreview, HandleDismiss,
                    HandleStop, HandleRun, HandleQuit, Begin, threads
      <4>2. "adb" \in Serial \union {"adb"} /\ NoModule \in Known /\ NoPlan \in Plans
        BY NoPlanIsPlan DEF Known
      <4>3. NoWorker.link = FALSE
        BY NoWorkerType
      <4>4. CASE worker' = [worker EXCEPT !.stopped = TRUE]
        BY <4>4 DEF TypeOK
      <4>5. CASE worker' = Worker("adb", NoModule, NoPlan)
        BY <4>2, <4>5, WorkerType
      <4> QED
        BY <4>1, <4>3, <4>4, <4>5
    <3>2. ASSUME NEW h \in handling, BeginSerial(h)
          PROVE worker'.link => worker.link /\ worker'.expected = worker.expected
      <4>1. h.call.kind \in Serial
        BY DEF TypeOK, Handlers
      <4>2. UNCHANGED worker \/ worker' = Worker(h.call.kind, h.expected, h.plan)
        BY <3>2 DEF BeginSerial, Begin
      <4> QED
        BY <4>1, <4>2, Begins
    <3>3. CASE ScanEnds \/ WatchdogExits \/ Stops
      BY <3>3 DEF ScanEnds, WatchdogExits, Stops, threads
    <3> QED
      BY <1>2, <3>1, <3>2, <3>3 DEF ServerNext
  <2> QED
    BY <2>1, <2>2 DEF PortIsOpen
<1>3. CASE WorkerSteps /\ ~WorkerFinishes
  BY <1>3, TaskDoes, WorkerFrame DEF Onwards, PortIsOpen
<1>4. CASE WorkerFinishes
  BY <1>4, NoWorkerType DEF WorkerFinishes, PortIsOpen
<1>5. CASE Swap
  BY <1>5, CablesFrame DEF PortIsOpen, TypeOK
<1> QED
  BY <1>1, <1>2, <1>3, <1>4, <1>5 DEF Next

-----------------------------------------------------------------------------
(* The types.                                                               *)

ServerType ==
  /\ devices \in BOOLEAN /\ scanning \in BOOLEAN /\ cancel \in BOOLEAN
  /\ busy \in {"none", "serial", "adb"}
  /\ scan \in [running : BOOLEAN, handler : BOOLEAN, kind : {"devices", "rescan"}]
  /\ serving \in {"yes", "stopping", "no"}
PlansType == pending \in Plans /\ plans \in Nat /\ ran \subseteq Nat /\ handling \subseteq Handlers
CallsType == flights \subseteq Calls /\ answers \subseteq Answers
BoundsType == use \in Uses /\ events \in Nat /\ agreed \subseteq Nat

LEMMA TypeParts ==
  TypeOK <=> /\ attached \in Known /\ plugged \in BOOLEAN /\ identity \in Known
             /\ ServerType /\ PlansType /\ CallsType /\ BoundsType
             /\ worker \in WorkerState /\ page \in PageState
BY DEF TypeOK, ServerType, PlansType, CallsType, BoundsType, WorkerState, PageState

LEMMA CallType == \A kind \in Kinds, arg \in Nat : Call(kind, arg) \in Calls
BY DEF Call, Calls

LEMMA StepWorldType ==
  ASSUME TypeOK, Begun, [Next]_vars
  PROVE attached' \in Known /\ plugged' \in BOOLEAN /\ identity' \in Known
<1>1. attached \in Known /\ plugged \in BOOLEAN /\ identity \in Known /\ NoModule \in Known
  BY DEF TypeOK, Known
<1>2. CASE PageNext \/ UNCHANGED vars
  BY <1>1, <1>2, PageFrame, Stutter
<1>3. CASE ServerNext
  <2>1. UNCHANGED identity
    <3>1. ASSUME NEW f \in flights, Handle(f) PROVE UNCHANGED identity
      BY <3>1, HandleDoes DEF Handlings, HandleDevices, HandleSerial, HandlePreview, HandleDismiss,
                  HandleStop, HandleRun, HandleQuit, inner
    <3> QED
      BY <1>3, <3>1 DEF ServerNext, BeginSerial, ScanEnds, WatchdogExits, Stops, inner
  <2> QED
    BY <1>1, <1>3, <2>1, ServerFrame
<1>4. CASE WorkerSteps /\ ~WorkerFinishes
  BY <1>1, <1>4, TaskDoes, WorkerFrame DEF Onwards
<1>5. CASE WorkerFinishes
  BY <1>1, <1>5 DEF WorkerFinishes, world
<1>6. CASE Swap
  <2>1. attached' \in Known /\ UNCHANGED plugged
    BY <1>6 DEF Swap, Known
  <2> QED
    BY <1>1, <1>6, <2>1, CablesFrame
<1>7. CASE Plug
  BY <1>1, <1>7, CablesFrame DEF Plug
<1> QED
  BY <1>2, <1>3, <1>4, <1>5, <1>6, <1>7 DEF Next

LEMMA StepServerType == ASSUME TypeOK, Begun, [Next]_vars PROVE ServerType'
<1>1. ServerType /\ plugged \in BOOLEAN
  BY DEF TypeOK, ServerType
<1>2. CASE PageNext
  <2>1. \/ UNCHANGED scan
        \/ scan' = [scan EXCEPT !.handler = FALSE]
    BY <1>2 DEF PageNext, SendPoll, PollFails, RescanTimerFires, PollAnswered, CallAnswered,
                ClickSerial, RefreshDevices, RunOperation, Quit, Click, Agree, Decline, ClosePage,
                OpenPage, ElsewherePage, threads
  <2>2. scan' \in [running : BOOLEAN, handler : BOOLEAN, kind : {"devices", "rescan"}]
    BY <1>1, <2>1 DEF ServerType
  <2> QED
    BY <1>1, <1>2, <2>2, PageFrame DEF ServerType
<1>3. ASSUME NEW f \in flights, Handle(f) PROVE ServerType'
  <2>1. CASE HandleDevices(f)
    <3>1. f.orphan \in BOOLEAN
      BY DEF TypeOK, Calls
    <3>2. /\ scanning' \in BOOLEAN
          /\ \/ UNCHANGED scan
             \/ scan' = [running |-> TRUE, handler |-> ~f.orphan, kind |-> f.kind]
          /\ f.kind \in {"devices", "rescan"}
      BY <1>1, <2>1 DEF HandleDevices, ServerType
    <3>3. (~f.orphan) \in BOOLEAN
      BY <3>1
    <3>4. scan' \in [running : BOOLEAN, handler : BOOLEAN, kind : {"devices", "rescan"}]
      <4> DEFINE handler == ~f.orphan
      <4>1. \/ UNCHANGED scan
            \/ scan' = [running |-> TRUE, handler |-> handler, kind |-> f.kind]
        BY <3>2
      <4>2. handler \in BOOLEAN
        BY <3>3
      <4>3. f.kind \in {"devices", "rescan"}
        BY <3>2
      <4> HIDE DEF handler
      <4>4. [running |-> TRUE, handler |-> handler, kind |-> f.kind]
              \in [running : BOOLEAN, handler : BOOLEAN, kind : {"devices", "rescan"}]
        BY <4>2, <4>3
      <4> QED
        BY <1>1, <4>1, <4>4 DEF ServerType
    <3> QED
      BY <1>1, <2>1, <3>2, <3>4 DEF HandleDevices, inner, ServerType
  <2>2. CASE HandleSerial(f) \/ HandlePreview(f) \/ HandleDismiss(f)
    BY <1>1, <2>2 DEF HandleSerial, HandlePreview, HandleDismiss, threads, ServerType
  <2>3. CASE HandleStop(f) \/ HandleQuit(f)
    BY <1>1, <2>3 DEF HandleStop, HandleQuit, inner, threads, ServerType
  <2>4. CASE HandleRun(f)
    BY <1>1, <2>4 DEF HandleRun, Begin, FreshToken, ServerType
  <2> QED
    BY <1>3, <2>1, <2>2, <2>3, <2>4, HandleDoes DEF Handlings
<1>4. ASSUME NEW h \in handling, BeginSerial(h) PROVE ServerType'
  BY <1>1, <1>4 DEF BeginSerial, Begin, FreshToken, ServerType
<1>5. CASE ScanEnds \/ Stops
  <2>1. scan' = NoScan /\ NoScan \in [running : BOOLEAN, handler : BOOLEAN, kind : {"devices", "rescan"}]
    BY <1>5 DEF ScanEnds, Stops, NoScan
  <2>2. UNCHANGED <<busy, cancel>>
    BY <1>5 DEF ScanEnds, Stops, inner
  <2>3. devices' \in BOOLEAN /\ scanning' \in BOOLEAN
    BY <1>1, <1>5 DEF ScanEnds, Stops, inner, ServerType
  <2>4. serving' \in {"yes", "stopping", "no"}
    BY <1>1, <1>5 DEF ScanEnds, Stops, ServerType
  <2> QED
    BY <1>1, <2>1, <2>2, <2>3, <2>4 DEF ServerType
<1>8. CASE WatchdogExits
  BY <1>1, <1>8 DEF WatchdogExits, inner, threads, ServerType
<1>6. CASE WorkerSteps
  <2>1. busy' \in {"none", "serial", "adb"}
    BY <1>1, <1>6, TaskDoes DEF Onwards, WorkerFinishes, ServerType
  <2> QED
    BY <1>1, <1>6, <2>1, WorkerFrame DEF ServerType
<1>7. CASE Swap \/ Plug \/ UNCHANGED vars
  BY <1>1, <1>7, CablesFrame, Stutter DEF ServerType
<1> QED
  BY <1>2, <1>3, <1>4, <1>5, <1>6, <1>7, <1>8 DEF Next, ServerNext

LEMMA StepPlansType ==
  ASSUME TypeOK, Begun, [Next]_vars PROVE PlansType' /\ worker' \in WorkerState
<1>1. StepKinds
  BY EveryKind
<1>2. PlansType /\ worker \in WorkerState /\ NoPlan \in Plans
  BY NoPlanIsPlan DEF TypeOK, PlansType, WorkerState
<1>3. CASE PlansStay \/ PlanMade
  <2>1. plans' \in Nat
    BY <1>2, <1>3 DEF PlansStay, PlanMade, PlansType
  <2>2. pending' \in Plans
    BY <1>2, <1>3 DEF PlansStay, PlanMade, Dropped, PlansType
  <2>3. UNCHANGED <<ran, handling>> /\ worker' \in WorkerState
    BY <1>3 DEF PlansStay, PlanMade, SameTask
  <2> QED
    BY <1>2, <2>1, <2>2, <2>3 DEF PlansType
<1>4. CASE PlanTaken
  <2>1. PICK f \in flights :
          /\ f.kind = "confirm"
          /\ handling' = handling \union {[call |-> f, plan |-> pending, expected |-> identity]}
    BY <1>4 DEF PlanTaken
  <2>2. [call |-> f, plan |-> pending, expected |-> identity] \in Handlers
    BY <2>1 DEF TypeOK, Handlers, Serial
  <2> QED
    BY <1>2, <1>4, <2>1, <2>2 DEF PlanTaken, PlansType
<1>5. CASE OtherHandled
  <2>1. PICK f \in flights, m \in Known :
          /\ f.kind \in Serial
          /\ handling' = handling \union {[call |-> f, plan |-> NoPlan, expected |-> m]}
    BY <1>5 DEF OtherHandled
  <2>2. [call |-> f, plan |-> NoPlan, expected |-> m] \in Handlers
    BY <1>2, <2>1 DEF TypeOK, Handlers
  <2> QED
    BY <1>2, <1>5, <2>1, <2>2 DEF OtherHandled, PlansType
<1>6. CASE HandlerEnds
  BY <1>2, <1>6, Begins DEF HandlerEnds, PlansType
<1>7. CASE AdbBegins
  BY <1>2, <1>7, AdbTask DEF AdbBegins, PlansType
<1>8. CASE Sent
  <2>1. worker.plan.id \in Nat
    BY <1>2 DEF WorkerState, Plans
  <2> QED
    BY <1>2, <1>8, <2>1 DEF Sent, Dropped, PlansType
<1>9. CASE Freed
  BY <1>2, <1>9, NoWorkerType DEF Freed, PlansType
<1> QED
  BY <1>1, <1>3, <1>4, <1>5, <1>6, <1>7, <1>8, <1>9 DEF StepKinds

\* The answer a handler leaves.
LEMMA ReplyType ==
  ASSUME answers \subseteq Answers, NEW f, f.kind \in Kinds, NEW ok, Reply(f, ok)
  PROVE answers' \subseteq Answers
<1>1. NoSnapshot \in Snapshots
  BY DEF NoSnapshot, Snapshots
<1>2. f.kind \in {"rescan", "quit"} => Other(f.kind) \in Answers
  BY <1>1 DEF Other, Answers
<1>3. answers' = answers \/ (f.kind \in {"rescan", "quit"} /\ answers' = answers \union {Other(f.kind)})
  BY DEF Reply
<1> QED
  BY <1>2, <1>3

LEMMA PolledType == ASSUME TypeOK, NEW slot \in Nat PROVE Polled(slot) \in Answers
<1> DEFINE known == identity # NoModule
<1>1. known \in BOOLEAN /\ busy \in {"none", "serial", "adb"} /\ devices \in BOOLEAN /\ pending.id \in Nat
  BY DEF TypeOK, Plans
<1>2. Snapshot = [busy |-> busy, known |-> known, devices |-> devices]
  BY DEF Snapshot
<1> HIDE DEF known
<1>3. Snapshot \in Snapshots
  BY <1>1, <1>2 DEF Snapshots
<1> QED
  BY <1>1, <1>3 DEF Polled, Answers

LEMMA StepCallsType == ASSUME TypeOK, Begun, [Next]_vars PROVE CallsType'
<1>1. flights \subseteq Calls /\ answers \subseteq Answers
  BY DEF TypeOK
<1>2. CASE PageNext
  <2>1. page.shown \in Nat
    BY DEF TypeOK
  <2>2. OnLoad \subseteq Calls
    BY CallType DEF OnLoad, Kinds
  <2>3. CASE SendPoll
    <3>1. PICK slot \in 1..use.polls : answers' = answers \union {Polled(slot)}
      BY <2>3 DEF SendPoll
    <3>2. use.polls \in Nat
      BY UsesAssumption DEF TypeOK
    <3>3. Polled(slot) \in Answers
      BY <3>1, <3>2, PolledType
    <3> QED
      BY <1>1, <2>3, <3>1, <3>3 DEF SendPoll, CallsType
  <2>4. CASE PollFails
    BY <1>1, <2>4 DEF PollFails, calls, CallsType
  <2>5. CASE \E a \in answers : PollAnswered(a) \/ CallAnswered(a)
    BY <1>1, <2>5 DEF PollAnswered, CallAnswered, CallsType
  <2>6. CASE RescanTimerFires \/ Decline
    BY <1>1, <2>6, CallType DEF RescanTimerFires, Decline, Kinds, CallsType
  <2>7. CASE Agree
    BY <1>1, <2>1, <2>7, CallType DEF Agree, Kinds, CallsType
  <2>8. ASSUME NEW kinds, Click(kinds), kinds \subseteq Kinds PROVE CallsType'
    <3>1. PICK f \in {Call(kind, 0) : kind \in Buttons \intersect kinds} : flights' = flights \union {f}
      BY <2>8 DEF Click
    <3>2. f \in Calls
      BY <2>8, <3>1, CallType
    <3> QED
      BY <1>1, <2>8, <3>1, <3>2 DEF Click, CallsType
  <2>9. CASE ClosePage
    <3>1. PICK read \in SUBSET {f \in flights : ~f.orphan} :
            flights' = {f \in flights : f.orphan} \union {[f EXCEPT !.orphan = TRUE] : f \in read}
      BY <2>9 DEF ClosePage
    <3>2. \A f \in flights : [f EXCEPT !.orphan = TRUE] \in Calls
      BY <1>1 DEF Calls
    <3>3. answers' = {}
      BY <2>9 DEF ClosePage
    <3> QED
      BY <1>1, <3>1, <3>2, <3>3 DEF CallsType
  <2>10. CASE OpenPage
    BY <1>1, <2>2, <2>10 DEF OpenPage, CallsType
  <2>11. CASE ClickSerial \/ RefreshDevices \/ RunOperation \/ Quit
    <3>1. {"identify", "check", "restart", "read", "stop"} \subseteq Kinds /\ {"devices"} \subseteq Kinds
          /\ {"run"} \subseteq Kinds /\ {"quit"} \subseteq Kinds
      BY DEF Kinds
    <3> QED
      BY <2>8, <2>11, <3>1 DEF ClickSerial, RefreshDevices, RunOperation, Quit
  <2> QED
    BY <1>2, <2>3, <2>4, <2>5, <2>6, <2>7, <2>9, <2>10, <2>11 DEF PageNext
<1>3. CASE ServerNext
  <2>1. flights' \subseteq Calls
    BY <1>1, <1>3, ServerFrame
  <2>2. ASSUME NEW f \in flights, Handle(f) PROVE answers' \subseteq Answers
    <3>1. f.kind \in Kinds
      BY <1>1 DEF Calls
    <3>2. UNCHANGED answers \/ \E ok : Reply(f, ok)
      BY <2>2, HandleDoes DEF Handlings, HandleDevices, HandleSerial, HandlePreview, HandleDismiss,
                  HandleStop, HandleRun, HandleQuit
    <3> QED
      BY <1>1, <3>1, <3>2, ReplyType
  <2>3. ASSUME NEW h \in handling, BeginSerial(h) PROVE answers' \subseteq Answers
    <3>1. h.call.kind \in Kinds
      BY DEF TypeOK, Handlers, Calls
    <3>2. \E ok : Reply(h.call, ok)
      BY <2>3 DEF BeginSerial
    <3> QED
      BY <1>1, <3>1, <3>2, ReplyType
  <2>4. ASSUME ScanEnds PROVE answers' \subseteq Answers
    <3> DEFINE c == Call(scan.kind, 0)
    <3>1. c.kind \in Kinds
      BY DEF TypeOK, Call, Kinds
    <3>2. UNCHANGED answers \/ Reply(c, TRUE)
      BY <2>4 DEF ScanEnds
    <3> HIDE DEF c
    <3> QED
      BY <1>1, <3>1, <3>2, ReplyType
  <2>5. ASSUME WatchdogExits \/ Stops PROVE answers' \subseteq Answers
    BY <1>1, <2>5 DEF WatchdogExits, Stops, calls
  <2> QED
    BY <1>3, <2>1, <2>2, <2>3, <2>4, <2>5 DEF ServerNext, CallsType
<1>4. CASE WorkerSteps \/ Swap \/ Plug \/ UNCHANGED vars
  BY <1>1, <1>4, WorkerFrame, CablesFrame, Stutter DEF CallsType
<1> QED
  BY <1>2, <1>3, <1>4 DEF Next

LEMMA StepBoundsType == ASSUME TypeOK, Begun, [Next]_vars PROVE BoundsType' /\ page' \in PageState
<1>1. use \in Uses /\ events \in Nat /\ agreed \subseteq Nat /\ page \in PageState /\ page.shown \in Nat
  BY DEF TypeOK, PageState
<1>2. CASE PageNext
  <2>1. page' \in PageState /\ UNCHANGED use /\ agreed' \subseteq Nat
    BY <1>1, <1>2, PageDoes, PageFrame
  <2>2. \A does : Event(does) => events' \in Nat
    BY <1>1 DEF Event
  <2>3. events' \in Nat
    BY <1>1, <1>2, <2>2 DEF PageNext, SendPoll, PollFails, RescanTimerFires, PollAnswered, CallAnswered,
                ClickSerial, RefreshDevices, RunOperation, Quit, Click, Agree, Decline, ClosePage,
                OpenPage, bounds
  <2> QED
    BY <2>1, <2>3, <1>1 DEF BoundsType
<1>3. CASE ServerNext \/ WorkerSteps \/ UNCHANGED vars
  BY <1>1, <1>3, ServerFrame, WorkerFrame, Stutter DEF BoundsType
<1>4. CASE Swap \/ Plug
  <2>1. events' \in Nat
    BY <1>1, <1>4 DEF Swap, Plug, Event
  <2> QED
    BY <1>1, <1>4, <2>1, CablesFrame DEF BoundsType
<1> QED
  BY <1>2, <1>3, <1>4 DEF Next

LEMMA StepType == ASSUME TypeOK, Begun, [Next]_vars PROVE TypeOK'
<1>1. attached' \in Known /\ plugged' \in BOOLEAN /\ identity' \in Known
  BY StepWorldType
<1>2. ServerType'
  BY StepServerType
<1>3. PlansType' /\ worker' \in WorkerState
  BY StepPlansType
<1>4. CallsType'
  BY StepCallsType
<1>5. BoundsType' /\ page' \in PageState
  BY StepBoundsType
<1> QED
  BY <1>1, <1>2, <1>3, <1>4, <1>5 DEF TypeOK, ServerType, PlansType, CallsType, BoundsType,
     WorkerState, PageState

-----------------------------------------------------------------------------
(* The theorems.                                                            *)

LEMMA InitIndInv == Init => IndInv
<1> SUFFICES ASSUME Init PROVE IndInv
  OBVIOUS
<1>1. NoPlan \in Plans /\ NoPlan.id = 0 /\ NoWorker \in WorkerState
      /\ NoWorker.pc = "none" /\ NoWorker.task = "adb" /\ NoWorker.plan = NoPlan /\ NoWorker.link = FALSE
  BY NoPlanIsPlan, NoWorkerType
<1>2. FreshPage \in PageState /\ FreshPage.dialog = FALSE
  BY DEF FreshPage, ClosedPage, PageState, NoSnapshot, Snapshots
<1>3. NoScan \in [running : BOOLEAN, handler : BOOLEAN, kind : {"devices", "rescan"}]
  BY DEF NoScan
<1>4. OnLoad \subseteq Calls /\ \A f \in OnLoad : f.kind = "devices"
  BY CallType DEF OnLoad, Call, Kinds
<1>5. TypeOK
  <2>1. attached \in Known /\ plugged \in BOOLEAN /\ identity \in Known
    BY DEF Init, Known
  <2>2. ServerType
    BY <1>3 DEF Init, ServerType
  <2>3. PlansType /\ CallsType /\ BoundsType
    BY <1>1, <1>4 DEF Init, PlansType, CallsType, BoundsType
  <2> QED
    BY <1>1, <1>2, <2>1, <2>2, <2>3, TypeParts DEF Init
<1>6. Slot
  BY <1>1 DEF Init, Slot
<1>7. Confirmed
  BY <1>1, <1>2, <1>4 DEF Init, Confirmed
<1>8. Numbered
  BY <1>1 DEF Init, Numbered
<1>9. OneOwner
  BY <1>1 DEF Init, OneOwner
<1>10. Begun /\ PortIsOpen
  BY <1>1 DEF Init, Begun, AtWork, PortIsOpen
<1> QED
  BY <1>5, <1>6, <1>7, <1>8, <1>9, <1>10 DEF IndInv

LEMMA StepIndInv == IndInv /\ [Next]_vars => IndInv'
<1> SUFFICES ASSUME IndInv, [Next]_vars PROVE IndInv'
  OBVIOUS
<1>1. TypeOK /\ Slot /\ Confirmed /\ Numbered /\ OneOwner /\ Begun /\ PortIsOpen
  BY DEF IndInv
<1>2. TypeOK'
  BY <1>1, StepType
<1>3. Slot'
  BY <1>1, StepSlot
<1>4. Confirmed'
  BY <1>1, StepConfirmed
<1>5. Numbered'
  BY <1>1, StepNumbered
<1>6. OneOwner'
  BY <1>1, StepOneOwner
<1>7. Begun'
  BY <1>1, StepBegun
<1>8. PortIsOpen'
  BY <1>1, StepPortIsOpen
<1> QED
  BY <1>2, <1>3, <1>4, <1>5, <1>6, <1>7, <1>8 DEF IndInv

\* IndInv holds in every state the assistant can be in.
THEOREM Invariance == Spec => []IndInv
BY InitIndInv, StepIndInv, PTL DEF Spec

\* Every variable of the page, the server and the task keeps its type.
THEOREM TypeCorrect == Spec => []TypeOK
<1>1. IndInv => TypeOK
  BY DEF IndInv
<1> QED
  BY <1>1, Invariance, PTL

\* confirm, serial_task and verify_identity: a command is written only of a
\* plan whose dialog the user agreed to, only of one that was never begun
\* before, and only to the module that was identified when it was confirmed,
\* whatever is swapped, confirmed twice or polled late meanwhile.
THEOREM AgreedAndOnce == Spec => OnlyAgreedIsSent
<1>1. ASSUME IndInv, WorkerSends
      PROVE /\ worker.plan.id \in agreed
            /\ worker.left = CommandsOf(worker.plan) => worker.plan.id \notin ran
            /\ attached = worker.expected
  <2>1. worker.pc = "write" /\ worker.task = "confirm" /\ worker.link
    BY <1>1 DEF WorkerSends, At
  <2>2. worker.plan.id \in agreed /\ worker.expected # NoModule
    BY <1>1, <2>1 DEF IndInv, Confirmed
  <2>3. attached = worker.expected
    BY <1>1, <2>1, <2>2 DEF IndInv, PortIsOpen
  <2>4. worker.left = CommandsOf(worker.plan) => worker.plan.id \notin ran
    <3>1. AtWork /\ worker.left \in Nat
      BY <1>1, <2>1 DEF IndInv, TypeOK, AtWork
    <3> QED
      BY <1>1, <3>1 DEF IndInv, Begun
  <2> QED
    BY <2>2, <2>3, <2>4
<1>2. IndInv /\ [Next]_vars =>
        [WorkerSends => /\ worker.plan.id \in agreed
                        /\ worker.left = CommandsOf(worker.plan) => worker.plan.id \notin ran
                        /\ attached = worker.expected]_vars
  BY <1>1
<1> QED
  BY <1>2, Invariance, PTL DEF Spec, OnlyAgreedIsSent

\* begin, stop and Cancel: an operation is cancelled only when a stop was
\* handled while it had the slot, and begins no further command after one;
\* a stop that comes late for one operation never ends the next.
THEOREM StopsAreExact == Spec => StopStopsOne
<1>1. ASSUME IndInv, WorkerCancelled PROVE worker.stopped
  BY <1>1 DEF IndInv, Slot, WorkerCancelled, At
<1>2. ASSUME IndInv, WorkerChecks PROVE ~worker.stopped
  BY <1>2 DEF IndInv, Slot, WorkerChecks, At
<1>3. IndInv /\ [Next]_vars =>
        [/\ WorkerCancelled => worker.stopped
         /\ WorkerChecks => ~worker.stopped]_vars
  BY <1>1, <1>2
<1> QED
  BY <1>3, Invariance, PTL DEF Spec, StopStopsOne
=============================================================================
