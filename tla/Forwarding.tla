----------------------------- MODULE Forwarding -----------------------------
(***************************************************************************)
(* Notifications: forwarded SMS and the notice that the internet is back   *)
(* (src/src/forwarding.rs), and the deletion of forwarded SMS a day later  *)
(* (src/src/cleanup.rs).                                                   *)
(*                                                                         *)
(* Four tasks share the state: the poll that detects new messages, the     *)
(* delivery of one queued job at a time, the receiver of finished outages  *)
(* and the minute tick of the cleanup; requests change the settings.  The  *)
(* generation a task read before an await is modelled as a flag `stale'    *)
(* that a change of the generation sets on it.                             *)
(*                                                                         *)
(* Abstracted: times only decide which job is ready, too old or due, so    *)
(* any job may be; the queue's order then does not matter and it is a set. *)
(* A message is its fragments, not its text; a channel is HTTP (the SIM    *)
(* channel's own checks between segments are left out).                    *)
(***************************************************************************)
EXTENDS Naturals, FiniteSets

CONSTANTS Messages,    \* SMS that arrive
          Outages,     \* finished outages
          Fragments,   \* parts of a message in the module's storage
          Channels,
          Pieces,      \* requests a notification takes on a channel
          Choices,     \* settings a user can save
          MaxJobs,     \* 64 in the code
          MaxReceipts, \* 64 in the code
          NoJob, NoMessage

\* sms: sms_enabled, forward: enabled, del: delete_after_day, targets: enabled channels
\* sms_platforms names, notice: outage_enabled, notify: those outage_platforms names.
Setting == [sms : BOOLEAN, forward : BOOLEAN, del : BOOLEAN, targets : SUBSET Channels,
            notice : BOOLEAN, notify : SUBSET Channels]

ASSUME ChoicesAssumption == Choices # {} /\ Choices \subseteq Setting
ASSUME FiniteAssumption ==
  IsFiniteSet(Messages) /\ IsFiniteSet(Channels) /\ IsFiniteSet(Fragments)
ASSUME FragmentsAssumption == Fragments # {}
ASSUME BoundsAssumption ==
  Pieces \in Nat \ {0} /\ MaxJobs \in Nat \ {0} /\ MaxReceipts \in Nat \ {0}
ASSUME NothingAssumption == NoMessage \notin Messages /\ Messages \cap Outages = {}

VARIABLES settings, settingsFile,
          saver,        \* the request in save() or sms_settings()
          mutation,     \* who holds sms_mutation
          inbox,        \* per fragment: "coming", "here" or "gone"
          ready,        \* Detector.initialized
          seen,         \* Detector.seen: fragments
          poll,         \* the poll task
          queue,        \* the jobs waiting
          flight,       \* the job being delivered
          outcomes,     \* per message: channels pending, and whether one failed
          receipts,     \* Cleanup.receipts: message -> parts still to delete
          receiptsFile, \* sms-delete-receipts.json
          unsaved,      \* Cleanup: generation # saved
          sweep,        \* the cleanup task
          wanted,       \* history, per message: the channels it was to go to
          delivered,    \* history, per message: the channels that confirmed all of it
          queuedTimes,  \* history, per message: how often it was forwarded
          deleted,      \* history: messages the cleanup began to delete
          cancelled     \* history: messages whose planned deletion was cancelled

config == <<settings, settingsFile>>
detector == <<ready, seen>>
jobs == <<queue, outcomes>>
plans == <<receipts, unsaved>>
history == <<wanted, delivered, queuedTimes, deleted, cancelled>>
vars == <<config, saver, mutation, inbox, detector, poll, jobs, flight, plans,
          receiptsFile, sweep, history>>

-----------------------------------------------------------------------------

Notes == Messages \cup Outages
Job == [note : Notes, channel : Channels, sent : 0..(Pieces - 1)]
ASSUME NoJobAssumption == NoJob \notin Job

Part == Messages \X Fragments
NoOutcome == [pending |-> 0, failed |-> FALSE]
NoReceipts == [m \in Messages |-> {}]

IdleSaver == [pc |-> "idle", new |-> settings]
IdlePoll == [pc |-> "idle", list |-> {}, stale |-> FALSE]
NoFlight == [job |-> NoJob, stale |-> FALSE]
IdleSweep == [pc |-> "idle", after |-> "idle", saving |-> NoReceipts, stale |-> FALSE,
              due |-> {}, now |-> NoMessage, left |-> {}, remaining |-> {}]

\* The jobs of a message that are still to be done.
JobsOf(m) ==
  {j \in queue : j.note = m}
    \cup {j \in {flight.job} : j # NoJob /\ ~flight.stale /\ j.note = m}

Receipts == {m \in Messages : receipts[m] # {}}
Here == {p \in Part : inbox[p] = "here"}
Whole(m, list) == \A f \in Fragments : <<m, f>> \in list

TypeOK ==
  /\ settings \in Choices /\ settingsFile \in Choices
  /\ saver \in [pc : {"idle", "wait", "write", "written"}, new : Choices]
  /\ mutation \in {"free", "saver", "sweep"}
  /\ inbox \in [Part -> {"coming", "here", "gone"}]
  /\ ready \in BOOLEAN
  /\ seen \subseteq Part
  /\ poll \in [pc : {"idle", "read", "scan"}, list : SUBSET Part, stale : BOOLEAN]
  /\ queue \subseteq Job
  /\ flight \in [job : Job \cup {NoJob}, stale : BOOLEAN]
  /\ Cardinality(queue) <= IF flight.job = NoJob THEN MaxJobs + 1 ELSE MaxJobs
  /\ outcomes \in [Messages -> [pending : 0..Cardinality(Channels), failed : BOOLEAN]]
  /\ receipts \in [Messages -> SUBSET Fragments]
  /\ Cardinality(Receipts) <= MaxReceipts
  /\ receiptsFile \in [Messages -> SUBSET Fragments]
  /\ unsaved \in BOOLEAN
  /\ sweep \in [pc : {"idle", "flush", "write", "lock", "locked", "read", "pick", "delete", "unlock"},
                after : {"idle", "lock", "unlock"}, saving : [Messages -> SUBSET Fragments],
                stale : BOOLEAN, due : SUBSET Messages, now : Messages \cup {NoMessage},
                left : SUBSET Fragments, remaining : SUBSET Fragments]
  /\ wanted \in [Messages -> SUBSET Channels]
  /\ delivered \in [Messages -> SUBSET Channels]
  /\ queuedTimes \in [Messages -> 0..2]
  /\ deleted \subseteq Messages /\ cancelled \subseteq Messages

-----------------------------------------------------------------------------
(* cleanup.rs: the plans to delete.  Every change leaves the file behind. *)

Changed ==
  /\ unsaved' = TRUE
  /\ sweep' = [sweep EXCEPT !.stale = (sweep.pc = "write")]

\* schedule(), for a message all of whose channels confirmed it.
Schedule(m) ==
  IF receipts[m] = {} /\ Cardinality(Receipts) < MaxReceipts
  THEN /\ receipts' = [receipts EXCEPT ![m] = Fragments]
       /\ Changed
  ELSE UNCHANGED <<plans, sweep>>

\* cancel()
Cancel ==
  IF Receipts # {}
  THEN receipts' = NoReceipts /\ Changed
  ELSE UNCHANGED <<plans, sweep>>

-----------------------------------------------------------------------------
(* Settings. *)

SaveRequest ==
  /\ saver.pc = "idle"
  /\ \E new \in Choices \ {settings} : saver' = [pc |-> "wait", new |-> new]
  /\ UNCHANGED <<config, mutation, inbox, detector, poll, jobs, flight, plans,
                 receiptsFile, sweep, history>>

SaveAcquire ==
  /\ saver.pc = "wait" /\ mutation = "free"
  /\ mutation' = "saver"
  /\ saver' = [saver EXCEPT !.pc = "write"]
  /\ UNCHANGED <<config, inbox, detector, poll, jobs, flight, plans, receiptsFile, sweep,
                 history>>

SaveWrite ==
  /\ saver.pc = "write"
  /\ \/ /\ settingsFile' = saver.new
        /\ saver' = [saver EXCEPT !.pc = "written"]
        /\ UNCHANGED mutation
     \/ /\ saver' = IdleSaver /\ mutation' = "free"
        /\ UNCHANGED settingsFile
  /\ UNCHANGED <<settings, inbox, detector, poll, jobs, flight, plans, receiptsFile,
                 sweep, history>>

\* What empties queue, outcomes and detector and begins a new generation.
Reset(old, new) ==
  old.forward # new.forward \/ old.sms # new.sms \/ old.targets # new.targets

NoticeChanged(old, new) == old.notice # new.notice \/ old.notify # new.notify

\* Mutant: the messages of the old generation are taken for new ones.
ReadyDetector == ready' = TRUE /\ seen' = {}

FreshDetector == ready' = FALSE /\ seen' = {}

Apply(new) ==
  IF Reset(settings, new)
  THEN /\ FreshDetector
       /\ queue' = {} /\ outcomes' = [m \in Messages |-> NoOutcome]
       /\ poll' = [poll EXCEPT !.stale = TRUE]
       /\ flight' = [flight EXCEPT !.stale = TRUE]
  ELSE /\ queue' = IF NoticeChanged(settings, new)
                   THEN {j \in queue : j.note \in Messages} ELSE queue
       /\ UNCHANGED <<detector, outcomes, poll, flight>>

SaveApply ==
  /\ saver.pc = "written"
  /\ settings' = saver.new
  /\ Apply(saver.new)
  /\ IF saver.new.del
     THEN UNCHANGED <<plans, sweep, cancelled>>
     ELSE Cancel /\ cancelled' = cancelled \cup Receipts
  /\ saver' = [saver EXCEPT !.pc = "idle"]
  /\ mutation' = "free"
  /\ UNCHANGED <<settingsFile, inbox, receiptsFile, wanted, delivered, queuedTimes, deleted>>

\* The client disconnects; a write that was on its way is finished before the next save.
SaveDropped ==
  /\ saver.pc # "idle"
  /\ settingsFile' \in {settingsFile} \cup IF saver.pc = "write" THEN {saver.new} ELSE {}
  /\ saver' = IdleSaver
  /\ mutation' = IF mutation = "saver" THEN "free" ELSE mutation
  /\ UNCHANGED <<settings, inbox, detector, poll, jobs, flight, plans, receiptsFile, sweep,
                 history>>

-----------------------------------------------------------------------------
(* The inbox, and the poll that reads it. *)

Arrives(p) ==
  /\ inbox[p] = "coming"
  /\ inbox' = [inbox EXCEPT ![p] = "here"]
  /\ UNCHANGED <<config, saver, mutation, detector, poll, jobs, flight, plans,
                 receiptsFile, sweep, history>>

\* The user deletes a message by hand, holding sms_mutation.
UserDeletes(m) ==
  /\ mutation = "free" /\ settings.sms
  /\ \E f \in Fragments : inbox[<<m, f>>] = "here"
  /\ inbox' = [p \in Part |-> IF p[1] = m /\ inbox[p] = "here" THEN "gone" ELSE inbox[p]]
  /\ UNCHANGED <<config, saver, mutation, detector, poll, jobs, flight, plans,
                 receiptsFile, sweep, history>>

PollStart ==
  /\ poll.pc = "idle"
  /\ settings.forward /\ settings.sms
  /\ poll' = [IdlePoll EXCEPT !.pc = "read"]
  /\ UNCHANGED <<config, saver, mutation, inbox, detector, jobs, flight, plans,
                 receiptsFile, sweep, history>>

\* The list is read in the AT thread, or not.
PollRead ==
  /\ poll.pc = "read"
  /\ \/ poll' = [poll EXCEPT !.pc = "scan", !.list = Here]
     \/ poll' = IdlePoll
  /\ UNCHANGED <<config, saver, mutation, inbox, detector, jobs, flight, plans,
                 receiptsFile, sweep, history>>

PollStale ==
  /\ poll.pc = "scan" /\ poll.stale
  /\ poll' = IdlePoll
  /\ UNCHANGED <<config, saver, mutation, inbox, detector, jobs, flight, plans,
                 receiptsFile, sweep, history>>

\* The first list is the baseline: nothing in it is forwarded.
PollBaseline ==
  /\ poll.pc = "scan" /\ ~poll.stale /\ ~ready
  /\ ready' = TRUE /\ seen' = poll.list
  /\ poll' = IdlePoll
  /\ UNCHANGED <<config, saver, mutation, inbox, jobs, flight, plans, receiptsFile, sweep,
                 history>>

\* Complete messages none of whose fragments was seen before.
Complete == {m \in Messages : Whole(m, poll.list)}
New == {m \in Complete : \A f \in Fragments : <<m, f>> \notin seen}

\* Jobs that go in for the new messages, whatever order the messages come in: no more than
\* there is room for.  The budget of bytes (759) may refuse any job besides, the long text of
\* one message and not the short one of the next.
Wanted(new) == [note : new, channel : settings.targets, sent : {0}]

Room == IF Cardinality(queue) < MaxJobs THEN MaxJobs - Cardinality(queue) ELSE 0
Accepted(all) == {added \in SUBSET all : Cardinality(added) <= Room}

\* Mutant: a channel there was no room for is forgotten.
OutcomeIfQueued(m, added) ==
  [pending |-> Cardinality({j \in added : j.note = m}), failed |-> FALSE]

OutcomeOf(m, added) ==
  LET pending == {j \in added : j.note = m}
  IN  IF pending = {} THEN NoOutcome
      ELSE [pending |-> Cardinality(pending),
            failed |-> Cardinality(pending) < Cardinality(settings.targets)]

PollScan ==
  /\ poll.pc = "scan" /\ ~poll.stale /\ ready
  /\ seen' = {p \in poll.list : p \in seen \/ p[1] \in Complete}
  /\ \E added \in Accepted(Wanted(New)) :
       /\ queue' = queue \cup added
       /\ outcomes' = [m \in Messages |-> IF m \in New THEN OutcomeOf(m, added) ELSE outcomes[m]]
  /\ wanted' = [m \in Messages |-> IF m \in New THEN settings.targets ELSE wanted[m]]
  /\ queuedTimes' = [m \in Messages |->
                       IF m \in New /\ queuedTimes[m] < 2 THEN queuedTimes[m] + 1
                       ELSE queuedTimes[m]]
  /\ poll' = IdlePoll
  /\ UNCHANGED <<config, saver, mutation, inbox, ready, flight, plans, receiptsFile, sweep,
                 delivered, deleted, cancelled>>

-----------------------------------------------------------------------------
(* Outages and delivery. *)

\* notify_outage(), for an outage that was long enough.  Bound: an outage is not announced
\* again while a notice of it waits or is being delivered.
Notice(o) ==
  /\ settings.notice
  /\ \A j \in queue : j.note # o
  /\ ~(flight.job # NoJob /\ flight.job.note = o)
  /\ \E added \in Accepted([note : {o}, channel : settings.notify, sent : {0}]) :
       queue' = queue \cup added
  /\ UNCHANGED <<config, saver, mutation, inbox, detector, poll, outcomes, flight, plans,
                 receiptsFile, sweep, history>>

\* completed() for one job of each of `done': the last channel of a message that failed on
\* none schedules its deletion.
Completed(done, ok) ==
  LET last == {m \in Messages : outcomes[m].pending > 0 /\
                 outcomes[m].pending = Cardinality({j \in done : j.note = m})}
      all == {m \in last : ok /\ ~outcomes[m].failed /\ settings.del}
  IN  /\ outcomes' = [m \in Messages |->
             IF m \in last \/ outcomes[m].pending = 0 THEN NoOutcome
             ELSE LET n == Cardinality({j \in done : j.note = m})
                  IN [pending |-> outcomes[m].pending - n,
                      failed |-> outcomes[m].failed \/ (n > 0 /\ ~ok)]]
      /\ IF all = {} THEN UNCHANGED <<plans, sweep>>
         ELSE \E m \in all : Schedule(m)

\* Jobs older than the retry window are given up.
Expire ==
  /\ flight.job = NoJob
  /\ \E old \in SUBSET queue \ {{}} :
       /\ queue' = queue \ old
       /\ Completed(old, FALSE)
  /\ UNCHANGED <<config, saver, mutation, inbox, detector, poll, flight, receiptsFile,
                 history>>

DeliverStart ==
  /\ flight.job = NoJob
  /\ \E j \in queue :
       /\ flight' = [job |-> j, stale |-> FALSE]
       /\ queue' = queue \ {j}
  /\ UNCHANGED <<config, saver, mutation, inbox, detector, poll, outcomes, plans,
                 receiptsFile, sweep, history>>

Last == flight.job.sent + 1 = Pieces
Confirmed ==
  delivered' = IF Last /\ flight.job.note \in Messages
               THEN [delivered EXCEPT ![flight.job.note] = @ \cup {flight.job.channel}]
               ELSE delivered

\* Mutant: a job of an older generation is treated like any other.
NeverStale == FALSE

Stale == flight.stale

DeliverStale ==
  /\ flight.job # NoJob /\ Stale
  /\ flight' = NoFlight
  /\ Confirmed \/ UNCHANGED delivered
  /\ UNCHANGED <<config, saver, mutation, inbox, detector, poll, jobs, plans, receiptsFile,
                 sweep, wanted, queuedTimes, deleted, cancelled>>

DeliverOk ==
  /\ flight.job # NoJob /\ ~Stale
  /\ IF Last
     THEN Completed({flight.job}, TRUE) /\ UNCHANGED queue
     ELSE /\ queue' = queue \cup {[flight.job EXCEPT !.sent = @ + 1]}
          /\ UNCHANGED <<outcomes, plans, sweep>>
  /\ Confirmed
  /\ flight' = NoFlight
  /\ UNCHANGED <<config, saver, mutation, inbox, detector, poll, receiptsFile, wanted,
                 queuedTimes, deleted, cancelled>>

\* An error that may pass puts the job back; the answer that was lost may have been a yes.
DeliverRetry ==
  /\ flight.job # NoJob /\ ~Stale
  /\ queue' = queue \cup {flight.job}
  /\ flight' = NoFlight
  /\ UNCHANGED <<config, saver, mutation, inbox, detector, poll, outcomes, plans,
                 receiptsFile, sweep, history>>

DeliverFails ==
  /\ flight.job # NoJob /\ ~Stale
  /\ Completed({flight.job}, FALSE)
  /\ flight' = NoFlight
  /\ UNCHANGED <<config, saver, mutation, inbox, detector, poll, queue, receiptsFile, history>>

-----------------------------------------------------------------------------
(* The cleanup task: flush(), then delete_due() and flush() holding sms_mutation. *)

SweepTick ==
  /\ sweep.pc = "idle"
  /\ sweep' = [sweep EXCEPT !.pc = "flush", !.after = "lock"]
  /\ UNCHANGED <<config, saver, mutation, inbox, detector, poll, jobs, flight, plans,
                 receiptsFile, history>>

Flush ==
  /\ sweep.pc = "flush"
  /\ sweep' = IF unsaved
              THEN [sweep EXCEPT !.pc = "write", !.saving = receipts, !.stale = FALSE]
              ELSE [sweep EXCEPT !.pc = sweep.after]
  /\ UNCHANGED <<config, saver, mutation, inbox, detector, poll, jobs, flight, plans,
                 receiptsFile, history>>

\* Written; written but reported as failed; or failed.
FlushWritten ==
  /\ sweep.pc = "write"
  /\ \/ receiptsFile' = sweep.saving /\ unsaved' = sweep.stale
     \/ receiptsFile' = sweep.saving /\ UNCHANGED unsaved
     \/ UNCHANGED <<receiptsFile, unsaved>>
  /\ sweep' = [sweep EXCEPT !.pc = sweep.after, !.saving = NoReceipts, !.stale = FALSE]
  /\ UNCHANGED <<config, saver, mutation, inbox, detector, poll, jobs, flight, receipts,
                 history>>

SweepAcquire ==
  /\ sweep.pc = "lock" /\ mutation = "free"
  /\ mutation' = "sweep"
  /\ sweep' = [sweep EXCEPT !.pc = IF settings.sms /\ settings.del THEN "locked"
                                   ELSE "unlock"]
  /\ UNCHANGED <<config, saver, inbox, detector, poll, jobs, flight, plans, receiptsFile,
                 history>>

\* Mutant: plans not yet written are carried out as well.
AnyPlan == TRUE

AllOnFile == ~unsaved

\* Only plans on file authorise a deletion; any of them may be a day old.
SweepDue ==
  /\ sweep.pc = "locked"
  /\ \E due \in SUBSET Receipts :
       /\ ~AllOnFile => due = {}
       /\ sweep' = [sweep EXCEPT !.due = due, !.after = "unlock",
                      !.pc = IF due = {} THEN "flush" ELSE "read"]
  /\ UNCHANGED <<config, saver, mutation, inbox, detector, poll, jobs, flight, plans,
                 receiptsFile, history>>

SweepRead ==
  /\ sweep.pc = "read"
  /\ \/ sweep' = [sweep EXCEPT !.pc = "pick"]
     \/ sweep' = [sweep EXCEPT !.pc = "flush", !.due = {}]
  /\ UNCHANGED <<config, saver, mutation, inbox, detector, poll, jobs, flight, plans,
                 receiptsFile, history>>

SweepPick ==
  /\ sweep.pc = "pick"
  /\ IF sweep.due = {}
     THEN sweep' = [sweep EXCEPT !.pc = "flush"]
     ELSE \E m \in sweep.due :
            sweep' = [sweep EXCEPT !.pc = "delete", !.now = m, !.due = @ \ {m},
                        !.left = {f \in receipts[m] : inbox[<<m, f>>] = "here"}]
  /\ UNCHANGED <<config, saver, mutation, inbox, detector, poll, jobs, flight, plans,
                 receiptsFile, history>>

\* One part after another; from the first failure on nothing is deleted any more.
SweepDelete ==
  /\ sweep.pc = "delete" /\ sweep.left # {}
  /\ \E f \in sweep.left, gone, ok \in BOOLEAN :
       /\ ok => gone
       /\ inbox' = IF gone THEN [inbox EXCEPT ![<<sweep.now, f>>] = "gone"] ELSE inbox
       /\ deleted' = deleted \cup IF gone THEN {sweep.now} ELSE {}
       /\ sweep' = IF ok THEN [sweep EXCEPT !.left = @ \ {f}]
                   ELSE [sweep EXCEPT !.left = {}, !.remaining = sweep.left]
  /\ UNCHANGED <<config, saver, mutation, detector, poll, jobs, flight, plans,
                 receiptsFile, wanted, delivered, queuedTimes, cancelled>>

SweepDeleted ==
  /\ sweep.pc = "delete" /\ sweep.left = {}
  /\ receipts' = [receipts EXCEPT ![sweep.now] = sweep.remaining]
  /\ unsaved' = TRUE
  /\ sweep' = [sweep EXCEPT !.pc = "pick", !.now = NoMessage, !.remaining = {}]
  /\ UNCHANGED <<config, saver, mutation, inbox, detector, poll, jobs, flight,
                 receiptsFile, history>>

SweepReleases ==
  /\ sweep.pc = "unlock"
  /\ mutation' = "free"
  /\ sweep' = IdleSweep
  /\ UNCHANGED <<config, saver, inbox, detector, poll, jobs, flight, plans, receiptsFile,
                 history>>

-----------------------------------------------------------------------------

\* Queue, outcomes and detector live in memory; the plans are read from the file.
Restart ==
  /\ settings' = settingsFile
  /\ saver' = [pc |-> "idle", new |-> settingsFile]
  /\ mutation' = "free"
  /\ ready' = FALSE /\ seen' = {}
  /\ poll' = IdlePoll
  /\ queue' = {} /\ outcomes' = [m \in Messages |-> NoOutcome]
  /\ flight' = NoFlight
  /\ receipts' = receiptsFile /\ unsaved' = FALSE
  /\ sweep' = IdleSweep
  /\ UNCHANGED <<settingsFile, inbox, receiptsFile, history>>

Init ==
  /\ settings \in Choices /\ settingsFile = settings
  /\ saver = IdleSaver
  /\ mutation = "free"
  /\ inbox = [p \in Part |-> "coming"]
  /\ ready = FALSE /\ seen = {}
  /\ poll = IdlePoll
  /\ queue = {} /\ outcomes = [m \in Messages |-> NoOutcome]
  /\ flight = NoFlight
  /\ receipts = NoReceipts /\ receiptsFile = NoReceipts /\ unsaved = FALSE
  /\ sweep = IdleSweep
  /\ wanted = [m \in Messages |-> {}] /\ delivered = [m \in Messages |-> {}]
  /\ queuedTimes = [m \in Messages |-> 0]
  /\ deleted = {} /\ cancelled = {}

Next ==
  \/ SaveRequest \/ SaveAcquire \/ SaveWrite \/ SaveApply \/ SaveDropped
  \/ \E p \in Part : Arrives(p)
  \/ \E m \in Messages : UserDeletes(m)
  \/ PollStart \/ PollRead \/ PollStale \/ PollBaseline \/ PollScan
  \/ \E o \in Outages : Notice(o)
  \/ Expire \/ DeliverStart \/ DeliverStale \/ DeliverOk \/ DeliverRetry \/ DeliverFails
  \/ SweepTick \/ Flush \/ FlushWritten \/ SweepAcquire \/ SweepDue \/ SweepRead
  \/ SweepPick \/ SweepDelete \/ SweepDeleted \/ SweepReleases
  \/ Restart

Spec == Init /\ [][Next]_vars

-----------------------------------------------------------------------------
(* Properties. *)

\* A message is deleted only when every channel it was to go to confirmed all of it: no
\* overflow, give-up, settings change, restart or failed write gets a message deleted
\* that did not arrive (docs/sms.md:37).
DeletedWasDelivered ==
  \A m \in deleted : wanted[m] # {} /\ wanted[m] \subseteq delivered[m]

\* A message is forwarded once: not again after a change of the settings, a failed read,
\* late fragments or a restart, which take what is in the inbox for old.
ForwardedOnce == \A m \in Messages : queuedTimes[m] <= 1

\* Every message counts exactly the channels still to come, whatever was dropped from the
\* queue: the count neither reaches zero early nor never.
PendingIsTrue == \A m \in Messages : outcomes[m].pending = Cardinality(JobsOf(m))

\* A plan that is carried out is on file, so that a restart half-way resumes it.
DeletionIsOnFile ==
  sweep.pc \in {"read", "pick"} => \A m \in sweep.due : receiptsFile[m] # {}

\* No SMS is sent on for a switch that is off or to a channel no longer chosen.
OffIsQuiet ==
  [][\A j \in queue : flight'.job = j /\ flight.job = NoJob /\ j.note \in Messages
       => settings.forward /\ settings.sms /\ j.channel \in settings.targets]_vars

\* docs/notifications.md:27: changing channels or switches empties the queue of the notices
\* that wait; none is sent after the notice was switched off.
\* Stated, and part of no run: TLC finds it violated (README, section 4).
NoticeOffIsQuiet ==
  [][\A j \in queue : flight'.job = j /\ flight.job = NoJob /\ j.note \in Outages
       => settings.notice /\ j.channel \in settings.notify]_vars

\* docs/sms.md:39: switching the option off cancels the planned deletions; no part of such
\* a message is deleted afterwards.
\* Stated, and part of no run: TLC finds it violated (README, section 4).
CancelledIsKept ==
  [][sweep.pc = "delete" /\ (\E p \in Part : inbox[p] = "here" /\ inbox'[p] = "gone")
       => sweep.now \notin cancelled]_vars

\* docs/sms.md:33: at most 64 jobs wait, besides the one that is being delivered.
\* The run forwarding_queue shows it violated: a job that is to be tried again goes back to
\* a queue that filled up meanwhile.
QueueBound == Cardinality(queue) <= MaxJobs

-----------------------------------------------------------------------------
(* The invariant the proofs rest on (ForwardingProofs).                    *)

\* What the cleanup does holding sms_mutation.
SweepInside ==
  \/ sweep.pc \in {"locked", "read", "pick", "delete", "unlock"}
  \/ sweep.pc \in {"flush", "write"} /\ sweep.after = "unlock"

Holding ==
  /\ saver.pc \in {"write", "written"} => mutation = "saver"
  /\ SweepInside => mutation = "sweep"
  /\ sweep.pc \in {"read", "pick", "delete"} => sweep.after = "unlock"

\* The file holds the plans, or is known not to; a flush under way notices a change.
FileIsKnown ==
  /\ ~unsaved => receiptsFile = receipts
  /\ sweep.pc = "write" => unsaved /\ (~sweep.stale => sweep.saving = receipts)

PlansFit ==
  /\ Cardinality({m \in Messages : receiptsFile[m] # {}}) <= MaxReceipts
  /\ Cardinality({m \in Messages : sweep.saving[m] # {}}) <= MaxReceipts

\* The cleanup deletes what is planned, on file, and not cancelled behind it.
DueIsPlanned ==
  /\ sweep.pc \in {"read", "pick", "delete"} =>
       \A m \in sweep.due : receipts[m] # {} /\ receiptsFile[m] # {}
  /\ sweep.pc = "delete" => sweep.now \in Receipts \ sweep.due

Arrived(m) == queuedTimes[m] = 1 /\ wanted[m] # {} /\ wanted[m] \subseteq delivered[m]

\* Whatever may lead to a deletion, after a restart too, is of a message that arrived.
PlannedHasArrived ==
  \A m \in Messages :
    receipts[m] # {} \/ receiptsFile[m] # {} \/ sweep.saving[m] # {} \/ m \in deleted
      => Arrived(m)

\* A forwarded message has no part to come, and the detector that is ready knows it as long
\* as it is in the inbox or in a list that was read.
ForwardedIsSeen ==
  /\ \A p \in poll.list : inbox[p] # "coming"
  /\ \A m \in Messages : queuedTimes[m] > 0 =>
       /\ \A f \in Fragments : inbox[<<m, f>>] # "coming"
       /\ ready /\ Whole(m, Here) => \E f \in Fragments : <<m, f>> \in seen
       /\ ready /\ poll.pc = "scan" /\ ~poll.stale /\ Whole(m, poll.list) =>
            \E f \in Fragments : <<m, f>> \in seen
       /\ poll.pc = "scan" => \A f \in Fragments : <<m, f>> \in Here => <<m, f>> \in poll.list

PollIsOn ==
  poll.pc \in {"read", "scan"} /\ ~poll.stale => settings.forward /\ settings.sms

\* A message's jobs are of channels it is to go to, one for each, and only while the
\* settings still want them; the one being delivered has left the queue.
JobsBelong ==
  /\ flight.job # NoJob /\ ~flight.stale => flight.job \notin queue
  /\ \A m \in Messages : \A j \in JobsOf(m) :
       /\ queuedTimes[m] > 0
       /\ settings.forward /\ settings.sms /\ j.channel \in settings.targets
       /\ j.channel \in wanted[m]
       /\ \A k \in JobsOf(m) : k.channel = j.channel => k = j

\* A message that failed on no channel arrived or still has a job, on every one.
NothingIsDropped ==
  \A m \in Messages : outcomes[m].pending > 0 /\ ~outcomes[m].failed =>
    wanted[m] \subseteq delivered[m] \cup {j.channel : j \in JobsOf(m)}

IndInv ==
  /\ TypeOK /\ IsFiniteSet(queue) /\ Holding /\ FileIsKnown /\ PlansFit
  /\ DueIsPlanned /\ PlannedHasArrived /\ ForwardedOnce /\ ForwardedIsSeen
  /\ PollIsOn /\ JobsBelong /\ PendingIsTrue /\ NothingIsDropped
=============================================================================
