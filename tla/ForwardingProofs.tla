--------------------------- MODULE ForwardingProofs ---------------------------
(* Proofs about Forwarding, for all messages, outages, channels and settings, *)
(* and every size of the queue and of the plans.                             *)
EXTENDS Forwarding, FiniteSetTheorems, FunctionTheorems, TLAPS

(* Helpers: the sizes of sets of jobs. *)

LEMMA JobsAreFinite ==
  ASSUME NEW N, NEW C, IsFiniteSet(N), IsFiniteSet(C)
  PROVE  IsFiniteSet([note : N, channel : C, sent : {0}])
<1> DEFINE S == [note : N, channel : C, sent : {0}]
           f == [p \in N \X C |-> [note |-> p[1], channel |-> p[2], sent |-> 0]]
<1>1. IsFiniteSet(N \X C)
  BY FS_Product
<1>2. f \in [N \X C -> S]
  OBVIOUS
<1>3. ASSUME NEW j \in S PROVE \E p \in N \X C : f[p] = j
  <2>1. <<j.note, j.channel>> \in N \X C
    OBVIOUS
  <2>2. f[<<j.note, j.channel>>] = [note |-> j.note, channel |-> j.channel, sent |-> 0]
    BY <2>1
  <2>3. j = [note |-> j.note, channel |-> j.channel, sent |-> 0]
    OBVIOUS
  <2> QED
    BY <2>1, <2>2, <2>3
<1>4. f \in Surjection(N \X C, S)
  BY <1>2, <1>3 DEF Surjection
<1> QED
  BY <1>1, <1>4, FS_Surjection

\* A message has one job for each channel: together they are as many.
LEMMA OneJobEach ==
  ASSUME NEW m, NEW C, IsFiniteSet(C)
  PROVE  LET S == [note : {m}, channel : C, sent : {0}]
         IN  IsFiniteSet(S) /\ Cardinality(S) = Cardinality(C)
<1> DEFINE S == [note : {m}, channel : C, sent : {0}]
           f == [c \in C |-> [note |-> m, channel |-> c, sent |-> 0]]
<1>1. f \in [C -> S]
  OBVIOUS
<1>2. ASSUME NEW j \in S PROVE \E c \in C : f[c] = j
  <2>1. j.channel \in C /\ f[j.channel] = [note |-> m, channel |-> j.channel, sent |-> 0]
    OBVIOUS
  <2>2. j = [note |-> m, channel |-> j.channel, sent |-> 0]
    OBVIOUS
  <2> QED
    BY <2>1, <2>2
<1>3. ASSUME NEW c \in C, NEW d \in C, f[c] = f[d] PROVE c = d
  <2>1. f[c].channel = c /\ f[d].channel = d
    OBVIOUS
  <2> QED
    BY <1>3, <2>1
<1>4. f \in Bijection(C, S)
  <2>1. f \in Injection(C, S)
    BY <1>1, <1>3, Fun_IsInj
  <2>2. f \in Surjection(C, S)
    BY <1>1, <1>2, Fun_IsSurj
  <2> QED
    BY <2>1, <2>2 DEF Bijection
<1>5. ExistsBijection(C, S)
  BY <1>4 DEF ExistsBijection
<1> QED
  BY <1>5, FS_Bijection

\* Different channels: no more jobs than channels.
LEMMA AtMostChannels ==
  ASSUME NEW J, NEW C, IsFiniteSet(C), \A j \in J : j.channel \in C,
         \A j, k \in J : j.channel = k.channel => j = k
  PROVE  IsFiniteSet(J) /\ Cardinality(J) <= Cardinality(C)
<1> DEFINE f == [j \in J |-> j.channel]
<1>1. f \in [J -> C]
  OBVIOUS
<1>2. \A j, k \in J : f[j] = f[k] => j = k
  OBVIOUS
<1>3. f \in Injection(J, C)
  BY <1>1, <1>2, Fun_IsInj
<1> QED
  BY <1>3, FS_Injection

-----------------------------------------------------------------------------
(* The steps in groups, and what each group leaves alone. *)

SettingsStep == SaveRequest \/ SaveAcquire \/ SaveWrite \/ SaveDropped
InboxStep ==
  \/ \E p \in Part : Arrives(p)
  \/ \E m \in Messages : UserDeletes(m)
  \/ PollStart \/ PollRead \/ PollStale \/ PollBaseline
DeliveryStep ==
  \/ \E o \in Outages : Notice(o)
  \/ Expire \/ DeliverStart \/ DeliverStale \/ DeliverOk \/ DeliverRetry \/ DeliverFails
SweepStep ==
  \/ SweepTick \/ Flush \/ FlushWritten \/ SweepAcquire \/ SweepDue \/ SweepRead
  \/ SweepPick \/ SweepDelete \/ SweepDeleted \/ SweepReleases

LEMMA StepKinds ==
  ASSUME [Next]_vars
  PROVE  \/ SettingsStep \/ SaveApply \/ InboxStep \/ PollScan \/ DeliveryStep \/ SweepStep
         \/ Restart \/ UNCHANGED vars
BY DEF Next, SettingsStep, InboxStep, DeliveryStep, SweepStep

LEMMA SettingsFrame ==
  ASSUME SettingsStep
  PROVE  UNCHANGED <<settings, inbox, ready, seen, poll, queue, outcomes, flight, receipts, unsaved,
                     receiptsFile, sweep, wanted, delivered, queuedTimes, deleted, cancelled>>
BY DEF SettingsStep, SaveRequest, SaveAcquire, SaveWrite, SaveDropped, config, detector, jobs, plans,
   history

LEMMA InboxFrame ==
  ASSUME InboxStep
  PROVE  UNCHANGED <<settings, settingsFile, saver, mutation, queue, outcomes, flight, receipts, unsaved,
                     receiptsFile, sweep, wanted, delivered, queuedTimes, deleted, cancelled>>
<1> DEFINE Kept ==
       UNCHANGED <<settings, settingsFile, saver, mutation, queue, outcomes, flight, receipts, unsaved,
                   receiptsFile, sweep, wanted, delivered, queuedTimes, deleted, cancelled>>
<1>1. ASSUME NEW p \in Part, Arrives(p) PROVE Kept
  BY <1>1 DEF Arrives, config, jobs, plans, history
<1>2. ASSUME NEW m \in Messages, UserDeletes(m) PROVE Kept
  BY <1>2 DEF UserDeletes, config, jobs, plans, history
<1>3. ASSUME PollStart \/ PollRead PROVE Kept
  BY <1>3 DEF PollStart, PollRead, config, jobs, plans, history
<1>4. ASSUME PollStale \/ PollBaseline PROVE Kept
  BY <1>4 DEF PollStale, PollBaseline, config, jobs, plans, history
<1> QED
  BY <1>1, <1>2, <1>3, <1>4 DEF InboxStep

LEMMA PollScanFrame ==
  ASSUME PollScan
  PROVE  UNCHANGED <<settings, settingsFile, saver, mutation, inbox, ready, flight, receipts, unsaved,
                     receiptsFile, sweep, delivered, deleted, cancelled>>
BY DEF PollScan, config, plans

LEMMA DeliveryFrame ==
  ASSUME DeliveryStep
  PROVE  UNCHANGED <<settings, settingsFile, saver, mutation, inbox, ready, seen, poll,
                     receiptsFile, wanted, queuedTimes, deleted, cancelled>>
<1> DEFINE Kept ==
       UNCHANGED <<settings, settingsFile, saver, mutation, inbox, ready, seen, poll,
                   receiptsFile, wanted, queuedTimes, deleted, cancelled>>
<1>1. ASSUME NEW o \in Outages, Notice(o) PROVE Kept
  BY <1>1 DEF Notice, config, detector, history
<1>2. ASSUME Expire \/ DeliverStart \/ DeliverStale PROVE Kept
  BY <1>2 DEF Expire, DeliverStart, DeliverStale, config, detector, history
<1>3. ASSUME DeliverOk \/ DeliverRetry \/ DeliverFails PROVE Kept
  BY <1>3 DEF DeliverOk, DeliverRetry, DeliverFails, config, detector, history
<1> QED
  BY <1>1, <1>2, <1>3 DEF DeliveryStep

LEMMA SweepFrame ==
  ASSUME SweepStep
  PROVE  UNCHANGED <<settings, settingsFile, saver, ready, seen, poll, queue, outcomes, flight,
                     wanted, delivered, queuedTimes, cancelled>>
<1> DEFINE Kept ==
       UNCHANGED <<settings, settingsFile, saver, ready, seen, poll, queue, outcomes, flight,
                   wanted, delivered, queuedTimes, cancelled>>
<1>1. ASSUME SweepTick \/ Flush \/ FlushWritten PROVE Kept
  BY <1>1 DEF SweepTick, Flush, FlushWritten, config, detector, jobs, history
<1>2. ASSUME SweepAcquire \/ SweepDue \/ SweepRead \/ SweepPick PROVE Kept
  BY <1>2 DEF SweepAcquire, SweepDue, SweepRead, SweepPick, config, detector, jobs, history
<1>3. ASSUME SweepDelete \/ SweepDeleted \/ SweepReleases PROVE Kept
  BY <1>3 DEF SweepDelete, SweepDeleted, SweepReleases, config, detector, jobs, history
<1> QED
  BY <1>1, <1>2, <1>3 DEF SweepStep

LEMMA VarsFrame ==
  ASSUME UNCHANGED vars
  PROVE  UNCHANGED <<settings, settingsFile, saver, mutation, inbox, ready, seen, poll, queue, outcomes,
                     flight, receipts, unsaved, receiptsFile, sweep, wanted, delivered, queuedTimes,
                     deleted, cancelled>>
BY DEF vars, config, detector, jobs, plans, history

-----------------------------------------------------------------------------
(* TypeOK in parts. *)

SaverState == [pc : {"idle", "wait", "write", "written"}, new : Choices]
PollState == [pc : {"idle", "read", "scan"}, list : SUBSET Part, stale : BOOLEAN]
Outcome == [pending : 0..Cardinality(Channels), failed : BOOLEAN]
Plans == [Messages -> SUBSET Fragments]
SweepPcs == {"idle", "flush", "write", "lock", "locked", "read", "pick", "delete", "unlock"}
SweepState ==
  [pc : SweepPcs, after : {"idle", "lock", "unlock"}, saving : Plans, stale : BOOLEAN,
   due : SUBSET Messages, now : Messages \cup {NoMessage},
   left : SUBSET Fragments, remaining : SUBSET Fragments]

SettingsType ==
  /\ settings \in Choices /\ settingsFile \in Choices
  /\ saver \in SaverState /\ mutation \in {"free", "saver", "sweep"}
InboxType ==
  /\ inbox \in [Part -> {"coming", "here", "gone"}] /\ ready \in BOOLEAN /\ seen \subseteq Part
  /\ poll \in PollState
QueueType ==
  /\ queue \subseteq Job
  /\ flight \in [job : Job \cup {NoJob}, stale : BOOLEAN]
  /\ Cardinality(queue) <= IF flight.job = NoJob THEN MaxJobs + 1 ELSE MaxJobs
OutcomesType == outcomes \in [Messages -> Outcome]
PlansType ==
  /\ receipts \in Plans /\ Cardinality(Receipts) <= MaxReceipts
  /\ receiptsFile \in Plans /\ unsaved \in BOOLEAN
SweepType == sweep \in SweepState
HistoryType ==
  /\ wanted \in [Messages -> SUBSET Channels] /\ delivered \in [Messages -> SUBSET Channels]
  /\ queuedTimes \in [Messages -> 0..2]
  /\ deleted \subseteq Messages /\ cancelled \subseteq Messages

LEMMA TypeParts ==
  TypeOK <=> /\ SettingsType /\ InboxType /\ QueueType /\ OutcomesType /\ PlansType /\ SweepType
             /\ HistoryType
BY DEF TypeOK, SettingsType, InboxType, QueueType, OutcomesType, PlansType, SweepType, HistoryType,
   SaverState, PollState, Outcome, Plans, SweepPcs, SweepState

LEMMA StepSettingsType ==
  ASSUME SettingsType, [Next]_vars PROVE SettingsType'
<1> USE DEF SettingsType
<1>1. CASE SaveRequest \/ SaveAcquire
  BY <1>1 DEF SaveRequest, SaveAcquire, SaverState, config
<1>2. CASE SaveWrite
  BY <1>2 DEF SaveWrite, SaverState, IdleSaver
<1>3. CASE SaveDropped
  <2>1. settingsFile' \in {settingsFile, saver.new} /\ saver' = [pc |-> "idle", new |-> settings]
    BY <1>3 DEF SaveDropped, IdleSaver
  <2>2. mutation' \in {"free", mutation} /\ settings' = settings
    BY <1>3 DEF SaveDropped
  <2> QED
    BY <2>1, <2>2 DEF SaverState
<1>4. CASE SaveApply
  BY <1>4 DEF SaveApply, SaverState
<1>5. CASE Restart
  BY <1>5 DEF Restart, SaverState
<1>6. CASE InboxStep
  BY <1>6, InboxFrame
<1>7. CASE PollScan
  BY <1>7, PollScanFrame
<1>8. CASE DeliveryStep
  BY <1>8, DeliveryFrame
<1>9. CASE SweepStep
  <2>1. mutation' \in {mutation, "sweep", "free"}
    BY <1>9 DEF SweepStep, SweepTick, Flush, FlushWritten, SweepAcquire, SweepDue, SweepRead, SweepPick,
       SweepDelete, SweepDeleted, SweepReleases
  <2> QED
    BY <1>9, <2>1, SweepFrame
<1>10. CASE UNCHANGED vars
  BY <1>10, VarsFrame
<1> QED
  BY <1>1, <1>2, <1>3, <1>4, <1>5, <1>6, <1>7, <1>8, <1>9, <1>10, StepKinds DEF SettingsStep

LEMMA IdlePollType == IdlePoll \in PollState
BY DEF IdlePoll, PollState

LEMMA StepInboxType ==
  ASSUME InboxType, SweepType, [Next]_vars PROVE InboxType'
<1> USE DEF InboxType
<1>1. ASSUME NEW p \in Part, Arrives(p) PROVE InboxType'
  BY <1>1 DEF Arrives, detector
<1>2. ASSUME NEW m \in Messages, UserDeletes(m) PROVE InboxType'
  BY <1>2 DEF UserDeletes, detector
<1>3. CASE PollStart
  BY <1>3 DEF PollStart, IdlePoll, PollState, detector
<1>4. CASE PollRead
  <2>1. Here \subseteq Part
    BY DEF Here
  <2>2. poll' = [poll EXCEPT !.pc = "scan", !.list = Here] \/ poll' = IdlePoll
    BY <1>4 DEF PollRead
  <2>3. poll' \in PollState
    BY <2>1, <2>2, IdlePollType DEF PollState
  <2> QED
    BY <1>4, <2>3 DEF PollRead, detector
<1>5. CASE PollStale \/ PollBaseline
  <2>1. seen' \in {seen, poll.list} /\ ready' \in {ready, TRUE} /\ poll' = IdlePoll /\ inbox' = inbox
    BY <1>5 DEF PollStale, PollBaseline, detector
  <2> QED
    BY <2>1, IdlePollType DEF PollState
<1>6. CASE PollScan
  <2>1. seen' \subseteq poll.list /\ poll' = IdlePoll
    BY <1>6 DEF PollScan
  <2>2. poll' \in PollState
    BY <2>1 DEF IdlePoll, PollState
  <2>3. seen' \subseteq Part
    BY <2>1 DEF PollState
  <2> QED
    BY <1>6, <2>2, <2>3, PollScanFrame
<1>7. CASE SaveApply
  <2>1. poll' \in {poll, [poll EXCEPT !.stale = TRUE]} /\ inbox' = inbox
    BY <1>7 DEF SaveApply, Apply
  <2>2. ready' \in BOOLEAN /\ seen' \subseteq Part
    BY <1>7 DEF SaveApply, Apply, FreshDetector, detector
  <2> QED
    BY <2>1, <2>2 DEF PollState
<1>8. CASE SweepDelete
  <2>1. inbox' = inbox \/ \E f \in sweep.left : inbox' = [inbox EXCEPT ![<<sweep.now, f>>] = "gone"]
    BY <1>8 DEF SweepDelete
  <2>2. inbox' \in [Part -> {"coming", "here", "gone"}]
    BY <2>1
  <2> QED
    BY <1>8, <2>2, SweepFrame DEF SweepStep
<1>9. ASSUME SweepStep, ~SweepDelete PROVE UNCHANGED inbox
  BY <1>9 DEF SweepStep, SweepTick, Flush, FlushWritten, SweepAcquire, SweepDue, SweepRead, SweepPick,
     SweepDeleted, SweepReleases
<1>10. CASE Restart
  BY <1>10 DEF Restart, IdlePoll, PollState
<1> QED
  BY <1>1, <1>2, <1>3, <1>4, <1>5, <1>6, <1>7, <1>8, <1>9, <1>10, StepKinds, SettingsFrame,
     DeliveryFrame, SweepFrame, VarsFrame DEF InboxStep

-----------------------------------------------------------------------------
(* The plans and the cleanup. *)

LEMMA NoPlans == NoReceipts \in Plans /\ \A m \in Messages : NoReceipts[m] = {}
BY DEF NoReceipts, Plans

LEMMA IdleSweepType == IdleSweep \in SweepState
BY NoPlans DEF IdleSweep, SweepState, SweepPcs

LEMMA FewerPlans ==
  ASSUME NEW A \in SUBSET Messages, NEW B \in SUBSET A, Cardinality(A) <= MaxReceipts
  PROVE  Cardinality(B) <= MaxReceipts
<1>1. IsFiniteSet(A) /\ IsFiniteSet(B) /\ Cardinality(B) <= Cardinality(A)
  BY FiniteAssumption, FS_Subset
<1>2. Cardinality(A) \in Nat /\ Cardinality(B) \in Nat /\ MaxReceipts \in Nat
  BY <1>1, FS_CardinalityType, BoundsAssumption
<1> QED
  BY <1>1, <1>2

LEMMA NoPlanFits == Cardinality({}) <= MaxReceipts
BY FS_EmptySet, BoundsAssumption

\* The job that is done was the last of a message that failed on no channel.
Finishes(m) ==
  /\ ~Stale /\ flight.job # NoJob /\ Last
  /\ outcomes[m].pending > 0 /\ ~outcomes[m].failed
  /\ outcomes[m].pending = Cardinality({j \in {flight.job} : j.note = m})

Plan(m) ==
  /\ receipts[m] = {} /\ Cardinality(Receipts) < MaxReceipts
  /\ receipts' = [receipts EXCEPT ![m] = Fragments]
  /\ unsaved' = TRUE
  /\ sweep' = [sweep EXCEPT !.stale = (sweep.pc = "write")]

\* A delivery plans the deletion of the message it finishes, and nothing else.
LEMMA DeliveryPlans ==
  ASSUME DeliveryStep
  PROVE  \/ UNCHANGED <<receipts, unsaved, sweep>>
         \/ DeliverOk /\ \E m \in Messages : Finishes(m) /\ Plan(m)
<1>1. ASSUME NEW m \in Messages, Schedule(m) PROVE UNCHANGED <<receipts, unsaved, sweep>> \/ Plan(m)
  BY <1>1 DEF Schedule, Changed, Plan, plans
<1>2. ASSUME NEW done, Completed(done, FALSE) PROVE UNCHANGED <<receipts, unsaved, sweep>>
  BY <1>2 DEF Completed, plans
<1>3. CASE Expire
  BY <1>2, <1>3 DEF Expire
<1>4. CASE DeliverFails
  BY <1>2, <1>4 DEF DeliverFails
<1>5. CASE DeliverOk
  <2>1. CASE ~Last
    BY <1>5, <2>1 DEF DeliverOk, plans
  <2>2. CASE Last
    <3>1. Completed({flight.job}, TRUE) /\ flight.job # NoJob /\ ~Stale
      BY <1>5, <2>2 DEF DeliverOk
    <3>2. \/ UNCHANGED <<receipts, unsaved, sweep>>
          \/ \E m \in Messages : Finishes(m) /\ Schedule(m)
      BY <2>2, <3>1 DEF Completed, Finishes, plans
    <3> QED
      BY <1>1, <1>5, <3>2
  <2> QED
    BY <2>1, <2>2
<1>6. CASE DeliverStart \/ DeliverStale \/ DeliverRetry \/ \E o \in Outages : Notice(o)
  BY <1>6 DEF DeliverStart, DeliverStale, DeliverRetry, Notice, plans
<1> QED
  BY <1>3, <1>4, <1>5, <1>6 DEF DeliveryStep

\* Saved settings cancel all plans, or none.
LEMMA SaveApplyPlans ==
  ASSUME SaveApply
  PROVE  /\ receiptsFile' = receiptsFile
         /\ \/ UNCHANGED <<receipts, unsaved, sweep>>
            \/ /\ receipts' = NoReceipts /\ unsaved' = TRUE
               /\ sweep' = [sweep EXCEPT !.stale = (sweep.pc = "write")]
BY DEF SaveApply, Cancel, Changed, plans

\* The sweep's own steps: only one of them changes the plans, one the file.
LEMMA SweepPlans ==
  ASSUME SweepStep
  PROVE  \/ UNCHANGED <<receipts, unsaved, receiptsFile>>
         \/ FlushWritten /\ receipts' = receipts /\ receiptsFile' \in {receiptsFile, sweep.saving}
         \/ SweepDeleted /\ receiptsFile' = receiptsFile
<1>1. CASE SweepTick \/ Flush \/ SweepAcquire \/ SweepDue \/ SweepRead
  BY <1>1 DEF SweepTick, Flush, SweepAcquire, SweepDue, SweepRead, plans
<1>2. CASE SweepPick \/ SweepDelete \/ SweepReleases
  BY <1>2 DEF SweepPick, SweepDelete, SweepReleases, plans
<1>3. CASE FlushWritten
  BY <1>3 DEF FlushWritten
<1>4. CASE SweepDeleted
  BY <1>4 DEF SweepDeleted
<1> QED
  BY <1>1, <1>2, <1>3, <1>4 DEF SweepStep

LEMMA StepPlansType ==
  ASSUME PlansType, SweepType, PlansFit, DueIsPlanned, [Next]_vars PROVE PlansType'
<1> USE DEF PlansType
<1>1. ASSUME UNCHANGED <<receipts, unsaved>>, receiptsFile' \in Plans PROVE PlansType'
  BY <1>1 DEF Receipts
<1>2. ASSUME NEW m \in Messages, Plan(m), receiptsFile' = receiptsFile PROVE PlansType'
  <2>1. receipts' \in Plans
    BY <1>2 DEF Plan, Plans
  <2>2. Receipts' \subseteq Receipts \cup {m} /\ m \notin Receipts
    BY <1>2 DEF Plan, Plans, Receipts
  <2>3. IsFiniteSet(Receipts)
    BY FiniteAssumption, FS_Subset DEF Receipts
  <2>4. IsFiniteSet(Receipts \cup {m}) /\ Cardinality(Receipts \cup {m}) = Cardinality(Receipts) + 1
    BY <2>2, <2>3, FS_AddElement
  <2>5. Cardinality(Receipts \cup {m}) <= MaxReceipts
    BY <1>2, <2>3, <2>4, FS_CardinalityType, BoundsAssumption DEF Plan
  <2>6. Receipts \cup {m} \in SUBSET Messages
    BY DEF Receipts
  <2>7. Cardinality(Receipts') <= MaxReceipts
    BY <2>2, <2>5, <2>6, FewerPlans
  <2> QED
    BY <1>2, <2>1, <2>7 DEF Plan
<1>3. ASSUME receipts' = NoReceipts, unsaved' \in BOOLEAN, receiptsFile' = receiptsFile PROVE PlansType'
  <2>1. Receipts' = {}
    BY <1>3, NoPlans DEF Receipts
  <2> QED
    BY <1>3, <2>1, NoPlans, NoPlanFits
<1>4. CASE SettingsStep \/ InboxStep \/ PollScan \/ UNCHANGED vars
  BY <1>1, <1>4, SettingsFrame, InboxFrame, PollScanFrame, VarsFrame
<1>5. CASE SaveApply
  BY <1>1, <1>3, <1>5, SaveApplyPlans
<1>6. CASE DeliveryStep
  BY <1>1, <1>2, <1>6, DeliveryFrame, DeliveryPlans
<1>7. CASE SweepStep
  <2>1. CASE FlushWritten
    <3>1. sweep.saving \in Plans
      BY DEF SweepType, SweepState
    <3>2. sweep.stale \in BOOLEAN
      BY DEF SweepType, SweepState
    <3>3. unsaved' \in BOOLEAN /\ receipts' = receipts /\ receiptsFile' \in Plans
      BY <2>1, <3>1, <3>2 DEF FlushWritten
    <3> QED
      BY <3>3 DEF Receipts
  <2>2. CASE SweepDeleted
    <3>1. /\ receipts' = [receipts EXCEPT ![sweep.now] = sweep.remaining]
          /\ unsaved' = TRUE /\ receiptsFile' = receiptsFile /\ sweep.pc = "delete"
      BY <2>2 DEF SweepDeleted
    <3>2. sweep.now \in Receipts /\ sweep.remaining \in SUBSET Fragments
      BY <3>1 DEF DueIsPlanned, SweepType, SweepState
    <3>3. receipts' \in Plans
      BY <3>1, <3>2 DEF Plans
    <3>4. Receipts' \subseteq Receipts
      BY <3>1, <3>2 DEF Receipts, Plans
    <3>5. Receipts \in SUBSET Messages
      BY DEF Receipts
    <3> QED
      BY <3>1, <3>3, <3>4, <3>5, FewerPlans
  <2> QED
    BY <1>1, <1>7, <2>1, <2>2, SweepPlans
<1>8. CASE Restart
  <2>1. receipts' = receiptsFile /\ unsaved' = FALSE /\ receiptsFile' = receiptsFile
    BY <1>8 DEF Restart
  <2>2. Receipts' = {m \in Messages : receiptsFile[m] # {}}
    BY <2>1 DEF Receipts
  <2> QED
    BY <2>1, <2>2 DEF PlansFit
<1> QED
  BY <1>4, <1>5, <1>6, <1>7, <1>8, StepKinds

LEMMA StepSweepType ==
  ASSUME PlansType, SweepType, DueIsPlanned, [Next]_vars PROVE SweepType'
<1> USE DEF SweepType
<1>1. ASSUME UNCHANGED sweep PROVE SweepType'
  BY <1>1
<1>2. ASSUME sweep' = [sweep EXCEPT !.stale = (sweep.pc = "write")] PROVE SweepType'
  <2>1. (sweep.pc = "write") \in BOOLEAN
    OBVIOUS
  <2> QED
    BY <1>2, <2>1 DEF SweepState
<1>3. CASE SettingsStep \/ InboxStep \/ PollScan \/ UNCHANGED vars
  BY <1>1, <1>3, SettingsFrame, InboxFrame, PollScanFrame, VarsFrame
<1>4. CASE SaveApply
  BY <1>1, <1>2, <1>4, SaveApplyPlans
<1>5. CASE DeliveryStep
  BY <1>1, <1>2, <1>5, DeliveryPlans DEF Plan
<1>6. CASE SweepTick
  BY <1>6 DEF SweepTick, SweepState, SweepPcs
<1>7. CASE Flush
  <2>1. \/ sweep' = [sweep EXCEPT !.pc = "write", !.saving = receipts, !.stale = FALSE]
        \/ sweep' = [sweep EXCEPT !.pc = sweep.after]
    BY <1>7 DEF Flush
  <2> QED
    BY <2>1 DEF SweepState, SweepPcs, PlansType
<1>8. CASE FlushWritten
  <2>1. sweep' = [sweep EXCEPT !.pc = sweep.after, !.saving = NoReceipts, !.stale = FALSE]
    BY <1>8 DEF FlushWritten
  <2> QED
    BY <2>1, NoPlans DEF SweepState, SweepPcs
<1>9. CASE SweepAcquire
  <2>1. sweep' = [sweep EXCEPT !.pc = "locked"] \/ sweep' = [sweep EXCEPT !.pc = "unlock"]
    BY <1>9 DEF SweepAcquire
  <2> QED
    BY <2>1 DEF SweepState, SweepPcs
<1>10. CASE SweepDue
  <2>1. PICK due \in SUBSET Receipts :
          sweep' = [sweep EXCEPT !.due = due, !.after = "unlock",
                      !.pc = IF due = {} THEN "flush" ELSE "read"]
    BY <1>10 DEF SweepDue
  <2>2. due \in SUBSET Messages
    BY DEF Receipts
  <2> QED
    BY <2>1, <2>2 DEF SweepState, SweepPcs
<1>11. CASE SweepRead
  <2>1. sweep' = [sweep EXCEPT !.pc = "pick"] \/ sweep' = [sweep EXCEPT !.pc = "flush", !.due = {}]
    BY <1>11 DEF SweepRead
  <2> QED
    BY <2>1 DEF SweepState, SweepPcs
<1>12. CASE SweepPick
  <2>1. \/ sweep' = [sweep EXCEPT !.pc = "flush"]
        \/ \E m \in sweep.due :
             sweep' = [sweep EXCEPT !.pc = "delete", !.now = m, !.due = @ \ {m},
                         !.left = {f \in receipts[m] : inbox[<<m, f>>] = "here"}]
    BY <1>12 DEF SweepPick
  <2>2. CASE sweep' = [sweep EXCEPT !.pc = "flush"]
    BY <2>2 DEF SweepState, SweepPcs
  <2>3. ASSUME NEW m \in sweep.due,
               sweep' = [sweep EXCEPT !.pc = "delete", !.now = m, !.due = @ \ {m},
                           !.left = {f \in receipts[m] : inbox[<<m, f>>] = "here"}]
        PROVE  SweepType'
    <3>1. m \in Messages
      BY DEF SweepState
    <3>2. {f \in receipts[m] : inbox[<<m, f>>] = "here"} \in SUBSET Fragments
      BY <3>1 DEF PlansType, Plans
    <3> QED
      BY <2>3, <3>1, <3>2 DEF SweepState, SweepPcs
  <2> QED
    BY <2>1, <2>2, <2>3
<1>13. CASE SweepDelete
  <2>1. \E f \in sweep.left :
          \/ sweep' = [sweep EXCEPT !.left = @ \ {f}]
          \/ sweep' = [sweep EXCEPT !.left = {}, !.remaining = sweep.left]
    BY <1>13 DEF SweepDelete
  <2> QED
    BY <2>1 DEF SweepState
<1>14. CASE SweepDeleted
  <2>1. sweep' = [sweep EXCEPT !.pc = "pick", !.now = NoMessage, !.remaining = {}]
    BY <1>14 DEF SweepDeleted
  <2> QED
    BY <2>1 DEF SweepState, SweepPcs
<1>15. CASE SweepReleases \/ Restart
  BY <1>15, IdleSweepType DEF SweepReleases, Restart
<1> QED
  BY <1>3, <1>4, <1>5, <1>6, <1>7, <1>8, <1>9, <1>10, <1>11, <1>12, <1>13, <1>14, <1>15, StepKinds
     DEF SweepStep

\* A write of the plans under way is noted as stale when they change.
LEMMA StaleOnly ==
  ASSUME SweepType, sweep' = [sweep EXCEPT !.stale = (sweep.pc = "write")]
  PROVE  /\ sweep'.pc = sweep.pc /\ sweep'.after = sweep.after /\ sweep'.saving = sweep.saving
         /\ sweep'.due = sweep.due /\ sweep'.now = sweep.now
         /\ sweep.pc = "write" => sweep'.stale
BY DEF SweepType, SweepState

\* A write of the file under way and the sweep exclude each other: sms_mutation.
LEMMA StepHolding ==
  ASSUME SettingsType, SweepType, Holding, [Next]_vars PROVE Holding'
<1> USE DEF Holding, SweepInside, SettingsType
<1>1. ASSUME UNCHANGED <<saver, mutation>>, sweep'.pc = sweep.pc, sweep'.after = sweep.after
      PROVE  Holding'
  BY <1>1
<1>2. CASE InboxStep \/ PollScan \/ UNCHANGED vars
  BY <1>1, <1>2, InboxFrame, PollScanFrame, VarsFrame
<1>3. CASE DeliveryStep
  BY <1>1, <1>3, DeliveryFrame, DeliveryPlans, StaleOnly DEF Plan
<1>4. CASE SettingsStep
  <2>1. sweep' = sweep
    BY <1>4, SettingsFrame
  <2>2. CASE SaveRequest
    BY <2>1, <2>2 DEF SaveRequest, SaverState
  <2>3. CASE SaveAcquire
    BY <2>1, <2>3 DEF SaveAcquire, SaverState
  <2>4. CASE SaveWrite
    <3>1. saver.pc = "write" /\ mutation = "saver" /\ ~SweepInside
      BY <2>4 DEF SaveWrite
    <3>2. \/ saver'.pc = "written" /\ mutation' = mutation
          \/ saver'.pc = "idle" /\ mutation' = "free"
      BY <2>4 DEF SaveWrite, SaverState, IdleSaver
    <3> QED
      BY <2>1, <3>1, <3>2
  <2>5. CASE SaveDropped
    <3>1. saver'.pc = "idle" /\ mutation' = IF mutation = "saver" THEN "free" ELSE mutation
      BY <2>5 DEF SaveDropped, IdleSaver
    <3> QED
      BY <2>1, <3>1
  <2> QED
    BY <1>4, <2>2, <2>3, <2>4, <2>5 DEF SettingsStep
<1>5. CASE SaveApply
  <2>1. saver.pc = "written" /\ saver'.pc = "idle" /\ mutation' = "free"
    BY <1>5 DEF SaveApply, SaverState
  <2>2. ~SweepInside
    BY <2>1
  <2>3. UNCHANGED sweep \/ sweep' = [sweep EXCEPT !.stale = (sweep.pc = "write")]
    BY <1>5, SaveApplyPlans
  <2> QED
    BY <2>1, <2>2, <2>3, StaleOnly
<1>6. CASE SweepStep
  <2>0. saver' = saver
    BY <1>6, SweepFrame
  <2> USE DEF SweepType, SweepState
  <2>1. CASE SweepTick
    BY <2>0, <2>1 DEF SweepTick
  <2>2. CASE Flush
    <3>1. sweep'.pc \in {"write", sweep.after} /\ sweep'.after = sweep.after /\ mutation' = mutation
      BY <2>2 DEF Flush
    <3> QED
      BY <2>0, <2>2, <3>1 DEF Flush
  <2>3. CASE FlushWritten
    BY <2>0, <2>3 DEF FlushWritten
  <2>4. CASE SweepAcquire
    <3>1. mutation = "free" /\ mutation' = "sweep" /\ sweep'.pc \in {"locked", "unlock"}
      BY <2>4 DEF SweepAcquire
    <3> QED
      BY <2>0, <3>1
  <2>5. CASE SweepDue
    <3>1. sweep.pc = "locked" /\ sweep'.pc \in {"read", "flush"} /\ sweep'.after = "unlock" /\ mutation' = mutation
      BY <2>5 DEF SweepDue
    <3> QED
      BY <2>0, <3>1
  <2>6. CASE SweepRead
    <3>1. sweep.pc = "read" /\ sweep'.pc \in {"pick", "flush"} /\ sweep'.after = sweep.after /\ mutation' = mutation
      BY <2>6 DEF SweepRead
    <3> QED
      BY <2>0, <3>1
  <2>7. CASE SweepPick
    <3>1. sweep.pc = "pick" /\ mutation' = mutation
      BY <2>7 DEF SweepPick
    <3>2. sweep'.pc \in {"delete", "flush"} /\ sweep'.after = sweep.after
      BY <2>7 DEF SweepPick
    <3> QED
      BY <2>0, <3>1, <3>2
  <2>8. CASE SweepDelete
    <3>1. sweep'.pc = sweep.pc /\ sweep'.after = sweep.after /\ mutation' = mutation
      BY <2>8 DEF SweepDelete
    <3> QED
      BY <1>1, <2>0, <3>1
  <2>9. CASE SweepDeleted
    BY <2>0, <2>9 DEF SweepDeleted
  <2>10. CASE SweepReleases
    <3>1. mutation = "sweep" /\ mutation' = "free" /\ sweep'.pc = "idle"
      BY <2>10 DEF SweepReleases, IdleSweep
    <3> QED
      BY <2>0, <3>1
  <2> QED
    BY <1>6, <2>1, <2>2, <2>3, <2>4, <2>5, <2>6, <2>7, <2>8, <2>9, <2>10 DEF SweepStep
<1>7. CASE Restart
  <2>1. saver'.pc = "idle" /\ sweep'.pc = "idle"
    BY <1>7 DEF Restart, IdleSweep
  <2> QED
    BY <2>1
<1> QED
  BY <1>2, <1>3, <1>4, <1>5, <1>6, <1>7, StepKinds

\* What is known of the file stays known, over failed and overtaken writes.
LEMMA StepFileIsKnown ==
  ASSUME PlansType, SweepType, FileIsKnown, [Next]_vars PROVE FileIsKnown'
<1> USE DEF FileIsKnown
<1>1. ASSUME UNCHANGED <<receipts, unsaved, receiptsFile>>, sweep'.pc = sweep.pc, sweep'.stale = sweep.stale,
             sweep'.saving = sweep.saving
      PROVE  FileIsKnown'
  BY <1>1
<1>2. ASSUME unsaved' = TRUE, receiptsFile' = receiptsFile, sweep' = [sweep EXCEPT !.stale = (sweep.pc = "write")]
      PROVE  FileIsKnown'
  BY <1>2, StaleOnly
<1>3. CASE SettingsStep \/ InboxStep \/ PollScan \/ UNCHANGED vars
  BY <1>1, <1>3, SettingsFrame, InboxFrame, PollScanFrame, VarsFrame
<1>4. CASE SaveApply
  BY <1>1, <1>2, <1>4, SaveApplyPlans
<1>5. CASE DeliveryStep
  BY <1>1, <1>2, <1>5, DeliveryFrame, DeliveryPlans DEF Plan
<1>6. ASSUME UNCHANGED <<receipts, unsaved, receiptsFile>>, sweep'.pc # "write" PROVE FileIsKnown'
  BY <1>6
<1>7. CASE SweepStep
  <2> USE DEF SweepType, SweepState
  <2>1. CASE SweepTick \/ SweepRead \/ SweepAcquire
    <3>1. sweep'.pc \in {"flush", "pick", "locked", "unlock"}
      BY <2>1 DEF SweepTick, SweepRead, SweepAcquire
    <3> QED
      BY <1>6, <2>1, <3>1 DEF SweepTick, SweepRead, SweepAcquire, plans
  <2>2. CASE Flush
    <3>1. UNCHANGED <<receipts, unsaved, receiptsFile>>
      BY <2>2 DEF Flush, plans
    <3>2. CASE unsaved
      <4>1. sweep' = [sweep EXCEPT !.pc = "write", !.saving = receipts, !.stale = FALSE]
        BY <2>2, <3>2 DEF Flush
      <4>2. sweep'.saving = receipts
        BY <4>1
      <4> QED
        BY <3>1, <3>2, <4>2
    <3>3. CASE ~unsaved
      <4>1. sweep' = [sweep EXCEPT !.pc = sweep.after]
        BY <2>2, <3>3 DEF Flush
      <4>2. sweep'.pc # "write"
        BY <4>1
      <4> QED
        BY <1>6, <3>1, <4>2
    <3> QED
      BY <3>2, <3>3
  <2>3. CASE FlushWritten
    <3>1. /\ sweep.pc = "write" /\ unsaved /\ receipts' = receipts
          /\ \/ receiptsFile' = sweep.saving /\ unsaved' = sweep.stale
             \/ unsaved' = unsaved
      BY <2>3 DEF FlushWritten
    <3>2. sweep'.pc # "write"
      BY <2>3 DEF FlushWritten
    <3> QED
      BY <3>1, <3>2
  <2>4. CASE SweepDue \/ SweepPick \/ SweepDelete
    <3>1. sweep'.pc \in {"read", "flush", "delete"}
      BY <2>4 DEF SweepDue, SweepPick, SweepDelete
    <3> QED
      BY <1>6, <2>4, <3>1 DEF SweepDue, SweepPick, SweepDelete, plans
  <2>5. CASE SweepDeleted
    BY <2>5 DEF SweepDeleted
  <2>6. CASE SweepReleases
    <3>1. sweep'.pc = "idle"
      BY <2>6 DEF SweepReleases, IdleSweep
    <3> QED
      BY <1>6, <2>6, <3>1 DEF SweepReleases, plans
  <2> QED
    BY <1>7, <2>1, <2>2, <2>3, <2>4, <2>5, <2>6 DEF SweepStep
<1>8. CASE Restart
  <2>1. receipts' = receiptsFile /\ receiptsFile' = receiptsFile /\ sweep'.pc = "idle"
    BY <1>8 DEF Restart, IdleSweep
  <2> QED
    BY <2>1
<1> QED
  BY <1>3, <1>4, <1>5, <1>7, <1>8, StepKinds

LEMMA StepPlansFit ==
  ASSUME PlansType, SweepType, PlansFit, [Next]_vars PROVE PlansFit'
<1> USE DEF PlansFit
<1>1. ASSUME receiptsFile' = receiptsFile, sweep'.saving = sweep.saving PROVE PlansFit'
  BY <1>1
<1>2. CASE SettingsStep \/ InboxStep \/ PollScan \/ UNCHANGED vars
  BY <1>1, <1>2, SettingsFrame, InboxFrame, PollScanFrame, VarsFrame
<1>3. CASE SaveApply \/ DeliveryStep
  BY <1>1, <1>3, SaveApplyPlans, DeliveryFrame, DeliveryPlans, StaleOnly DEF Plan
<1>4. ASSUME receiptsFile' = receiptsFile, sweep'.saving = receipts PROVE PlansFit'
  BY <1>4 DEF PlansType, Receipts
<1>5. ASSUME receiptsFile' \in {receiptsFile, sweep.saving}, sweep'.saving = NoReceipts PROVE PlansFit'
  <2>1. {m \in Messages : sweep'.saving[m] # {}} = {}
    BY <1>5, NoPlans
  <2> QED
    BY <1>5, <2>1, NoPlanFits
<1>6. CASE SweepStep
  <2> USE DEF SweepType, SweepState
  <2>1. CASE Flush
    BY <1>1, <1>4, <2>1 DEF Flush
  <2>2. CASE FlushWritten
    BY <1>5, <2>2 DEF FlushWritten
  <2>3. CASE SweepReleases
    BY <1>5, <2>3 DEF SweepReleases, IdleSweep
  <2>4. CASE SweepTick \/ SweepAcquire \/ SweepDue \/ SweepRead
    <3>1. sweep'.saving = sweep.saving
      BY <2>4 DEF SweepTick, SweepAcquire, SweepDue, SweepRead
    <3> QED
      BY <1>1, <2>4, <3>1 DEF SweepTick, SweepAcquire, SweepDue, SweepRead
  <2>5. CASE SweepPick \/ SweepDelete \/ SweepDeleted
    <3>1. sweep'.saving = sweep.saving
      BY <2>5 DEF SweepPick, SweepDelete, SweepDeleted
    <3> QED
      BY <1>1, <2>5, <3>1 DEF SweepPick, SweepDelete, SweepDeleted
  <2> QED
    BY <1>6, <2>1, <2>2, <2>3, <2>4, <2>5 DEF SweepStep
<1>7. CASE Restart
  BY <1>5, <1>7 DEF Restart, IdleSweep
<1> QED
  BY <1>2, <1>3, <1>6, <1>7, StepKinds

\* What the sweep is about to delete stays planned and on file until it has.
LEMMA StepDueIsPlanned ==
  ASSUME SettingsType, PlansType, SweepType, Holding, FileIsKnown, DueIsPlanned, [Next]_vars
  PROVE  DueIsPlanned'
<1> USE DEF DueIsPlanned
<1>1. ASSUME \A m \in Messages : receipts[m] # {} => receipts'[m] # {}, receiptsFile' = receiptsFile,
             sweep'.pc = sweep.pc, sweep'.due = sweep.due, sweep'.now = sweep.now
      PROVE  DueIsPlanned'
  <2>1. Receipts \subseteq Receipts'
    BY <1>1 DEF Receipts
  <2>2. sweep.due \subseteq Messages
    BY DEF SweepType, SweepState
  <2> QED
    BY <1>1, <2>1, <2>2
<1>2. ASSUME sweep'.pc \notin {"read", "pick", "delete"} PROVE DueIsPlanned'
  BY <1>2
<1>3. CASE SettingsStep \/ InboxStep \/ PollScan \/ UNCHANGED vars
  BY <1>1, <1>3, SettingsFrame, InboxFrame, PollScanFrame, VarsFrame
<1>4. CASE SaveApply
  <2>1. sweep.pc \notin {"read", "pick", "delete"}
    BY <1>4 DEF SaveApply, Holding, SweepInside
  <2> QED
    BY <1>2, <1>4, <2>1, SaveApplyPlans, StaleOnly
<1>5. CASE DeliveryStep
  <2>1. ASSUME NEW m \in Messages, Plan(m) PROVE DueIsPlanned'
    <3>1. \A q \in Messages : receipts[q] # {} => receipts'[q] # {}
      BY <2>1 DEF Plan, PlansType, Plans
    <3> QED
      BY <1>1, <1>5, <2>1, <3>1, DeliveryFrame, StaleOnly DEF Plan
  <2> QED
    BY <1>1, <1>5, <2>1, DeliveryFrame, DeliveryPlans
<1>6. CASE SweepStep
  <2> USE DEF SweepType, SweepState
  <2>1. CASE SweepTick \/ SweepAcquire \/ SweepReleases
    <3>1. CASE SweepTick \/ SweepReleases
      <4>1. SweepTick => sweep'.pc = "flush"
        BY DEF SweepTick
      <4>2. SweepReleases => sweep'.pc = "idle"
        BY DEF SweepReleases, IdleSweep
      <4> QED
        BY <1>2, <3>1, <4>1, <4>2
    <3>2. CASE SweepAcquire
      <4>1. sweep' = [sweep EXCEPT !.pc = "locked"] \/ sweep' = [sweep EXCEPT !.pc = "unlock"]
        BY <3>2 DEF SweepAcquire
      <4> QED
        BY <1>2, <4>1
    <3> QED
      BY <2>1, <3>1, <3>2
  <2>2. CASE Flush \/ FlushWritten
    <3>1. sweep'.pc \in {"write", "idle", "lock", "unlock"}
      BY <2>2 DEF Flush, FlushWritten
    <3> QED
      BY <1>2, <3>1
  <2>3. CASE SweepDue
    <3>1. PICK due \in SUBSET Receipts :
            /\ ~AllOnFile => due = {}
            /\ sweep' = [sweep EXCEPT !.due = due, !.after = "unlock",
                           !.pc = IF due = {} THEN "flush" ELSE "read"]
      BY <2>3 DEF SweepDue
    <3>2. receipts' = receipts /\ receiptsFile' = receiptsFile
      BY <2>3 DEF SweepDue, plans
    <3>3. CASE due = {}
      BY <1>2, <3>1, <3>3
    <3>4. CASE due # {}
      <4>1. sweep'.pc = "read" /\ sweep'.due = due
        BY <3>1, <3>4
      <4>2. receiptsFile = receipts
        BY <3>1, <3>4 DEF AllOnFile, FileIsKnown
      <4>3. \A m \in due : receipts[m] # {}
        BY DEF Receipts
      <4> QED
        BY <3>2, <4>1, <4>2, <4>3
    <3> QED
      BY <3>3, <3>4
  <2>4. CASE SweepRead
    <3>1. sweep' = [sweep EXCEPT !.pc = "pick"] \/ sweep'.pc = "flush"
      BY <2>4 DEF SweepRead
    <3>2. receipts' = receipts /\ receiptsFile' = receiptsFile /\ sweep.pc = "read"
      BY <2>4 DEF SweepRead, plans
    <3>3. CASE sweep' = [sweep EXCEPT !.pc = "pick"]
      <4>1. sweep'.pc = "pick" /\ sweep'.due = sweep.due
        BY <3>3
      <4> QED
        BY <3>2, <4>1
    <3> QED
      BY <1>2, <3>1, <3>3
  <2>5. CASE SweepPick
    <3>1. UNCHANGED <<receipts, receiptsFile>> /\ sweep.pc = "pick"
      BY <2>5 DEF SweepPick, plans
    <3>2. \/ sweep'.pc = "flush"
          \/ \E m \in sweep.due : sweep'.pc = "delete" /\ sweep'.now = m /\ sweep'.due = sweep.due \ {m}
      BY <2>5 DEF SweepPick
    <3>3. ASSUME NEW m \in sweep.due, sweep'.pc = "delete", sweep'.now = m, sweep'.due = sweep.due \ {m}
          PROVE  DueIsPlanned'
      <4>1. m \in Receipts
        BY <3>1 DEF Receipts
      <4>2. Receipts' = Receipts
        BY <3>1 DEF Receipts
      <4> QED
        BY <3>1, <3>3, <4>1, <4>2
    <3> QED
      BY <1>2, <3>2, <3>3
  <2>6. CASE SweepDelete
    <3>1. sweep'.pc = sweep.pc /\ sweep'.due = sweep.due /\ sweep'.now = sweep.now
      BY <2>6 DEF SweepDelete
    <3> QED
      BY <1>1, <2>6, <3>1 DEF SweepDelete, plans
  <2>7. CASE SweepDeleted
    <3>1. /\ sweep.pc = "delete" /\ receipts' = [receipts EXCEPT ![sweep.now] = sweep.remaining]
          /\ receiptsFile' = receiptsFile /\ sweep'.pc = "pick" /\ sweep'.due = sweep.due
      BY <2>7 DEF SweepDeleted
    <3>2. \A m \in sweep.due : m # sweep.now /\ receipts'[m] = receipts[m]
      BY <3>1 DEF PlansType, Plans
    <3> QED
      BY <3>1, <3>2
  <2> QED
    BY <1>6, <2>1, <2>2, <2>3, <2>4, <2>5, <2>6, <2>7 DEF SweepStep
<1>7. CASE Restart
  <2>1. sweep'.pc = "idle"
    BY <1>7 DEF Restart, IdleSweep
  <2> QED
    BY <1>2, <2>1
<1> QED
  BY <1>3, <1>4, <1>5, <1>6, <1>7, StepKinds

-----------------------------------------------------------------------------
(* The poll: a message is forwarded once. *)

LEMMA StepPollIsOn ==
  ASSUME InboxType, PollIsOn, [Next]_vars PROVE PollIsOn'
<1> USE DEF PollIsOn
<1>1. ASSUME poll' = IdlePoll PROVE PollIsOn'
  BY <1>1 DEF IdlePoll
<1>2. ASSUME poll' = poll, settings' = settings PROVE PollIsOn'
  BY <1>2
<1>3. CASE SettingsStep \/ DeliveryStep \/ SweepStep \/ UNCHANGED vars
  BY <1>2, <1>3, SettingsFrame, DeliveryFrame, SweepFrame, VarsFrame
<1>4. CASE PollScan \/ Restart
  BY <1>1, <1>4 DEF PollScan, Restart
<1>5. CASE SaveApply
  <2>1. CASE Reset(settings, saver.new)
    <3>1. poll' = [poll EXCEPT !.stale = TRUE]
      BY <1>5, <2>1 DEF SaveApply, Apply
    <3> QED
      BY <3>1 DEF InboxType, PollState
  <2>2. CASE ~Reset(settings, saver.new)
    <3>1. poll' = poll /\ settings' = saver.new
      BY <1>5, <2>2 DEF SaveApply, Apply
    <3>2. settings'.forward = settings.forward /\ settings'.sms = settings.sms
      BY <2>2, <3>1 DEF Reset
    <3> QED
      BY <3>1, <3>2
  <2> QED
    BY <2>1, <2>2
<1>6. CASE InboxStep
  <2>1. ASSUME NEW p \in Part, Arrives(p) PROVE PollIsOn'
    BY <1>2, <2>1 DEF Arrives, config
  <2>2. ASSUME NEW m \in Messages, UserDeletes(m) PROVE PollIsOn'
    BY <1>2, <2>2 DEF UserDeletes, config
  <2>3. CASE PollStart
    BY <2>3 DEF PollStart, config
  <2>4. CASE PollRead
    <3>1. poll' = IdlePoll \/ (poll.pc = "read" /\ poll'.stale = poll.stale)
      BY <2>4 DEF PollRead, InboxType, PollState
    <3> QED
      BY <1>1, <2>4, <3>1 DEF PollRead, config
  <2>5. CASE PollStale \/ PollBaseline
    BY <1>1, <2>5 DEF PollStale, PollBaseline
  <2> QED
    BY <1>6, <2>1, <2>2, <2>3, <2>4, <2>5 DEF InboxStep
<1> QED
  BY <1>3, <1>4, <1>5, <1>6, StepKinds

\* What a scan of the list does, message by message.
LEMMA PollScanDoes ==
  ASSUME InboxType, HistoryType, PollScan
  PROVE  /\ poll.pc = "scan" /\ ~poll.stale /\ ready /\ poll' = IdlePoll
         /\ \A p \in poll.list : p[1] \in Complete => p \in seen'
         /\ \A m \in Messages :
              /\ m \notin New => wanted'[m] = wanted[m] /\ queuedTimes'[m] = queuedTimes[m]
              /\ queuedTimes[m] = 0 /\ m \in New => queuedTimes'[m] = 1 /\ wanted'[m] = settings.targets
<1>1. /\ seen' = {p \in poll.list : p \in seen \/ p[1] \in Complete}
      /\ wanted' = [m \in Messages |-> IF m \in New THEN settings.targets ELSE wanted[m]]
      /\ queuedTimes' = [m \in Messages |->
                           IF m \in New /\ queuedTimes[m] < 2 THEN queuedTimes[m] + 1
                           ELSE queuedTimes[m]]
      /\ poll.pc = "scan" /\ ~poll.stale /\ ready /\ poll' = IdlePoll
  BY DEF PollScan
<1> QED
  BY <1>1 DEF HistoryType

LEMMA IsNew ==
  ASSUME ForwardedIsSeen, poll.pc = "scan", ~poll.stale, ready, NEW m \in New
  PROVE  m \in Messages /\ m \in Complete /\ Whole(m, poll.list) /\ ~(queuedTimes[m] > 0)
<1>1. m \in Messages /\ m \in Complete /\ Whole(m, poll.list) /\ \A f \in Fragments : <<m, f>> \notin seen
  BY DEF New, Complete
<1> QED
  BY <1>1 DEF ForwardedIsSeen

LEMMA StepForwardedOnce ==
  ASSUME InboxType, HistoryType, ForwardedIsSeen, ForwardedOnce, [Next]_vars PROVE ForwardedOnce'
<1> USE DEF ForwardedOnce
<1>1. CASE PollScan
  <2> SUFFICES ASSUME NEW m \in Messages PROVE queuedTimes'[m] <= 1
    OBVIOUS
  <2>1. CASE m \in New
    <3>1. queuedTimes[m] = 0
      BY <1>1, <2>1, PollScanDoes, IsNew DEF HistoryType
    <3> QED
      BY <1>1, <2>1, <3>1, PollScanDoes
  <2>2. CASE m \notin New
    BY <1>1, <2>2, PollScanDoes
  <2> QED
    BY <2>1, <2>2
<1>2. ASSUME UNCHANGED queuedTimes PROVE ForwardedOnce'
  BY <1>2
<1>3. CASE SaveApply \/ Restart
  BY <1>2, <1>3 DEF SaveApply, Restart, history
<1> QED
  BY <1>1, <1>2, <1>3, StepKinds, SettingsFrame, InboxFrame, DeliveryFrame, SweepFrame, VarsFrame

\* The detector's knowledge of what was forwarded outlives everything but a
\* restart and a change of the settings, after which the inbox is read as old.
LEMMA StepForwardedIsSeen ==
  ASSUME InboxType, HistoryType, SweepType, DueIsPlanned, ForwardedIsSeen, [Next]_vars
  PROVE  ForwardedIsSeen'
<1> USE DEF ForwardedIsSeen, Whole, Here
<1>0. /\ inbox \in [Part -> {"coming", "here", "gone"}]
      /\ \A m \in Messages, f \in Fragments : <<m, f>> \in Part
  BY DEF InboxType, Part
\* Parts come, and go; but none comes again.
<1>1. ASSUME UNCHANGED <<ready, seen, poll, queuedTimes>>,
             \A p \in Part : inbox'[p] # inbox[p] => inbox'[p] = "gone"
                                \/ (inbox[p] = "coming" /\ inbox'[p] = "here")
      PROVE  ForwardedIsSeen'
  <2>1. \A p \in poll.list : p \in Part
    BY DEF InboxType, PollState
  <2>2. \A p \in poll.list : inbox'[p] # "coming"
    BY <1>0, <1>1, <2>1
  <2>3. ASSUME NEW m \in Messages, queuedTimes[m] > 0, NEW f \in Fragments
        PROVE  inbox'[<<m, f>>] # "coming" /\ (inbox'[<<m, f>>] = "here" => inbox[<<m, f>>] = "here")
    BY <1>0, <1>1, <2>3
  <2> QED
    BY <1>0, <1>1, <2>2, <2>3
<1>2. CASE SettingsStep \/ DeliveryStep \/ UNCHANGED vars
  BY <1>1, <1>2, SettingsFrame, DeliveryFrame, VarsFrame
<1>3. CASE SweepStep
  <2>1. CASE SweepDelete
    <3>1. inbox' = inbox \/ \E f \in sweep.left : inbox' = [inbox EXCEPT ![<<sweep.now, f>>] = "gone"]
      BY <2>1 DEF SweepDelete
    <3>2. \A p \in Part : inbox'[p] # inbox[p] => inbox'[p] = "gone"
      BY <1>0, <3>1
    <3> QED
      BY <1>1, <1>3, <3>2, SweepFrame
  <2>2. CASE ~SweepDelete
    <3>1. inbox' = inbox
      BY <1>3, <2>2 DEF SweepStep, SweepTick, Flush, FlushWritten, SweepAcquire, SweepDue, SweepRead,
         SweepPick, SweepDeleted, SweepReleases
    <3> QED
      BY <1>1, <1>3, <3>1, SweepFrame
  <2> QED
    BY <2>1, <2>2
<1>4. ASSUME NEW p \in Part, Arrives(p) PROVE ForwardedIsSeen'
  <2>1. inbox[p] = "coming" /\ inbox' = [inbox EXCEPT ![p] = "here"]
    BY <1>4 DEF Arrives
  <2>2. UNCHANGED <<ready, seen, poll, queuedTimes>>
    BY <1>4 DEF Arrives, detector, history
  <2> QED
    BY <1>0, <1>1, <2>1, <2>2
<1>5. ASSUME NEW m \in Messages, UserDeletes(m) PROVE ForwardedIsSeen'
  <2>1. inbox' = [p \in Part |-> IF p[1] = m /\ inbox[p] = "here" THEN "gone" ELSE inbox[p]]
    BY <1>5 DEF UserDeletes
  <2>2. UNCHANGED <<ready, seen, poll, queuedTimes>>
    BY <1>5 DEF UserDeletes, detector, history
  <2> QED
    BY <1>1, <2>1, <2>2
\* A poll that is not scanning knows nothing.
<1>6. ASSUME UNCHANGED <<inbox, ready, seen, queuedTimes>>, poll'.pc # "scan", poll'.list = {}
      PROVE  ForwardedIsSeen'
  BY <1>0, <1>6
<1>7. CASE PollStart \/ PollStale
  BY <1>6, <1>7 DEF PollStart, PollStale, IdlePoll, detector, history
<1>8. CASE PollRead
  <2>1. UNCHANGED <<inbox, ready, seen, queuedTimes>>
    BY <1>8 DEF PollRead, detector, history
  <2>2. CASE poll' = IdlePoll
    BY <1>6, <2>1, <2>2 DEF IdlePoll
  <2>3. CASE poll' = [poll EXCEPT !.pc = "scan", !.list = Here]
    <3>1. poll'.list = Here
      BY <2>3 DEF InboxType, PollState
    <3>2. \A p \in Here : inbox[p] = "here"
      OBVIOUS
    <3> QED
      BY <1>0, <2>1, <3>1, <3>2
  <2> QED
    BY <1>8, <2>2, <2>3 DEF PollRead
<1>9. CASE PollBaseline
  <2>1. /\ poll.pc = "scan" /\ seen' = poll.list /\ poll'.pc # "scan" /\ poll'.list = {}
        /\ UNCHANGED <<inbox, queuedTimes>>
    BY <1>9 DEF PollBaseline, IdlePoll, history
  <2> QED
    BY <1>0, <2>1, FragmentsAssumption
<1>10. CASE PollScan
  <2>1. poll'.pc # "scan" /\ poll'.list = {} /\ inbox' = inbox
    BY <1>10, PollScanDoes, PollScanFrame DEF IdlePoll
  <2>2. ASSUME NEW m \in Messages, queuedTimes'[m] > 0
        PROVE  /\ \A f \in Fragments : inbox[<<m, f>>] # "coming"
               /\ (\A f \in Fragments : inbox[<<m, f>>] = "here") => \A f \in Fragments : <<m, f>> \in seen'
    <3>1. CASE m \in New
      <4>1. m \in Complete /\ \A f \in Fragments : <<m, f>> \in poll.list
        BY <1>10, <3>1, PollScanDoes, IsNew
      <4> QED
        BY <1>10, <4>1, PollScanDoes
    <3>2. CASE m \notin New
      <4>1. queuedTimes[m] > 0 /\ poll.pc = "scan"
        BY <1>10, <2>2, <3>2, PollScanDoes
      <4>2. (\A f \in Fragments : inbox[<<m, f>>] = "here") => m \in Complete
        BY <1>0, <4>1 DEF Complete
      <4> QED
        BY <1>0, <1>10, <4>1, <4>2, PollScanDoes
    <3> QED
      BY <3>1, <3>2
  <2> QED
    BY <1>0, <2>1, <2>2, FragmentsAssumption
<1>11. CASE SaveApply
  <2>1. UNCHANGED <<inbox, queuedTimes>>
    BY <1>11 DEF SaveApply
  <2>2. CASE ready' = FALSE /\ poll' = [poll EXCEPT !.stale = TRUE]
    <3>1. poll'.list = poll.list /\ poll'.pc = poll.pc
      BY <2>2 DEF InboxType, PollState
    <3> QED
      BY <2>1, <2>2, <3>1
  <2>3. CASE UNCHANGED <<ready, seen, poll>>
    BY <1>1, <2>1, <2>3
  <2> QED
    BY <1>11, <2>2, <2>3 DEF SaveApply, Apply, FreshDetector, detector
<1>12. CASE Restart
  <2>1. ready' = FALSE /\ poll'.pc # "scan" /\ poll'.list = {} /\ UNCHANGED <<inbox, queuedTimes>>
    BY <1>12 DEF Restart, IdlePoll, history
  <2> QED
    BY <2>1
<1> QED
  BY <1>2, <1>3, <1>4, <1>5, <1>7, <1>8, <1>9, <1>10, <1>11, <1>12, StepKinds DEF InboxStep

-----------------------------------------------------------------------------
(* The histories and the queue. *)

LEMMA ChoiceType ==
  ASSUME SettingsType
  PROVE  /\ settings.targets \subseteq Channels /\ settings.notify \subseteq Channels
         /\ IsFiniteSet(settings.targets) /\ IsFiniteSet(settings.notify)
<1>1. settings \in Setting
  BY ChoicesAssumption DEF SettingsType
<1>2. settings.targets \subseteq Channels /\ settings.notify \subseteq Channels
  BY <1>1 DEF Setting
<1> QED
  BY <1>2, FS_Subset, FiniteAssumption

LEMMA InFlight ==
  ASSUME QueueType, flight.job # NoJob
  PROVE  /\ flight.job \in Job /\ flight.job.note \in Notes /\ flight.job.channel \in Channels
         /\ flight.job.sent \in 0..(Pieces - 1)
BY DEF QueueType, Job

\* Confirmations are only added, and each delivery adds at most the one of its own job.
LEMMA DeliveredGrows ==
  ASSUME QueueType, HistoryType, DeliveryStep
  PROVE  /\ delivered' \in [Messages -> SUBSET Channels]
         /\ \A m \in Messages : delivered[m] \subseteq delivered'[m]
<1> USE DEF HistoryType
<1>1. ASSUME Confirmed, flight.job # NoJob
      PROVE  /\ delivered' \in [Messages -> SUBSET Channels]
             /\ \A m \in Messages : delivered[m] \subseteq delivered'[m]
  <2>1. flight.job.channel \in Channels
    BY <1>1, InFlight
  <2>2. CASE Last /\ flight.job.note \in Messages
    <3>1. delivered' = [delivered EXCEPT ![flight.job.note] = @ \cup {flight.job.channel}]
      BY <1>1, <2>2 DEF Confirmed
    <3> QED
      BY <2>1, <2>2, <3>1
  <2>3. CASE ~(Last /\ flight.job.note \in Messages)
    BY <1>1, <2>3 DEF Confirmed
  <2> QED
    BY <2>2, <2>3
<1>2. CASE DeliverOk
  BY <1>1, <1>2 DEF DeliverOk
<1>3. CASE DeliverStale
  BY <1>1, <1>3 DEF DeliverStale
<1>4. CASE Expire \/ DeliverStart \/ DeliverRetry \/ DeliverFails
  BY <1>4 DEF Expire, DeliverStart, DeliverRetry, DeliverFails, history
<1>5. CASE \E o \in Outages : Notice(o)
  BY <1>5 DEF Notice, history
<1> QED
  BY <1>2, <1>3, <1>4, <1>5 DEF DeliveryStep

LEMMA StepHistoryType ==
  ASSUME SettingsType, QueueType, SweepType, HistoryType, DueIsPlanned, [Next]_vars
  PROVE  HistoryType'
<1> USE DEF HistoryType
<1>1. CASE SettingsStep \/ InboxStep \/ UNCHANGED vars
  BY <1>1, SettingsFrame, InboxFrame, VarsFrame
<1>2. CASE SaveApply
  <2>1. /\ UNCHANGED <<wanted, delivered, queuedTimes, deleted>>
        /\ cancelled' = cancelled \/ cancelled' = cancelled \cup Receipts
    BY <1>2 DEF SaveApply
  <2> QED
    BY <2>1 DEF Receipts
<1>3. CASE PollScan
  <2>1. /\ wanted' = [m \in Messages |-> IF m \in New THEN settings.targets ELSE wanted[m]]
        /\ queuedTimes' = [m \in Messages |->
                             IF m \in New /\ queuedTimes[m] < 2 THEN queuedTimes[m] + 1
                             ELSE queuedTimes[m]]
    BY <1>3 DEF PollScan
  <2>2. wanted' \in [Messages -> SUBSET Channels]
    BY <2>1, ChoiceType
  <2>3. queuedTimes' \in [Messages -> 0..2]
    BY <2>1
  <2> QED
    BY <1>3, <2>2, <2>3, PollScanFrame
<1>4. CASE DeliveryStep
  BY <1>4, DeliveryFrame, DeliveredGrows
<1>5. CASE SweepStep
  <2>1. deleted' \in {deleted, deleted \cup {sweep.now}} /\ (deleted' # deleted => SweepDelete)
    BY <1>5 DEF SweepStep, SweepTick, Flush, FlushWritten, SweepAcquire, SweepDue, SweepRead,
       SweepPick, SweepDelete, SweepDeleted, SweepReleases, history
  <2>2. SweepDelete => sweep.now \in Messages
    BY DEF SweepDelete, DueIsPlanned, Receipts
  <2> QED
    BY <1>5, <2>1, <2>2, SweepFrame
<1>6. CASE Restart
  BY <1>6 DEF Restart, history
<1> QED
  BY <1>1, <1>2, <1>3, <1>4, <1>5, <1>6, StepKinds

\* The queue takes no more than its room: the job in flight may come back to a full one.
LEMMA AcceptedFit ==
  ASSUME QueueType, IsFiniteSet(queue), NEW all, IsFiniteSet(all), NEW added \in Accepted(all)
  PROVE  /\ added \subseteq all /\ IsFiniteSet(queue \cup added)
         /\ Cardinality(queue \cup added) <= IF flight.job = NoJob THEN MaxJobs + 1 ELSE MaxJobs
<1>1. added \subseteq all /\ Cardinality(added) <= Room
  BY DEF Accepted
<1>2. IsFiniteSet(added)
  BY <1>1, FS_Subset
<1>3. /\ IsFiniteSet(queue \cup added)
      /\ Cardinality(queue \cup added) = Cardinality(queue) + Cardinality(added) - Cardinality(queue \cap added)
  BY <1>2, FS_Union
<1>4. IsFiniteSet(queue \cap added)
  BY FS_Subset
<1>5. /\ Cardinality(queue) \in Nat /\ Cardinality(added) \in Nat /\ Cardinality(queue \cap added) \in Nat
      /\ MaxJobs \in Nat
  BY <1>2, <1>4, FS_CardinalityType, BoundsAssumption
<1>6. CASE Cardinality(queue) < MaxJobs
  BY <1>1, <1>3, <1>5, <1>6 DEF Room
<1>7. CASE ~(Cardinality(queue) < MaxJobs)
  <2>1. added = {}
    BY <1>1, <1>2, <1>5, <1>7, FS_EmptySet DEF Room
  <2>2. queue \cup added = queue
    BY <2>1
  <2> QED
    BY <1>1, <1>3, <2>2 DEF QueueType
<1> QED
  BY <1>1, <1>3, <1>6, <1>7

LEMMA NewJobs ==
  ASSUME SettingsType
  PROVE  /\ New \subseteq Messages
         /\ IsFiniteSet(Wanted(New)) /\ Wanted(New) \subseteq Job
         /\ \A o \in Outages : LET notices == [note : {o}, channel : settings.notify, sent : {0}]
                               IN  IsFiniteSet(notices) /\ notices \subseteq Job
<1>1. New \subseteq Messages
  BY DEF New, Complete
<1>2. IsFiniteSet(New)
  BY <1>1, FiniteAssumption, FS_Subset
<1>3. IsFiniteSet(Wanted(New))
  BY <1>2, ChoiceType, JobsAreFinite DEF Wanted
<1>4. 0 \in 0..(Pieces - 1)
  BY BoundsAssumption
<1>5. Wanted(New) \subseteq Job
  BY <1>1, <1>4, ChoiceType DEF Wanted, Job, Notes
<1>6. ASSUME NEW o \in Outages
      PROVE  LET notices == [note : {o}, channel : settings.notify, sent : {0}]
             IN  IsFiniteSet(notices) /\ notices \subseteq Job
  <2>1. IsFiniteSet({o})
    BY FS_Singleton
  <2>2. IsFiniteSet([note : {o}, channel : settings.notify, sent : {0}])
    BY <2>1, ChoiceType, JobsAreFinite
  <2> QED
    BY <1>4, <2>2, ChoiceType DEF Job, Notes
<1> QED
  BY <1>1, <1>3, <1>5, <1>6

QueueFits == Cardinality(queue) <= IF flight.job = NoJob THEN MaxJobs + 1 ELSE MaxJobs

LEMMA FewerFit ==
  ASSUME QueueType, IsFiniteSet(queue), queue' \subseteq queue,
         flight'.job = flight.job \/ flight'.job = NoJob
  PROVE  QueueFits' /\ IsFiniteSet(queue')
<1>1. IsFiniteSet(queue') /\ Cardinality(queue') <= Cardinality(queue)
  BY FS_Subset
<1>2. Cardinality(queue) \in Nat /\ Cardinality(queue') \in Nat /\ MaxJobs \in Nat
  BY <1>1, FS_CardinalityType, BoundsAssumption
<1> QED
  BY <1>1, <1>2 DEF QueueType, QueueFits

LEMMA OneMoreFits ==
  ASSUME QueueType, IsFiniteSet(queue), flight.job # NoJob, NEW j, queue' = queue \cup {j},
         flight' = NoFlight
  PROVE  QueueFits' /\ IsFiniteSet(queue')
<1>0. /\ IsFiniteSet(queue \cup {j})
      /\ Cardinality(queue \cup {j}) = IF j \in queue THEN Cardinality(queue) ELSE Cardinality(queue) + 1
  BY FS_AddElement
<1>1. IsFiniteSet(queue') /\ Cardinality(queue') \in {Cardinality(queue), Cardinality(queue) + 1}
  BY <1>0
<1>2. Cardinality(queue) \in Nat /\ Cardinality(queue') \in Nat /\ MaxJobs \in Nat
  BY <1>1, FS_CardinalityType, BoundsAssumption
<1>3. flight'.job = NoJob
  BY DEF NoFlight
<1> QED
  BY <1>1, <1>2, <1>3 DEF QueueType, QueueFits

\* The next request of a notification that takes several.
Continued == [flight.job EXCEPT !.sent = @ + 1]

LEMMA ContinuedType ==
  ASSUME QueueType, flight.job # NoJob, ~Last
  PROVE  /\ Continued \in Job /\ Continued.note = flight.job.note
         /\ Continued.channel = flight.job.channel /\ Continued # flight.job
<1>1. flight.job \in Job /\ flight.job.sent \in 0..(Pieces - 1)
  BY InFlight
<1>2. flight.job.sent + 1 \in 0..(Pieces - 1)
  BY <1>1, BoundsAssumption DEF Last
<1>3. Continued \in Job /\ Continued.note = flight.job.note /\ Continued.channel = flight.job.channel
      /\ Continued.sent = flight.job.sent + 1
  BY <1>1, <1>2 DEF Continued, Job
<1> QED
  BY <1>1, <1>3

LEMMA StepQueueType ==
  ASSUME SettingsType, QueueType, IsFiniteSet(queue), [Next]_vars
  PROVE  QueueType' /\ IsFiniteSet(queue')
<1> DEFINE Goal == QueueType' /\ IsFiniteSet(queue')
<1> USE DEF QueueFits
<1>1. ASSUME queue' \subseteq queue, flight' \in [job : {flight.job, NoJob}, stale : BOOLEAN] PROVE Goal
  BY <1>1, FewerFit DEF QueueType
<1>2. flight \in [job : {flight.job, NoJob}, stale : BOOLEAN]
  BY DEF QueueType
<1>3. NoFlight \in [job : {flight.job, NoJob}, stale : BOOLEAN]
  BY DEF NoFlight
<1>4. CASE SettingsStep \/ InboxStep \/ SweepStep \/ UNCHANGED vars
  BY <1>1, <1>2, <1>4, SettingsFrame, InboxFrame, SweepFrame, VarsFrame
<1>5. CASE SaveApply
  <2>1. queue' \subseteq queue
    BY <1>5 DEF SaveApply, Apply
  <2>2. flight' = flight \/ flight' = [flight EXCEPT !.stale = TRUE]
    BY <1>5 DEF SaveApply, Apply
  <2>3. [flight EXCEPT !.stale = TRUE] \in [job : {flight.job, NoJob}, stale : BOOLEAN]
    BY DEF QueueType
  <2> QED
    BY <1>1, <1>2, <2>1, <2>2, <2>3
<1>6. ASSUME NEW all, IsFiniteSet(all), all \subseteq Job, NEW added \in Accepted(all),
             queue' = queue \cup added, flight' = flight
      PROVE  Goal
  BY <1>6, AcceptedFit DEF QueueType
<1>7. CASE PollScan
  <2>1. PICK added \in Accepted(Wanted(New)) : queue' = queue \cup added
    BY <1>7 DEF PollScan
  <2> QED
    BY <1>6, <1>7, <2>1, NewJobs, PollScanFrame
<1>8. ASSUME NEW o \in Outages, Notice(o) PROVE Goal
  <2>1. PICK added \in Accepted([note : {o}, channel : settings.notify, sent : {0}]) : queue' = queue \cup added
    BY <1>8 DEF Notice
  <2>2. flight' = flight
    BY <1>8 DEF Notice
  <2> QED
    BY <1>6, <2>1, <2>2, NewJobs
<1>9. CASE Expire
  <2>1. queue' \subseteq queue /\ flight' = flight
    BY <1>9 DEF Expire
  <2> QED
    BY <1>1, <1>2, <2>1
<1>10. CASE DeliverStart
  <2>1. PICK j \in queue : flight' = [job |-> j, stale |-> FALSE] /\ queue' = queue \ {j}
    BY <1>10 DEF DeliverStart
  <2>2. IsFiniteSet(queue') /\ Cardinality(queue') = Cardinality(queue) - 1
    BY <2>1, FS_RemoveElement
  <2>3. Cardinality(queue) <= MaxJobs + 1 /\ Cardinality(queue) \in Nat
    BY <1>10, FS_CardinalityType DEF DeliverStart, QueueType
  <2>4. Cardinality(queue') <= MaxJobs
    BY <2>2, <2>3, BoundsAssumption
  <2>5. j \in Job /\ flight'.job = j /\ j # NoJob
    BY <2>1, NoJobAssumption DEF QueueType
  <2> QED
    BY <2>1, <2>2, <2>4, <2>5 DEF QueueType
<1>11. CASE DeliverStale
  BY <1>1, <1>3, <1>11 DEF DeliverStale, jobs
<1>12. CASE DeliverFails
  BY <1>1, <1>3, <1>12 DEF DeliverFails
<1>13. CASE DeliverRetry
  <2>1. queue' = queue \cup {flight.job} /\ flight' = NoFlight /\ flight.job # NoJob
    BY <1>13 DEF DeliverRetry
  <2> QED
    BY <2>1, OneMoreFits, InFlight DEF QueueType, NoFlight
<1>14. CASE DeliverOk
  <2>1. flight' = NoFlight /\ flight.job # NoJob
    BY <1>14 DEF DeliverOk
  <2>2. CASE Last
    BY <1>1, <1>3, <1>14, <2>1, <2>2 DEF DeliverOk
  <2>3. CASE ~Last
    <3>1. queue' = queue \cup {Continued}
      BY <1>14, <2>3 DEF DeliverOk, Continued
    <3> QED
      BY <2>1, <2>3, <3>1, OneMoreFits, ContinuedType DEF QueueType, NoFlight
  <2> QED
    BY <2>2, <2>3
<1>15. CASE Restart
  BY <1>1, <1>3, <1>15 DEF Restart
<1> QED
  BY <1>4, <1>5, <1>7, <1>8, <1>9, <1>10, <1>11, <1>12, <1>13, <1>14, <1>15, StepKinds DEF DeliveryStep

-----------------------------------------------------------------------------
(* A message's jobs, and what each step does to them. *)

LEMMA JobsFinite ==
  ASSUME QueueType, IsFiniteSet(queue), NEW m
  PROVE  IsFiniteSet(JobsOf(m)) /\ JobsOf(m) \subseteq Job
<1>1. JobsOf(m) \subseteq queue \cup {flight.job}
  BY DEF JobsOf
<1>2. IsFiniteSet(queue \cup {flight.job})
  BY FS_AddElement
<1>3. JobsOf(m) \subseteq Job
  BY DEF JobsOf, QueueType
<1> QED
  BY <1>1, <1>2, <1>3, FS_Subset

\* completed(): the jobs in `done' are struck from every message's count.
Struck(m, done, ok) ==
  LET those == {j \in done : j.note = m}
      n == Cardinality(those)
  IN  /\ those \subseteq JobsOf(m) /\ JobsOf(m)' = JobsOf(m) \ those
      /\ outcomes'[m] =
           IF outcomes[m].pending = 0 \/ outcomes[m].pending = n THEN NoOutcome
           ELSE [pending |-> outcomes[m].pending - n, failed |-> outcomes[m].failed \/ (n > 0 /\ ~ok)]

LEMMA CompletedStrikes ==
  ASSUME OutcomesType, NEW done, NEW ok, Completed(done, ok), NEW m \in Messages,
         LET those == {j \in done : j.note = m}
         IN  those \subseteq JobsOf(m) /\ JobsOf(m)' = JobsOf(m) \ those
  PROVE  Struck(m, done, ok)
<1> DEFINE n == Cardinality({j \in done : j.note = m})
<1>1. outcomes'[m] =
        IF (outcomes[m].pending > 0 /\ outcomes[m].pending = n) \/ outcomes[m].pending = 0 THEN NoOutcome
        ELSE [pending |-> outcomes[m].pending - n, failed |-> outcomes[m].failed \/ (n > 0 /\ ~ok)]
  BY DEF Completed
<1>2. outcomes[m].pending \in Nat
  BY DEF OutcomesType, Outcome
<1>3. (outcomes[m].pending > 0 /\ outcomes[m].pending = n) \/ outcomes[m].pending = 0
        <=> outcomes[m].pending = 0 \/ outcomes[m].pending = n
  BY <1>2
<1> QED
  BY <1>1, <1>3 DEF Struck

Unmoved(m) == JobsOf(m)' = JobsOf(m) /\ outcomes'[m] = outcomes[m]

Moved(m) ==
  /\ ~Last /\ flight.job \in JobsOf(m) /\ outcomes'[m] = outcomes[m]
  /\ Continued \in Job /\ Continued.note = m /\ Continued.channel = flight.job.channel
  /\ Continued # flight.job
  /\ JobsOf(m)' = (JobsOf(m) \ {flight.job}) \cup {Continued}

LEMMA DeliveryJobs ==
  ASSUME QueueType, OutcomesType, JobsBelong, DeliveryStep, NEW m \in Messages
  PROVE  \/ Unmoved(m)
         \/ DeliverOk /\ Moved(m)
         \/ \E old \in SUBSET queue : Struck(m, old, FALSE)
         \/ Struck(m, {flight.job}, FALSE)
         \/ DeliverOk /\ Last /\ flight.job # NoJob /\ Struck(m, {flight.job}, TRUE)
<1> USE DEF JobsOf
<1>0. NoFlight.job = NoJob
  BY DEF NoFlight
<1>1. ASSUME NEW o \in Outages, Notice(o) PROVE Unmoved(m)
  <2>1. PICK added \in Accepted([note : {o}, channel : settings.notify, sent : {0}]) : queue' = queue \cup added
    BY <1>1 DEF Notice
  <2>2. added \subseteq [note : {o}, channel : settings.notify, sent : {0}]
    BY DEF Accepted
  <2>3. \A j \in added : j.note # m
    BY <2>2, NothingAssumption
  <2>4. flight' = flight /\ outcomes' = outcomes
    BY <1>1 DEF Notice
  <2>5. JobsOf(m)' = JobsOf(m)
    BY <2>1, <2>3, <2>4
  <2> QED
    BY <2>4, <2>5 DEF Unmoved
<1>2. CASE Expire
  <2>1. PICK old \in SUBSET queue \ {{}} : queue' = queue \ old /\ Completed(old, FALSE)
    BY <1>2 DEF Expire
  <2>2. flight' = flight /\ flight.job = NoJob
    BY <1>2 DEF Expire
  <2>3. LET those == {j \in old : j.note = m} IN those \subseteq JobsOf(m) /\ JobsOf(m)' = JobsOf(m) \ those
    BY <2>1, <2>2
  <2> QED
    BY <2>1, <2>3, CompletedStrikes
<1>3. CASE DeliverStart
  <2>1. PICK j \in queue : flight' = [job |-> j, stale |-> FALSE] /\ queue' = queue \ {j}
    BY <1>3 DEF DeliverStart
  <2>2. flight.job = NoJob /\ outcomes' = outcomes /\ flight'.job = j /\ ~flight'.stale /\ j # NoJob
    BY <1>3, <2>1, NoJobAssumption DEF DeliverStart, QueueType
  <2>3. JobsOf(m)' = JobsOf(m)
    BY <2>1, <2>2
  <2> QED
    BY <2>2, <2>3 DEF Unmoved
<1>4. CASE DeliverStale
  <2>1. flight.stale /\ flight'.job = NoJob /\ UNCHANGED <<queue, outcomes>>
    BY <1>0, <1>4 DEF DeliverStale, Stale, jobs
  <2>2. JobsOf(m)' = JobsOf(m)
    BY <2>1
  <2> QED
    BY <2>1, <2>2 DEF Unmoved
<1>5. CASE DeliverRetry
  <2>1. /\ ~flight.stale /\ flight.job # NoJob /\ flight'.job = NoJob /\ queue' = queue \cup {flight.job}
        /\ outcomes' = outcomes
    BY <1>0, <1>5 DEF DeliverRetry, Stale
  <2>2. JobsOf(m)' = JobsOf(m)
    BY <2>1
  <2> QED
    BY <2>1, <2>2 DEF Unmoved
\* The job in flight is in no other place.
<1>6. ASSUME flight.job # NoJob, ~flight.stale, flight'.job = NoJob, queue' = queue
      PROVE  LET those == {j \in {flight.job} : j.note = m}
             IN  those \subseteq JobsOf(m) /\ JobsOf(m)' = JobsOf(m) \ those
  <2>1. flight.job \notin queue
    BY <1>6 DEF JobsBelong
  <2> QED
    BY <1>6, <2>1
<1>7. CASE DeliverFails
  <2>1. /\ ~flight.stale /\ flight.job # NoJob /\ flight'.job = NoJob /\ queue' = queue
        /\ Completed({flight.job}, FALSE)
    BY <1>0, <1>7 DEF DeliverFails, Stale
  <2> QED
    BY <1>6, <2>1, CompletedStrikes
<1>8. CASE DeliverOk
  <2>1. ~flight.stale /\ flight.job # NoJob /\ flight'.job = NoJob
    BY <1>0, <1>8 DEF DeliverOk, Stale
  <2>2. CASE Last
    <3>1. queue' = queue /\ Completed({flight.job}, TRUE)
      BY <1>8, <2>2 DEF DeliverOk
    <3> QED
      BY <1>6, <1>8, <2>1, <2>2, <3>1, CompletedStrikes
  <2>3. CASE ~Last
    <3>1. queue' = queue \cup {Continued} /\ outcomes' = outcomes
      BY <1>8, <2>3 DEF DeliverOk, Continued
    <3>2. /\ Continued \in Job /\ Continued.note = flight.job.note
          /\ Continued.channel = flight.job.channel /\ Continued # flight.job
      BY <2>1, <2>3, ContinuedType
    <3>3. CASE flight.job.note = m
      <4>1. JobsOf(m)' = (JobsOf(m) \ {flight.job}) \cup {Continued}
        BY <2>1, <3>1, <3>2, <3>3 DEF JobsBelong
      <4>2. flight.job \in JobsOf(m)
        BY <2>1, <3>3
      <4> QED
        BY <1>8, <2>3, <3>1, <3>2, <3>3, <4>1, <4>2 DEF Moved
    <3>4. CASE flight.job.note # m
      <4>1. JobsOf(m)' = JobsOf(m)
        BY <2>1, <3>1, <3>2, <3>4
      <4> QED
        BY <3>1, <4>1 DEF Unmoved
    <3> QED
      BY <3>3, <3>4
  <2> QED
    BY <2>2, <2>3
<1> QED
  BY <1>1, <1>2, <1>3, <1>4, <1>5, <1>7, <1>8 DEF DeliveryStep

Emptied(m) == JobsOf(m)' = {} /\ outcomes'[m] = NoOutcome

\* The detector's jobs of a message it forwards: one for each channel there was room for.
Queued(m) ==
  \E added \in SUBSET [note : {m}, channel : settings.targets, sent : {0}] :
    /\ queuedTimes[m] = 0 /\ queuedTimes'[m] = 1 /\ wanted'[m] = settings.targets
    /\ JobsOf(m) = {} /\ JobsOf(m)' = added
    /\ outcomes'[m] = IF added = {} THEN NoOutcome
                      ELSE [pending |-> Cardinality(added),
                            failed |-> Cardinality(added) < Cardinality(settings.targets)]

LEMMA PollScanJobs ==
  ASSUME InboxType, QueueType, HistoryType, JobsBelong, ForwardedIsSeen, PollScan, NEW m \in Messages
  PROVE  (m \in New /\ Queued(m)) \/ (m \notin New /\ Unmoved(m))
<1>1. PICK added \in Accepted(Wanted(New)) :
        /\ queue' = queue \cup added
        /\ outcomes' = [q \in Messages |-> IF q \in New THEN OutcomeOf(q, added) ELSE outcomes[q]]
  BY DEF PollScan
<1>2. added \subseteq Wanted(New) /\ flight' = flight
  BY PollScanFrame DEF Accepted
<1>3. \A j \in added : j.note \in New /\ j.channel \in settings.targets /\ j.sent = 0
                       /\ j = [note |-> j.note, channel |-> j.channel, sent |-> 0]
  BY <1>2 DEF Wanted
<1> DEFINE mine == {j \in added : j.note = m}
<1>4. CASE m \in New
  <2>1. queuedTimes[m] = 0
    BY <1>4, PollScanDoes, IsNew DEF HistoryType
  <2>2. JobsOf(m) = {}
    BY <2>1 DEF JobsBelong
  <2>3. JobsOf(m)' = mine
    BY <1>1, <1>2, <2>2 DEF JobsOf
  <2>4. mine \in SUBSET [note : {m}, channel : settings.targets, sent : {0}]
    BY <1>3
  <2>5. outcomes'[m] = IF mine = {} THEN NoOutcome
                       ELSE [pending |-> Cardinality(mine),
                             failed |-> Cardinality(mine) < Cardinality(settings.targets)]
    BY <1>1, <1>4 DEF OutcomeOf
  <2>6. queuedTimes'[m] = 1 /\ wanted'[m] = settings.targets
    BY <1>4, <2>1, PollScanDoes
  <2> QED
    BY <1>4, <2>1, <2>2, <2>3, <2>4, <2>5, <2>6 DEF Queued
<1>5. CASE m \notin New
  <2>1. JobsOf(m)' = JobsOf(m)
    BY <1>1, <1>2, <1>3, <1>5 DEF JobsOf
  <2> QED
    BY <1>1, <1>5, <2>1 DEF Unmoved
<1> QED
  BY <1>4, <1>5

SameSwitches ==
  settings'.forward = settings.forward /\ settings'.sms = settings.sms /\ settings'.targets = settings.targets

LEMMA SaveApplyJobs ==
  ASSUME QueueType, SaveApply, NEW m \in Messages
  PROVE  Emptied(m) \/ (SameSwitches /\ Unmoved(m))
<1>1. CASE Reset(settings, saver.new)
  <2>1. queue' = {} /\ outcomes' = [q \in Messages |-> NoOutcome] /\ flight' = [flight EXCEPT !.stale = TRUE]
    BY <1>1 DEF SaveApply, Apply
  <2>2. flight'.stale
    BY <2>1 DEF QueueType
  <2>3. JobsOf(m)' = {}
    BY <2>1, <2>2 DEF JobsOf
  <2> QED
    BY <2>1, <2>3 DEF Emptied
<1>2. CASE ~Reset(settings, saver.new)
  <2>1. /\ queue' \in {queue, {j \in queue : j.note \in Messages}}
        /\ UNCHANGED <<outcomes, flight>> /\ settings' = saver.new
    BY <1>2 DEF SaveApply, Apply
  <2>2. JobsOf(m)' = JobsOf(m)
    BY <2>1 DEF JobsOf
  <2>3. SameSwitches
    BY <1>2, <2>1 DEF SameSwitches, Reset
  <2> QED
    BY <2>1, <2>2, <2>3 DEF Unmoved
<1> QED
  BY <1>1, <1>2

LEMMA RestartJobs ==
  ASSUME Restart, NEW m \in Messages PROVE Emptied(m)
<1>1. queue' = {} /\ outcomes' = [q \in Messages |-> NoOutcome] /\ flight'.job = NoJob
  BY DEF Restart, NoFlight
<1>2. JobsOf(m)' = {}
  BY <1>1 DEF JobsOf
<1> QED
  BY <1>1, <1>2 DEF Emptied

LEMMA QuietJobs ==
  ASSUME SettingsStep \/ InboxStep \/ SweepStep \/ UNCHANGED vars, NEW m \in Messages
  PROVE  Unmoved(m)
<1>1. UNCHANGED <<queue, flight, outcomes>>
  BY SettingsFrame, InboxFrame, SweepFrame, VarsFrame
<1> QED
  BY <1>1 DEF Unmoved, JobsOf

-----------------------------------------------------------------------------
(* The invariants of the jobs. *)

\* A message's jobs stay of the channels it is to go to.
LEMMA StepJobsBelong ==
  ASSUME InboxType, QueueType, OutcomesType, HistoryType, PollIsOn, ForwardedIsSeen, JobsBelong,
         [Next]_vars
  PROVE  JobsBelong'
<1> DEFINE FlightIsOut == flight.job # NoJob /\ ~flight.stale => flight.job \notin queue
           Belongs(m) == \A j \in JobsOf(m) :
             /\ queuedTimes[m] > 0
             /\ settings.forward /\ settings.sms /\ j.channel \in settings.targets
             /\ j.channel \in wanted[m]
             /\ \A k \in JobsOf(m) : k.channel = j.channel => k = j
<1> HIDE DEF FlightIsOut
<1>0. FlightIsOut /\ \A m \in Messages : Belongs(m)
  BY DEF JobsBelong, FlightIsOut
<1>1. FlightIsOut'
  <2> USE DEF FlightIsOut
  <2>1. ASSUME flight' = flight, queue' \subseteq queue PROVE FlightIsOut'
    BY <1>0, <2>1
  <2>2. ASSUME flight' = NoFlight PROVE FlightIsOut'
    BY <2>2 DEF NoFlight
  <2>3. CASE SettingsStep \/ InboxStep \/ SweepStep \/ UNCHANGED vars
    BY <2>1, <2>3, SettingsFrame, InboxFrame, SweepFrame, VarsFrame
  <2>4. CASE SaveApply
    <3>1. CASE flight' = [flight EXCEPT !.stale = TRUE]
      BY <3>1 DEF QueueType
    <3>2. CASE flight' = flight /\ queue' \subseteq queue
      BY <2>1, <3>2
    <3> QED
      BY <2>4, <3>1, <3>2 DEF SaveApply, Apply
  <2>5. CASE PollScan
    <3> SUFFICES ASSUME flight.job # NoJob, ~flight.stale, flight.job \in queue' PROVE FALSE
      BY <2>5, PollScanFrame
    <3>1. PICK added \in Accepted(Wanted(New)) : queue' = queue \cup added
      BY <2>5 DEF PollScan
    <3>2. flight.job \in Wanted(New)
      BY <1>0, <3>1 DEF Accepted
    <3>3. flight.job.note \in New
      BY <3>2 DEF Wanted
    <3>4. flight.job.note \in Messages /\ ~(queuedTimes[flight.job.note] > 0)
      BY <2>5, <3>3, PollScanDoes, IsNew
    <3>5. flight.job \in JobsOf(flight.job.note)
      BY DEF JobsOf
    <3> QED
      BY <1>0, <3>4, <3>5
  <2>6. ASSUME NEW o \in Outages, Notice(o) PROVE FlightIsOut'
    <3>1. PICK added \in Accepted([note : {o}, channel : settings.notify, sent : {0}]) : queue' = queue \cup added
      BY <2>6 DEF Notice
    <3>2. added \subseteq [note : {o}, channel : settings.notify, sent : {0}]
      BY DEF Accepted
    <3>3. flight' = flight /\ ~(flight.job # NoJob /\ flight.job.note = o)
      BY <2>6 DEF Notice
    <3> QED
      BY <1>0, <3>1, <3>2, <3>3
  <2>7. CASE Expire
    BY <2>1, <2>7 DEF Expire
  <2>8. CASE DeliverStart
    BY <2>8 DEF DeliverStart
  <2>9. CASE DeliverStale \/ DeliverOk \/ DeliverRetry \/ DeliverFails \/ Restart
    BY <2>2, <2>9 DEF DeliverStale, DeliverOk, DeliverRetry, DeliverFails, Restart
  <2> QED
    BY <2>3, <2>4, <2>5, <2>6, <2>7, <2>8, <2>9, StepKinds DEF DeliveryStep
<1>2. ASSUME NEW m \in Messages PROVE Belongs(m)'
  <2>1. ASSUME JobsOf(m)' \subseteq JobsOf(m), SameSwitches, wanted'[m] = wanted[m],
               queuedTimes'[m] = queuedTimes[m]
        PROVE  Belongs(m)'
    BY <1>0, <2>1 DEF SameSwitches
  <2>2. ASSUME JobsOf(m)' = {} PROVE Belongs(m)'
    BY <2>2
  <2>3. ASSUME settings' = settings PROVE SameSwitches
    BY <2>3 DEF SameSwitches
  <2>4. CASE SettingsStep \/ InboxStep \/ SweepStep \/ UNCHANGED vars
    BY <2>1, <2>3, <2>4, QuietJobs, SettingsFrame, InboxFrame, SweepFrame, VarsFrame DEF Unmoved
  <2>5. CASE SaveApply
    <3>1. UNCHANGED <<wanted, queuedTimes>>
      BY <2>5 DEF SaveApply
    <3> QED
      BY <2>1, <2>2, <2>5, <3>1, SaveApplyJobs DEF Emptied, Unmoved
  <2>6. CASE Restart
    BY <2>2, <2>6, RestartJobs DEF Emptied
  <2>7. CASE PollScan
    <3>1. CASE m \notin New /\ Unmoved(m)
      BY <2>1, <2>3, <2>7, <3>1, PollScanDoes, PollScanFrame DEF Unmoved
    <3>2. CASE m \in New /\ Queued(m)
      <4>1. PICK added \in SUBSET [note : {m}, channel : settings.targets, sent : {0}] :
              /\ queuedTimes'[m] = 1 /\ wanted'[m] = settings.targets /\ JobsOf(m)' = added
        BY <3>2 DEF Queued
      <4>2. \A j \in added : j.channel \in settings.targets /\ j = [note |-> m, channel |-> j.channel, sent |-> 0]
        OBVIOUS
      <4>3. settings' = settings /\ settings.forward /\ settings.sms
        BY <2>7, PollScanFrame, PollScanDoes DEF PollIsOn
      <4> QED
        BY <4>1, <4>2, <4>3
    <3> QED
      BY <2>7, <3>1, <3>2, PollScanJobs
  <2>8. CASE DeliveryStep
    <3>1. SameSwitches /\ wanted' = wanted /\ queuedTimes' = queuedTimes
      BY <2>3, <2>8, DeliveryFrame
    <3>2. CASE Moved(m)
      BY <1>0, <3>1, <3>2 DEF Moved, SameSwitches
    <3>3. ASSUME NEW done, NEW ok, Struck(m, done, ok) PROVE Belongs(m)'
      <4>1. JobsOf(m)' \subseteq JobsOf(m)
        BY <3>3 DEF Struck
      <4> QED
        BY <2>1, <3>1, <4>1
    <3>4. CASE Unmoved(m)
      BY <2>1, <3>1, <3>4 DEF Unmoved
    <3> QED
      BY <2>8, <3>2, <3>3, <3>4, DeliveryJobs
  <2> QED
    BY <2>4, <2>5, <2>6, <2>7, <2>8, StepKinds
<1>3. FlightIsOut' /\ \A m \in Messages : Belongs(m)'
  BY <1>1, <1>2
<1> QED
  BY <1>3 DEF JobsBelong, FlightIsOut

\* The count of a message after a step is the number of its jobs.
LEMMA CountStep ==
  ASSUME SettingsType, InboxType, QueueType, IsFiniteSet(queue), OutcomesType, HistoryType, ForwardedIsSeen,
         JobsBelong, PendingIsTrue, [Next]_vars, NEW m \in Messages
  PROVE  /\ outcomes'[m] \in [pending : Nat, failed : BOOLEAN]
         /\ outcomes'[m].pending = Cardinality(JobsOf(m)')
<1> DEFINE Goal == /\ outcomes'[m] \in [pending : Nat, failed : BOOLEAN]
                   /\ outcomes'[m].pending = Cardinality(JobsOf(m)')
<1>0. /\ outcomes[m] \in [pending : Nat, failed : BOOLEAN]
      /\ outcomes[m].pending = Cardinality(JobsOf(m))
      /\ IsFiniteSet(JobsOf(m)) /\ Cardinality({}) = 0
  BY JobsFinite, FS_EmptySet DEF OutcomesType, Outcome, PendingIsTrue
<1>1. ASSUME Unmoved(m) PROVE Goal
  BY <1>0, <1>1 DEF Unmoved
<1>2. ASSUME Emptied(m) PROVE Goal
  BY <1>0, <1>2 DEF Emptied, NoOutcome
<1>3. ASSUME Moved(m) PROVE Goal
  <2>1. /\ flight.job \in JobsOf(m) /\ outcomes'[m] = outcomes[m]
        /\ JobsOf(m)' = (JobsOf(m) \ {flight.job}) \cup {Continued}
    BY <1>3 DEF Moved
  <2>2. Continued \notin JobsOf(m) \ {flight.job}
    BY <1>3 DEF Moved, JobsBelong
  <2>3. /\ IsFiniteSet(JobsOf(m) \ {flight.job})
        /\ Cardinality(JobsOf(m) \ {flight.job}) = Cardinality(JobsOf(m)) - 1
    BY <1>0, <2>1, FS_RemoveElement
  <2>4. Cardinality(JobsOf(m)') = Cardinality(JobsOf(m)) - 1 + 1
    BY <2>1, <2>2, <2>3, FS_AddElement
  <2> QED
    BY <1>0, <2>1, <2>4
<1>4. ASSUME NEW done, NEW ok \in BOOLEAN, Struck(m, done, ok) PROVE Goal
  <2> DEFINE those == {j \in done : j.note = m}
             n == Cardinality(those)
  <2>1. /\ those \subseteq JobsOf(m) /\ JobsOf(m)' = JobsOf(m) \ those
        /\ outcomes'[m] =
             IF outcomes[m].pending = 0 \/ outcomes[m].pending = n THEN NoOutcome
             ELSE [pending |-> outcomes[m].pending - n, failed |-> outcomes[m].failed \/ (n > 0 /\ ~ok)]
    BY <1>4 DEF Struck
  <2>2. IsFiniteSet(those) /\ n \in Nat /\ n <= Cardinality(JobsOf(m))
    BY <1>0, <2>1, FS_Subset, FS_CardinalityType
  <2>3. JobsOf(m) \cap those = those
    BY <2>1
  <2>4. Cardinality(JobsOf(m)') = Cardinality(JobsOf(m)) - n
    <3> HIDE DEF those
    <3>1. Cardinality(JobsOf(m) \ those) = Cardinality(JobsOf(m)) - Cardinality(JobsOf(m) \cap those)
      BY <1>0, FS_Difference
    <3> QED
      BY <2>1, <2>3, <3>1
  <2> HIDE DEF n
  <2>5. CASE outcomes[m].pending = 0 \/ outcomes[m].pending = n
    <3>1. outcomes'[m] = [pending |-> 0, failed |-> FALSE]
      BY <2>1, <2>5 DEF NoOutcome
    <3>2. Cardinality(JobsOf(m)') = 0
      BY <1>0, <2>2, <2>4, <2>5
    <3> QED
      BY <3>1, <3>2
  <2>6. CASE ~(outcomes[m].pending = 0 \/ outcomes[m].pending = n)
    <3>1. outcomes[m].pending - n \in Nat /\ (outcomes[m].failed \/ (n > 0 /\ ~ok)) \in BOOLEAN
      BY <1>0, <2>2
    <3>2. outcomes'[m] = [pending |-> outcomes[m].pending - n, failed |-> outcomes[m].failed \/ (n > 0 /\ ~ok)]
      BY <2>1, <2>6
    <3>3. outcomes'[m].pending = outcomes[m].pending - n
      BY <3>2
    <3>4. outcomes'[m].pending = Cardinality(JobsOf(m)')
      BY <1>0, <2>4, <3>3
    <3> QED
      BY <3>1, <3>2, <3>4
  <2> QED
    BY <2>5, <2>6
<1>5. ASSUME PollScan, Queued(m) PROVE Goal
  <2>1. PICK added \in SUBSET [note : {m}, channel : settings.targets, sent : {0}] :
          /\ JobsOf(m)' = added
          /\ outcomes'[m] = IF added = {} THEN NoOutcome
                            ELSE [pending |-> Cardinality(added),
                                  failed |-> Cardinality(added) < Cardinality(settings.targets)]
    BY <1>5 DEF Queued
  <2>2. CASE added = {}
    BY <1>0, <2>1, <2>2 DEF NoOutcome
  <2>3. CASE added # {}
    <3>1. outcomes'[m] = [pending |-> Cardinality(added), failed |-> Cardinality(added) < Cardinality(settings.targets)]
      BY <2>1, <2>3
    <3>2. IsFiniteSet(added)
      BY <1>5, ChoiceType, OneJobEach, FS_Subset
    <3>3. Cardinality(added) \in Nat
      BY <3>2, FS_CardinalityType
    <3>4. (Cardinality(added) < Cardinality(settings.targets)) \in BOOLEAN
      OBVIOUS
    <3>5. outcomes'[m] \in [pending : Nat, failed : BOOLEAN]
      BY <3>1, <3>3, <3>4
    <3>6. outcomes'[m].pending = Cardinality(added)
      BY <3>1
    <3> QED
      BY <2>1, <3>5, <3>6
  <2> QED
    BY <2>2, <2>3
<1> QED
  BY <1>1, <1>2, <1>3, <1>4, <1>5, StepKinds, QuietJobs, SaveApplyJobs, RestartJobs, PollScanJobs,
     DeliveryJobs

LEMMA StepPendingIsTrue ==
  ASSUME SettingsType, InboxType, QueueType, IsFiniteSet(queue), OutcomesType, HistoryType,
         ForwardedIsSeen, JobsBelong, PendingIsTrue, [Next]_vars
  PROVE  PendingIsTrue'
BY CountStep DEF PendingIsTrue

\* No message counts more channels than there are.
LEMMA StepOutcomesType ==
  ASSUME SettingsType, InboxType, QueueType, IsFiniteSet(queue), OutcomesType, HistoryType,
         ForwardedIsSeen, JobsBelong, PendingIsTrue, [Next]_vars, QueueType', JobsBelong'
  PROVE  OutcomesType'
<1>1. outcomes' = [m \in Messages |-> outcomes'[m]]
  <2>1. outcomes = [m \in Messages |-> outcomes[m]]
    BY DEF OutcomesType
  <2>2. ASSUME NEW done, NEW ok, Completed(done, ok) PROVE outcomes' = [m \in Messages |-> outcomes'[m]]
    BY <2>2 DEF Completed
  <2>3. CASE SettingsStep \/ InboxStep \/ SweepStep \/ UNCHANGED vars
    BY <2>1, <2>3, SettingsFrame, InboxFrame, SweepFrame, VarsFrame
  <2>4. CASE SaveApply
    BY <2>1, <2>4 DEF SaveApply, Apply
  <2>5. CASE PollScan
    BY <2>5 DEF PollScan
  <2>6. CASE Restart
    BY <2>6 DEF Restart
  <2>7. CASE \E o \in Outages : Notice(o)
    BY <2>1, <2>7 DEF Notice
  <2>8. CASE Expire
    BY <2>2, <2>8 DEF Expire
  <2>9. CASE DeliverStart \/ DeliverStale \/ DeliverRetry
    BY <2>1, <2>9 DEF DeliverStart, DeliverStale, DeliverRetry, jobs
  <2>10. CASE DeliverOk
    BY <2>1, <2>2, <2>10 DEF DeliverOk
  <2>11. CASE DeliverFails
    BY <2>2, <2>11 DEF DeliverFails
  <2> QED
    BY <2>3, <2>4, <2>5, <2>6, <2>7, <2>8, <2>9, <2>10, <2>11, StepKinds DEF DeliveryStep
<1>2. ASSUME NEW m \in Messages PROVE outcomes'[m] \in Outcome
  <2>1. outcomes'[m] \in [pending : Nat, failed : BOOLEAN] /\ outcomes'[m].pending = Cardinality(JobsOf(m)')
    BY CountStep
  <2>2. \A j \in JobsOf(m)' : j.channel \in Channels
    BY DEF JobsOf, QueueType, Job
  <2>3. \A j, k \in JobsOf(m)' : j.channel = k.channel => j = k
    BY DEF JobsBelong
  <2>4. Cardinality(JobsOf(m)') <= Cardinality(Channels)
    BY <2>2, <2>3, FiniteAssumption, AtMostChannels
  <2>5. Cardinality(Channels) \in Nat
    BY FiniteAssumption, FS_CardinalityType
  <2>6. outcomes'[m].pending \in 0..Cardinality(Channels)
    BY <2>1, <2>4, <2>5
  <2> QED
    BY <2>1, <2>6 DEF Outcome
<1> QED
  BY <1>1, <1>2 DEF OutcomesType

\* A channel is dropped only where it is counted as failed.
LEMMA StepNothingIsDropped ==
  ASSUME SettingsType, InboxType, QueueType, IsFiniteSet(queue), OutcomesType, HistoryType,
         ForwardedIsSeen, JobsBelong, PendingIsTrue, NothingIsDropped, [Next]_vars
  PROVE  NothingIsDropped'
<1> DEFINE Covered(m) == wanted[m] \subseteq delivered[m] \cup {j.channel : j \in JobsOf(m)}
           Goal(m) == outcomes'[m].pending > 0 /\ ~outcomes'[m].failed => Covered(m)'
<1> SUFFICES ASSUME NEW m \in Messages PROVE Goal(m)
  BY DEF NothingIsDropped
<1>0. /\ outcomes[m].pending > 0 /\ ~outcomes[m].failed => Covered(m)
      /\ outcomes[m] \in Outcome /\ outcomes[m].pending = Cardinality(JobsOf(m))
  BY DEF NothingIsDropped, OutcomesType, PendingIsTrue
<1>1. ASSUME Unmoved(m), wanted'[m] = wanted[m], delivered[m] \subseteq delivered'[m] PROVE Goal(m)
  BY <1>0, <1>1 DEF Unmoved
<1>2. ASSUME Emptied(m) PROVE Goal(m)
  BY <1>2 DEF Emptied, NoOutcome
<1>3. CASE SettingsStep \/ InboxStep \/ SweepStep \/ UNCHANGED vars
  BY <1>1, <1>3, QuietJobs, SettingsFrame, InboxFrame, SweepFrame, VarsFrame
<1>4. CASE SaveApply
  <2>1. UNCHANGED <<wanted, delivered>>
    BY <1>4 DEF SaveApply
  <2> QED
    BY <1>1, <1>2, <1>4, <2>1, SaveApplyJobs
<1>5. CASE Restart
  BY <1>2, <1>5, RestartJobs
<1>6. CASE PollScan
  <2>1. CASE m \notin New /\ Unmoved(m)
    BY <1>1, <1>6, <2>1, PollScanDoes, PollScanFrame
  <2>2. CASE Queued(m)
    <3> DEFINE S == [note : {m}, channel : settings.targets, sent : {0}]
    <3>1. PICK added \in SUBSET S :
            /\ wanted'[m] = settings.targets /\ JobsOf(m)' = added
            /\ outcomes'[m] = IF added = {} THEN NoOutcome
                              ELSE [pending |-> Cardinality(added),
                                    failed |-> Cardinality(added) < Cardinality(settings.targets)]
      BY <2>2 DEF Queued
    <3>2. SUFFICES ASSUME outcomes'[m].pending > 0, ~outcomes'[m].failed PROVE Covered(m)'
      OBVIOUS
    <3>3. added # {}
      BY <3>1, <3>2 DEF NoOutcome
    <3>4. ~(Cardinality(added) < Cardinality(settings.targets))
      <4>1. outcomes'[m] = [pending |-> Cardinality(added),
                            failed |-> Cardinality(added) < Cardinality(settings.targets)]
        BY <3>1, <3>3
      <4>2. outcomes'[m].failed = (Cardinality(added) < Cardinality(settings.targets))
        BY <4>1
      <4> QED
        BY <3>2, <4>2
    <3>5. IsFiniteSet(S) /\ Cardinality(S) = Cardinality(settings.targets)
      BY ChoiceType, OneJobEach
    <3> HIDE DEF S
    <3>6. IsFiniteSet(added) /\ Cardinality(added) <= Cardinality(S) /\ (Cardinality(S) = Cardinality(added) => S = added)
      BY <3>5, FS_Subset
    <3>7. Cardinality(added) \in Nat /\ Cardinality(S) \in Nat
      BY <3>5, <3>6, FS_CardinalityType
    <3>8. added = S
      BY <3>4, <3>5, <3>6, <3>7
    <3> USE DEF S
    <3>9. ASSUME NEW c \in settings.targets PROVE c \in {j.channel : j \in S}
      <4>1. [note |-> m, channel |-> c, sent |-> 0] \in S
        OBVIOUS
      <4> QED
        BY <4>1
    <3> QED
      BY <3>1, <3>8, <3>9
  <2> QED
    BY <1>6, <2>1, <2>2, PollScanJobs
<1>7. CASE DeliveryStep
  <2>0. wanted' = wanted /\ delivered[m] \subseteq delivered'[m]
    BY <1>7, DeliveryFrame, DeliveredGrows
  <2>1. CASE Unmoved(m)
    BY <1>1, <2>0, <2>1
  <2>2. CASE Moved(m)
    <3>1. /\ outcomes'[m] = outcomes[m] /\ Continued.channel = flight.job.channel
          /\ JobsOf(m)' = (JobsOf(m) \ {flight.job}) \cup {Continued}
      BY <2>2 DEF Moved
    <3>2. \A j \in JobsOf(m) : \E k \in JobsOf(m)' : k.channel = j.channel
      BY <3>1
    <3> QED
      BY <1>0, <2>0, <3>1, <3>2
  <2>3. ASSUME NEW done, NEW ok \in BOOLEAN, Struck(m, done, ok),
               ok => Last /\ DeliverOk /\ done = {flight.job}
        PROVE  Goal(m)
    <3> DEFINE those == {j \in done : j.note = m}
               n == Cardinality(those)
    <3>1. /\ those \subseteq JobsOf(m) /\ JobsOf(m)' = JobsOf(m) \ those
          /\ outcomes'[m] =
               IF outcomes[m].pending = 0 \/ outcomes[m].pending = n THEN NoOutcome
               ELSE [pending |-> outcomes[m].pending - n, failed |-> outcomes[m].failed \/ (n > 0 /\ ~ok)]
      BY <2>3 DEF Struck
    <3>2. SUFFICES ASSUME outcomes'[m].pending > 0, ~outcomes'[m].failed PROVE Covered(m)'
      OBVIOUS
    <3>3. IsFiniteSet(those) /\ n \in Nat /\ (n = 0 <=> those = {})
      <4>1. IsFiniteSet(JobsOf(m))
        BY JobsFinite
      <4>2. IsFiniteSet(those)
        BY <3>1, <4>1, FS_Subset
      <4> QED
        BY <4>2, FS_CardinalityType, FS_EmptySet
    <3> HIDE DEF n
    <3>4. ~(outcomes[m].pending = 0 \/ outcomes[m].pending = n)
      BY <3>1, <3>2 DEF NoOutcome
    <3>5. outcomes'[m].failed = (outcomes[m].failed \/ (n > 0 /\ ~ok))
      BY <3>1, <3>4
    <3>6. outcomes[m].pending > 0 /\ ~outcomes[m].failed /\ (n = 0 \/ ok)
      <4>1. ~outcomes[m].failed /\ ~(n > 0 /\ ~ok)
        BY <3>2, <3>5
      <4>2. outcomes[m].pending \in Nat
        BY <1>0 DEF Outcome
      <4>3. outcomes[m].pending > 0
        BY <3>4, <4>2
      <4>4. n = 0 \/ n > 0
        BY <3>3
      <4> QED
        BY <4>1, <4>3, <4>4
    <3>7. Covered(m)
      BY <1>0, <3>6
    <3>8. CASE n = 0
      BY <2>0, <3>1, <3>3, <3>7, <3>8
    <3>9. CASE ok /\ n # 0
      <4>1. /\ Last /\ DeliverOk /\ those = {flight.job} /\ flight.job.note = m
        BY <2>3, <3>3, <3>9
      <4>2. flight.job.channel \in delivered'[m]
        BY <4>1 DEF DeliverOk, Confirmed, HistoryType
      <4> QED
        BY <2>0, <3>1, <3>7, <4>1, <4>2
    <3> QED
      BY <3>6, <3>8, <3>9
  <2> QED
    BY <1>7, <2>1, <2>2, <2>3, DeliveryJobs
<1> QED
  BY <1>3, <1>4, <1>5, <1>6, <1>7, StepKinds

-----------------------------------------------------------------------------
(* What is planned to be deleted has arrived. *)

\* The delivery that plans a message's deletion was the last one missing.
LEMMA FinishedHasArrived ==
  ASSUME QueueType, IsFiniteSet(queue), OutcomesType, HistoryType, ForwardedOnce, JobsBelong,
         PendingIsTrue, NothingIsDropped, DeliverOk, NEW m \in Messages, Finishes(m)
  PROVE  Arrived(m)'
<1>1. /\ flight.job # NoJob /\ ~flight.stale /\ Last
      /\ outcomes[m].pending > 0 /\ ~outcomes[m].failed
      /\ outcomes[m].pending = Cardinality({j \in {flight.job} : j.note = m})
  BY DEF Finishes, Stale
<1>2. flight.job.note = m
  <2>1. SUFFICES ASSUME flight.job.note # m PROVE FALSE
    OBVIOUS
  <2>2. {j \in {flight.job} : j.note = m} = {}
    BY <2>1
  <2> QED
    BY <1>1, <2>2, FS_EmptySet
<1>3. outcomes[m].pending = 1
  <2>1. {j \in {flight.job} : j.note = m} = {flight.job}
    BY <1>2
  <2> QED
    BY <1>1, <2>1, FS_Singleton
<1>4. JobsOf(m) = {flight.job}
  <2>1. flight.job \in JobsOf(m)
    BY <1>1, <1>2 DEF JobsOf
  <2>2. IsFiniteSet(JobsOf(m)) /\ Cardinality(JobsOf(m)) = 1
    BY <1>3, JobsFinite DEF PendingIsTrue
  <2>3. \E x : JobsOf(m) = {x}
    BY <2>2, FS_Singleton
  <2> QED
    BY <2>1, <2>3
<1>5. queuedTimes[m] > 0 /\ flight.job.channel \in wanted[m]
  BY <1>4 DEF JobsBelong
<1>6. queuedTimes[m] = 1
  BY <1>5 DEF ForwardedOnce, HistoryType
<1>7. wanted[m] \subseteq delivered[m] \cup {flight.job.channel}
  BY <1>1, <1>4 DEF NothingIsDropped
<1>8. delivered'[m] = delivered[m] \cup {flight.job.channel}
  BY <1>1, <1>2 DEF DeliverOk, Confirmed, HistoryType
<1>9. wanted' = wanted /\ queuedTimes' = queuedTimes
  BY DEF DeliverOk
<1> QED
  BY <1>5, <1>6, <1>7, <1>8, <1>9 DEF Arrived

\* What arrived has arrived.
LEMMA ArrivedStays ==
  ASSUME InboxType, QueueType, HistoryType, ForwardedIsSeen, [Next]_vars, NEW m \in Messages, Arrived(m)
  PROVE  Arrived(m)'
<1> USE DEF Arrived
<1>1. CASE SettingsStep \/ InboxStep \/ SweepStep \/ UNCHANGED vars
  BY <1>1, SettingsFrame, InboxFrame, SweepFrame, VarsFrame
<1>2. CASE SaveApply \/ Restart
  BY <1>2 DEF SaveApply, Restart, history
<1>3. CASE PollScan
  <2>1. m \notin New
    BY <1>3, PollScanDoes, IsNew
  <2> QED
    BY <1>3, <2>1, PollScanDoes, PollScanFrame
<1>4. CASE DeliveryStep
  <2>1. wanted' = wanted /\ queuedTimes' = queuedTimes /\ delivered[m] \subseteq delivered'[m]
    BY <1>4, DeliveryFrame, DeliveredGrows
  <2> QED
    BY <2>1
<1> QED
  BY <1>1, <1>2, <1>3, <1>4, StepKinds

Involved(m) == receipts[m] # {} \/ receiptsFile[m] # {} \/ sweep.saving[m] # {} \/ m \in deleted

LEMMA StepPlannedHasArrived ==
  ASSUME InboxType, QueueType, IsFiniteSet(queue), OutcomesType, PlansType, SweepType, HistoryType,
         DueIsPlanned, ForwardedOnce, ForwardedIsSeen, JobsBelong, PendingIsTrue, NothingIsDropped,
         PlannedHasArrived, [Next]_vars
  PROVE  PlannedHasArrived'
<1> SUFFICES ASSUME NEW m \in Messages PROVE Involved(m)' => Arrived(m)'
  BY DEF PlannedHasArrived, Involved
<1> DEFINE Goal == Involved(m)' => Arrived(m)'
<1>0. Involved(m) => Arrived(m)'
  BY ArrivedStays DEF PlannedHasArrived, Involved
<1> USE DEF Involved
<1>1. ASSUME receipts'[m] \in {receipts[m], {}}, receiptsFile'[m] = receiptsFile[m],
             sweep'.saving[m] = sweep.saving[m], deleted' = deleted
      PROVE  Goal
  BY <1>0, <1>1
<1>2. CASE SettingsStep \/ InboxStep \/ PollScan \/ UNCHANGED vars
  BY <1>1, <1>2, SettingsFrame, InboxFrame, PollScanFrame, VarsFrame
<1>3. CASE SaveApply
  <2>1. deleted' = deleted /\ receiptsFile' = receiptsFile
    BY <1>3 DEF SaveApply
  <2>2. sweep'.saving = sweep.saving /\ receipts'[m] \in {receipts[m], {}}
    BY <1>3, SaveApplyPlans, StaleOnly, NoPlans
  <2> QED
    BY <1>1, <2>1, <2>2
<1>4. CASE DeliveryStep
  <2>1. deleted' = deleted /\ receiptsFile' = receiptsFile
    BY <1>4, DeliveryFrame
  <2>2. CASE UNCHANGED <<receipts, unsaved, sweep>>
    BY <1>1, <2>1, <2>2
  <2>3. ASSUME DeliverOk, NEW q \in Messages, Finishes(q), Plan(q) PROVE Goal
    <3>1. sweep'.saving = sweep.saving
      BY <2>3, StaleOnly DEF Plan
    <3>2. CASE q = m
      BY <2>3, <3>2, FinishedHasArrived
    <3>3. CASE q # m
      <4>1. receipts'[m] = receipts[m]
        BY <2>3, <3>3 DEF Plan, PlansType, Plans
      <4> QED
        BY <1>1, <2>1, <3>1, <4>1
    <3> QED
      BY <3>2, <3>3
  <2> QED
    BY <1>4, <2>2, <2>3, DeliveryPlans
<1>5. CASE SweepStep
  <2> USE DEF SweepType, SweepState
  <2>1. CASE Flush
    <3>1. sweep'.saving \in {sweep.saving, receipts}
      BY <2>1 DEF Flush
    <3>2. UNCHANGED <<receipts, receiptsFile, deleted>>
      BY <2>1 DEF Flush, plans, history
    <3> QED
      BY <1>0, <3>1, <3>2
  <2>2. CASE FlushWritten
    <3>1. receiptsFile' \in {receiptsFile, sweep.saving} /\ receipts' = receipts /\ deleted' = deleted
      BY <2>2 DEF FlushWritten, history
    <3>2. sweep'.saving = NoReceipts
      BY <2>2 DEF FlushWritten
    <3> QED
      BY <1>0, <3>1, <3>2, NoPlans
  <2>3. CASE SweepTick \/ SweepRead
    <3>1. sweep'.saving = sweep.saving /\ UNCHANGED <<receipts, receiptsFile, deleted>>
      BY <2>3 DEF SweepTick, SweepRead, plans, history
    <3> QED
      BY <1>1, <3>1
  <2>4. CASE SweepAcquire \/ SweepDue
    <3>1. sweep'.saving = sweep.saving /\ UNCHANGED <<receipts, receiptsFile, deleted>>
      BY <2>4 DEF SweepAcquire, SweepDue, plans, history
    <3> QED
      BY <1>1, <3>1
  <2>5. CASE SweepPick
    <3>1. sweep'.saving = sweep.saving /\ UNCHANGED <<receipts, receiptsFile, deleted>>
      BY <2>5 DEF SweepPick, plans, history
    <3> QED
      BY <1>1, <3>1
  <2>6. CASE SweepDelete
    <3>1. /\ sweep'.saving = sweep.saving /\ UNCHANGED <<receipts, receiptsFile>>
          /\ deleted' \subseteq deleted \cup {sweep.now} /\ sweep.pc = "delete"
      BY <2>6 DEF SweepDelete, plans
    <3>2. receipts[sweep.now] # {}
      BY <3>1 DEF DueIsPlanned, Receipts
    <3> QED
      BY <1>0, <3>1, <3>2
  <2>7. CASE SweepDeleted
    <3>1. /\ receipts' = [receipts EXCEPT ![sweep.now] = sweep.remaining]
          /\ sweep'.saving = sweep.saving /\ UNCHANGED <<receiptsFile, deleted>> /\ sweep.pc = "delete"
      BY <2>7 DEF SweepDeleted, history
    <3>2. receipts[sweep.now] # {}
      BY <3>1 DEF DueIsPlanned, Receipts
    <3>3. receipts'[m] # {} => receipts[m] # {}
      BY <3>1, <3>2 DEF PlansType, Plans
    <3> QED
      BY <1>0, <3>1, <3>3
  <2>8. CASE SweepReleases
    <3>1. sweep'.saving = NoReceipts /\ UNCHANGED <<receipts, receiptsFile, deleted>>
      BY <2>8 DEF SweepReleases, IdleSweep, plans, history
    <3> QED
      BY <1>0, <3>1, NoPlans
  <2> QED
    BY <1>5, <2>1, <2>2, <2>3, <2>4, <2>5, <2>6, <2>7, <2>8 DEF SweepStep
<1>6. CASE Restart
  <2>1. sweep'.saving = NoReceipts /\ receipts' = receiptsFile /\ receiptsFile' = receiptsFile /\ deleted' = deleted
    BY <1>6 DEF Restart, IdleSweep, history
  <2> QED
    BY <1>0, <2>1, NoPlans
<1> QED
  BY <1>2, <1>3, <1>4, <1>5, <1>6, StepKinds

-----------------------------------------------------------------------------
(* The theorems. *)

LEMMA InitInv == Init => IndInv
<1> SUFFICES ASSUME Init PROVE IndInv
  OBVIOUS
<1>1. /\ settings \in Choices /\ settingsFile = settings
      /\ saver = [pc |-> "idle", new |-> settings] /\ mutation = "free"
      /\ inbox = [p \in Part |-> "coming"] /\ ready = FALSE /\ seen = {}
      /\ poll = IdlePoll /\ queue = {} /\ outcomes = [m \in Messages |-> NoOutcome]
      /\ flight = NoFlight /\ receipts = NoReceipts /\ receiptsFile = NoReceipts /\ unsaved = FALSE
      /\ sweep = IdleSweep
      /\ wanted = [m \in Messages |-> {}] /\ delivered = [m \in Messages |-> {}]
      /\ queuedTimes = [m \in Messages |-> 0] /\ deleted = {} /\ cancelled = {}
  BY DEF Init, IdleSaver
<1>2. SettingsType
  BY <1>1 DEF SettingsType, SaverState
<1>3. InboxType
  BY <1>1, IdlePollType DEF InboxType
<1>4. /\ poll.pc = "idle" /\ poll.list = {} /\ flight.job = NoJob /\ sweep.pc = "idle"
      /\ sweep.saving = NoReceipts
  BY <1>1 DEF IdlePoll, NoFlight, IdleSweep
<1>5. QueueType /\ IsFiniteSet(queue)
  <2>1. Cardinality(queue) = 0 /\ IsFiniteSet(queue)
    BY <1>1, FS_EmptySet
  <2>2. flight \in [job : Job \cup {NoJob}, stale : BOOLEAN]
    BY <1>1 DEF NoFlight
  <2> QED
    BY <1>1, <1>4, <2>1, <2>2, BoundsAssumption DEF QueueType
<1>6. OutcomesType
  <2>1. NoOutcome \in Outcome
    BY FiniteAssumption, FS_CardinalityType DEF NoOutcome, Outcome
  <2> QED
    BY <1>1, <2>1 DEF OutcomesType
<1>7. PlansType /\ PlansFit
  <2>1. Receipts = {} /\ {m \in Messages : receiptsFile[m] # {}} = {}
        /\ {m \in Messages : sweep.saving[m] # {}} = {}
    BY <1>1, <1>4, NoPlans DEF Receipts
  <2> QED
    BY <1>1, <2>1, NoPlans, NoPlanFits DEF PlansType, PlansFit
<1>8. SweepType
  BY <1>1, IdleSweepType DEF SweepType
<1>9. HistoryType
  BY <1>1 DEF HistoryType
<1>10. TypeOK
  BY <1>2, <1>3, <1>5, <1>6, <1>7, <1>8, <1>9, TypeParts
<1>11. Holding /\ FileIsKnown /\ DueIsPlanned /\ PollIsOn
  BY <1>1, <1>4 DEF Holding, SweepInside, FileIsKnown, DueIsPlanned, PollIsOn
<1>12. PlannedHasArrived
  BY <1>1, <1>4, NoPlans DEF PlannedHasArrived
<1>13. ForwardedOnce /\ ForwardedIsSeen
  BY <1>1, <1>4 DEF ForwardedOnce, ForwardedIsSeen
<1>14. ASSUME NEW m \in Messages PROVE JobsOf(m) = {}
  BY <1>1, <1>4 DEF JobsOf
<1>15. JobsBelong /\ PendingIsTrue /\ NothingIsDropped
  <2>1. JobsBelong
    BY <1>4, <1>14 DEF JobsBelong
  <2>2. \A m \in Messages : outcomes[m].pending = 0
    BY <1>1 DEF NoOutcome
  <2> QED
    BY <1>14, <2>1, <2>2, FS_EmptySet DEF PendingIsTrue, NothingIsDropped
<1> QED
  BY <1>5, <1>7, <1>10, <1>11, <1>12, <1>13, <1>15 DEF IndInv

LEMMA IndInvParts ==
  IndInv => /\ SettingsType /\ InboxType /\ QueueType /\ OutcomesType /\ PlansType /\ SweepType
            /\ HistoryType /\ IsFiniteSet(queue) /\ Holding /\ FileIsKnown /\ PlansFit
            /\ DueIsPlanned /\ PlannedHasArrived /\ ForwardedOnce /\ ForwardedIsSeen
            /\ PollIsOn /\ JobsBelong /\ PendingIsTrue /\ NothingIsDropped
<1>1. IndInv => TypeOK
  BY DEF IndInv
<1> QED
  BY <1>1, TypeParts DEF IndInv

LEMMA StepInv == IndInv /\ [Next]_vars => IndInv'
<1> SUFFICES ASSUME IndInv, [Next]_vars PROVE IndInv'
  OBVIOUS
<1>1. SettingsType' /\ InboxType' /\ PlansType' /\ SweepType' /\ HistoryType'
  BY IndInvParts, StepSettingsType, StepInboxType, StepPlansType, StepSweepType, StepHistoryType
<1>2. QueueType' /\ IsFiniteSet(queue)' /\ JobsBelong' /\ PendingIsTrue' /\ NothingIsDropped'
  BY IndInvParts, StepQueueType, StepJobsBelong, StepPendingIsTrue, StepNothingIsDropped
<1>3. OutcomesType'
  BY <1>2, IndInvParts, StepOutcomesType
<1>4. TypeOK'
  BY <1>1, <1>2, <1>3 DEF TypeOK, SettingsType, InboxType, QueueType, OutcomesType, PlansType, SweepType,
     HistoryType, SaverState, PollState, Outcome, Plans, SweepPcs, SweepState
<1>5. Holding' /\ FileIsKnown' /\ PlansFit' /\ DueIsPlanned'
  BY IndInvParts, StepHolding, StepFileIsKnown, StepPlansFit, StepDueIsPlanned
<1>6. ForwardedOnce' /\ ForwardedIsSeen' /\ PollIsOn' /\ PlannedHasArrived'
  BY IndInvParts, StepForwardedOnce, StepForwardedIsSeen, StepPollIsOn, StepPlannedHasArrived
<1> QED
  BY <1>2, <1>4, <1>5, <1>6 DEF IndInv

\* The invariant of the queue, the counts, the plans and the detector holds in every state
\* of forwarding.rs and cleanup.rs as modelled.
THEOREM Invariance == Spec => []IndInv
<1>1. Init => IndInv
  BY InitInv
<1>2. IndInv /\ [Next]_vars => IndInv'
  BY StepInv
<1> QED
  BY <1>1, <1>2, PTL DEF Spec

\* Every variable stays in its type: no more jobs wait than the queue takes, besides the one
\* that is put back; no more plans are kept than the limit; no count exceeds the channels.
THEOREM TypeCorrect == Spec => []TypeOK
<1>1. IndInv => TypeOK
  BY DEF IndInv
<1> QED
  BY <1>1, Invariance, PTL

\* The cleanup deletes a message only when every channel it was to go to confirmed all of it,
\* whatever settings changes, failures, overflows, give-ups and restarts lie between.
THEOREM OnlyArrivedIsDeleted == Spec => []DeletedWasDelivered
<1>1. IndInv => DeletedWasDelivered
  BY IndInvParts DEF PlannedHasArrived, Arrived, DeletedWasDelivered, HistoryType
<1> QED
  BY <1>1, Invariance, PTL

\* The detector takes no message for new twice, over resets, failed reads and restarts.
THEOREM NoneIsForwardedTwice == Spec => []ForwardedOnce
<1>1. IndInv => ForwardedOnce
  BY DEF IndInv
<1> QED
  BY <1>1, Invariance, PTL

\* The count of completed() is the number of a message's jobs that wait or are on their way.
THEOREM CountsAreTrue == Spec => []PendingIsTrue
<1>1. IndInv => PendingIsTrue
  BY DEF IndInv
<1> QED
  BY <1>1, Invariance, PTL

\* delete_due() works only on plans that are in the file, so a restart half-way resumes.
THEOREM DeletionsAreOnFile == Spec => []DeletionIsOnFile
<1>1. IndInv => DeletionIsOnFile
  BY IndInvParts DEF DueIsPlanned, DeletionIsOnFile
<1> QED
  BY <1>1, Invariance, PTL

\* The job of a message that is taken from the queue is one the settings still want: a
\* change of the switches or channels has emptied the queue before.
THEOREM SwitchedOffIsQuiet == Spec => OffIsQuiet
<1> DEFINE Quiet == \A j \in queue : flight'.job = j /\ flight.job = NoJob /\ j.note \in Messages
                      => settings.forward /\ settings.sms /\ j.channel \in settings.targets
<1>1. IndInv /\ [Next]_vars => [Quiet]_vars
  <2> SUFFICES ASSUME IndInv, NEW j \in queue, j.note \in Messages
               PROVE  settings.forward /\ settings.sms /\ j.channel \in settings.targets
    OBVIOUS
  <2>1. j \in JobsOf(j.note)
    BY DEF JobsOf
  <2> QED
    BY <2>1, IndInvParts DEF JobsBelong
<1> QED
  BY <1>1, Invariance, PTL DEF Spec, OffIsQuiet
=============================================================================
