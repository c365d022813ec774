--------------------------- MODULE WatchdogProofs ---------------------------
(* Proofs about Watchdog, for all settings, limits and outages. *)
EXTENDS Watchdog, TLAPS

Pcs == {"top", "zeroing", "choose", "clearing", "off", "sleep", "step", "act", "wait",
        "sim_back", "counting", "reboot", "rebooting"}
LoopState == [pc : Pcs, seen : BOOLEAN, under : Choices, tier : 0..4]

\* A loop that has no local variable in use is one of its states.
LEMMA LoopAtType == \A pc \in Pcs : LoopAt(pc) \in LoopState
<1>1. Unused \in Choices
  BY ChoicesAssumption DEF Unused
<1> QED
  BY <1>1 DEF LoopAt, LoopState

\* The next tier is one of the tiers that are left.
LEMMA NextTierLeft == ASSUME TypeOK, Later # {} PROVE NextTier \in Later /\ NextTier \in Tiers
<1>1. Later \subseteq Tiers
  BY ChoicesAssumption DEF Later, TypeOK
<1>2. \E t \in Later : \A u \in Later : t <= u
  <2>1. CASE 1 \in Later
    BY <1>1, <2>1 DEF Tiers
  <2>2. CASE 1 \notin Later /\ 2 \in Later
    BY <1>1, <2>2 DEF Tiers
  <2>3. CASE 1 \notin Later /\ 2 \notin Later /\ 3 \in Later
    BY <1>1, <2>3 DEF Tiers
  <2>4. CASE 1 \notin Later /\ 2 \notin Later /\ 3 \notin Later
    <3>1. \A u \in Later : u = 4
      BY <1>1, <2>4 DEF Tiers
    <3> QED
      BY <3>1
  <2> QED
    BY <2>1, <2>2, <2>3, <2>4
<1> QED
  BY <1>1, <1>2 DEF NextTier

\* TypeOK in parts, each disturbed by few actions.
SavingType ==
  /\ settings \in Choices /\ settingsFile \in Choices /\ dirty \in BOOLEAN
  /\ saver \in [pc : {"idle", "write", "written"}, new : Choices]
CountType ==
  /\ reboots \in 0..MaxReboots /\ since \in Outages \cup {NoOutage} /\ lost \in BOOLEAN
  /\ stateFile \in [reboots : 0..MaxReboots, since : Outages \cup {NoOutage}]
NetworkType ==
  /\ probing \in BOOLEAN /\ probe \in {"unknown", "up", "short", "long"} /\ seenOk \in BOOLEAN
  /\ outage \in Outages \cup {NoOutage} /\ reported \in BOOLEAN
OtherType ==
  /\ cooling \in BOOLEAN /\ warm \in BOOLEAN /\ away \in BOOLEAN
  /\ series \in 0..SeriesCap /\ interrupted \in Outages \cup {NoOutage}

LEMMA TypeParts ==
  TypeOK <=> SavingType /\ CountType /\ NetworkType /\ OtherType /\ loop \in LoopState
BY DEF TypeOK, SavingType, CountType, NetworkType, OtherType, LoopState, Pcs

\* Only a request or a restart of the program touches the settings.
LEMMA StepSavingType == TypeOK /\ [Next]_vars => SavingType'
<1> SUFFICES ASSUME SavingType, [Next]_vars PROVE SavingType'
  BY TypeParts
<1>1. ASSUME SaveRequest \/ SaveApply PROVE SavingType'
  <2>1. CASE SaveRequest
    BY <2>1 DEF SaveRequest, SavingType
  <2>2. CASE SaveApply
    BY <2>2 DEF SaveApply, SavingType
  <2> QED
    BY <1>1, <2>1, <2>2
<1>2. ASSUME SaveWrite \/ SaveDropped PROVE SavingType'
  BY <1>2 DEF SaveWrite, SaveDropped, NoSave, SavingType
<1>3. ASSUME LoopTop \/ Restart PROVE SavingType'
  <2>1. CASE LoopTop
    BY <2>1 DEF LoopTop, SavingType
  <2>2. CASE Restart
    BY <2>2 DEF Restart, SavingType
  <2> QED
    BY <1>3, <2>1, <2>2
<1>4. ASSUME UNCHANGED saving PROVE SavingType'
  BY <1>4 DEF saving, SavingType
<1>5. ASSUME ProbeStep \/ TimePasses \/ UNCHANGED vars PROVE UNCHANGED saving
  BY <1>5 DEF ProbeStep, ProbeOk, ProbeFails, ProbeSwitched, TargetChanged, TimePasses, vars
<1>6. ASSUME LoopStep, ~LoopTop PROVE UNCHANGED saving
  BY <1>6 DEF LoopStep, LoopZeroed, LoopCleared, RebootCounted, StateWritten, LoopOff, LoopWatches,
     LoopRecovers, LoopWakes, StepEnds, StepModule, StepReboot, StepRebootLimit, RebootSent,
     RebootIgnored, Ends, SimSwitched, SimBack, WaitRecovered, WaitTimesOut
<1> QED
  BY <1>1, <1>2, <1>3, <1>4, <1>5, <1>6 DEF Next, SaveStep

LEMMA StepCountType == TypeOK /\ [Next]_vars => CountType'
<1> SUFFICES ASSUME TypeOK, CountType, NetworkType, loop \in LoopState, [Next]_vars PROVE CountType'
  BY TypeParts
<1>1. ASSUME LoopTop \/ LoopOff \/ Restart PROVE CountType'
  BY <1>1, MaxRebootsAssumption DEF LoopTop, LoopOff, SetReboots, Restart, CountType
<1>2. ASSUME NEW from, NEW to, StateWritten(from, to) PROVE CountType'
  <2>1. lost' \in BOOLEAN
    BY <1>2, Zenon DEF StateWritten, CountType
  <2> QED
    BY <1>2, <2>1 DEF StateWritten, Record, CountType
<1>3. ASSUME StepReboot PROVE CountType'
  <2>1. loop.under \in [enabled : BOOLEAN, tiers : SUBSET Tiers, max : 1..MaxReboots]
    BY ChoicesAssumption DEF LoopState
  <2>2. reboots' = reboots + 1 /\ reboots < loop.under.max
    BY <1>3 DEF StepReboot, MayReboot
  <2>3. reboots' \in 0..MaxReboots
    BY <2>1, <2>2, MaxRebootsAssumption DEF CountType
  <2> QED
    BY <1>3, <2>3 DEF StepReboot, OutageSince, CountType, NetworkType
<1>4. ASSUME UNCHANGED count PROVE CountType'
  BY <1>4 DEF count, CountType
<1>5. ASSUME SaveStep \/ ProbeStep \/ TimePasses \/ UNCHANGED vars PROVE UNCHANGED count
  BY <1>5 DEF SaveStep, SaveRequest, SaveWrite, SaveApply, SaveDropped, ProbeStep, ProbeOk, ProbeFails,
     ProbeSwitched, TargetChanged, TimePasses, vars
<1>6. ASSUME \/ LoopWatches \/ LoopRecovers \/ LoopWakes \/ StepEnds \/ StepModule \/ StepRebootLimit
             \/ RebootSent \/ RebootIgnored \/ SimSwitched \/ SimBack \/ WaitRecovered \/ WaitTimesOut
      PROVE  UNCHANGED count
  BY <1>6 DEF LoopWatches, LoopRecovers, LoopWakes, StepEnds, StepModule, StepRebootLimit, RebootSent,
     RebootIgnored, Ends, SimSwitched, SimBack, WaitRecovered, WaitTimesOut
<1> QED
  BY <1>1, <1>2, <1>3, <1>4, <1>5, <1>6 DEF Next, LoopStep, LoopZeroed, LoopCleared, RebootCounted

LEMMA StepNetworkType == TypeOK /\ [Next]_vars => NetworkType'
<1> SUFFICES ASSUME SavingType, CountType, NetworkType, [Next]_vars PROVE NetworkType'
  BY TypeParts
<1>1. ASSUME ProbeStep \/ TimePasses PROVE NetworkType'
  BY <1>1 DEF ProbeStep, ProbeOk, ProbeFails, ProbeSwitched, TargetChanged, TimePasses, NetworkType
<1>2. ASSUME Restart PROVE NetworkType'
  <2>1. Resumed \in Outages \cup {NoOutage}
    BY DEF Resumed, CountType
  <2> QED
    BY <1>2, <2>1 DEF Restart, NetworkType
<1>3. ASSUME UNCHANGED network PROVE NetworkType'
  BY <1>3 DEF network, NetworkType
<1>4. ASSUME SaveStep \/ UNCHANGED vars PROVE UNCHANGED network
  BY <1>4 DEF SaveStep, SaveRequest, SaveWrite, SaveApply, SaveDropped, vars
<1>5. ASSUME LoopStep PROVE UNCHANGED network
  BY <1>5 DEF LoopStep, LoopTop, LoopZeroed, LoopCleared, RebootCounted, StateWritten, LoopOff,
     LoopWatches, LoopRecovers, LoopWakes, StepEnds, StepModule, StepReboot, StepRebootLimit, RebootSent,
     RebootIgnored, Ends, SimSwitched, SimBack, WaitRecovered, WaitTimesOut
<1> QED
  BY <1>1, <1>2, <1>3, <1>4, <1>5 DEF Next

LEMMA StepOtherType == TypeOK /\ [Next]_vars => OtherType'
<1> SUFFICES ASSUME CountType, OtherType, [Next]_vars PROVE OtherType'
  BY TypeParts
<1>1. ASSUME SaveStep \/ UNCHANGED vars PROVE OtherType'
  BY <1>1 DEF SaveStep, SaveRequest, SaveWrite, SaveApply, SaveDropped, vars, timers, OtherType
<1>2. ASSUME ProbeStep \/ TimePasses PROVE OtherType'
  <2>1. CASE ProbeOk
    BY <2>1, MaxRebootsAssumption DEF ProbeOk, timers, OtherType, SeriesCap
  <2>2. CASE ProbeFails \/ ProbeSwitched \/ TargetChanged
    BY <2>2 DEF ProbeFails, ProbeSwitched, TargetChanged, timers, OtherType
  <2>3. CASE TimePasses
    BY <2>3 DEF TimePasses, timers, OtherType
  <2> QED
    BY <1>2, <2>1, <2>2, <2>3 DEF ProbeStep
<1>3. ASSUME Restart \/ LoopTop \/ LoopOff PROVE OtherType'
  <2>1. CASE Restart
    BY <2>1, MaxRebootsAssumption DEF Restart, timers, OtherType, SeriesCap
  <2>2. CASE LoopTop
    BY <2>2, MaxRebootsAssumption DEF LoopTop, timers, OtherType, SeriesCap
  <2>3. CASE LoopOff
    BY <2>3, MaxRebootsAssumption DEF LoopOff, timers, OtherType, SeriesCap
  <2> QED
    BY <1>3, <2>1, <2>2, <2>3
<1>4. ASSUME LoopZeroed \/ LoopCleared \/ RebootCounted PROVE OtherType'
  BY <1>4 DEF LoopZeroed, LoopCleared, RebootCounted, StateWritten, timers, OtherType
<1>5. ASSUME RebootSent PROVE OtherType'
  BY <1>5, MaxRebootsAssumption DEF RebootSent, timers, OtherType, SeriesCap, CountType
<1>6. ASSUME \/ LoopWatches \/ LoopRecovers \/ LoopWakes \/ StepEnds \/ StepReboot \/ StepRebootLimit
             \/ RebootIgnored \/ WaitRecovered \/ WaitTimesOut
      PROVE  OtherType'
  BY <1>6 DEF LoopWatches, LoopRecovers, LoopWakes, StepEnds, StepReboot, StepRebootLimit,
     RebootIgnored, Ends, WaitRecovered, WaitTimesOut, timers, OtherType
<1>7. ASSUME StepModule \/ SimSwitched \/ SimBack PROVE OtherType'
  BY <1>7 DEF StepModule, SimSwitched, SimBack, SwitchSim, timers, OtherType
<1> QED
  BY <1>1, <1>2, <1>3, <1>4, <1>5, <1>6, <1>7 DEF Next, LoopStep

\* The loop in another place, its local variables kept.
LEMMA LoopMoves ==
  ASSUME loop \in LoopState, NEW pc \in Pcs PROVE [loop EXCEPT !.pc = pc] \in LoopState
BY DEF LoopState

LEMMA StepLoopType == TypeOK /\ [Next]_vars => loop' \in LoopState
<1> SUFFICES ASSUME TypeOK, SavingType, loop \in LoopState, [Next]_vars PROVE loop' \in LoopState
  BY TypeParts
<1>1. ASSUME SaveStep \/ ProbeStep \/ TimePasses \/ UNCHANGED vars PROVE loop' \in LoopState
  BY <1>1 DEF SaveStep, SaveRequest, SaveWrite, SaveApply, SaveDropped, ProbeStep, ProbeOk, ProbeFails,
     ProbeSwitched, TargetChanged, TimePasses, vars
<1>2. ASSUME LoopTop PROVE loop' \in LoopState
  <2>1. settings.enabled \in BOOLEAN
    BY ChoicesAssumption DEF SavingType
  <2> QED
    BY <1>2, <2>1 DEF LoopTop, LoopState, Pcs
<1>3. ASSUME LoopOff \/ LoopZeroed \/ LoopCleared \/ RebootCounted \/ RebootSent PROVE loop' \in LoopState
  BY <1>3, LoopMoves DEF LoopOff, SetReboots, LoopZeroed, LoopCleared, RebootCounted, StateWritten,
     RebootSent, Pcs
<1>4. ASSUME LoopWatches \/ LoopWakes \/ StepEnds \/ RebootIgnored \/ WaitRecovered \/ Restart
      PROVE  loop' \in LoopState
  BY <1>4, LoopAtType DEF LoopWatches, LoopWakes, StepEnds, RebootIgnored, WaitRecovered, Ends, Restart, Pcs
<1>5. ASSUME LoopRecovers PROVE loop' \in LoopState
  <2>1. loop' = [loop EXCEPT !.pc = "step", !.under = settings, !.tier = 0]
    BY <1>5 DEF LoopRecovers
  <2>2. settings \in Choices
    BY DEF SavingType
  <2>3. loop' = [pc |-> "step", seen |-> loop.seen, under |-> settings, tier |-> 0]
    BY <2>1 DEF LoopState
  <2>4. loop.seen \in BOOLEAN
    BY DEF LoopState
  <2> QED
    BY <2>2, <2>3, <2>4 DEF LoopState, Pcs
<1>6. ASSUME StepModule PROVE loop' \in LoopState
  <2>1. NextTier \in 0..4
    BY <1>6, NextTierLeft DEF StepModule, Steps, Tiers
  <2> QED
    BY <1>6, <2>1 DEF StepModule, LoopState, Pcs
<1>7. ASSUME StepReboot \/ StepRebootLimit PROVE loop' \in LoopState
  <2>1. CASE StepReboot
    <3>1. loop' = [loop EXCEPT !.tier = 4, !.pc = "counting"]
      BY <2>1 DEF StepReboot
    <3>2. loop' = [pc |-> "counting", seen |-> loop.seen, under |-> loop.under, tier |-> 4]
      BY <3>1 DEF LoopState
    <3>3. loop.seen \in BOOLEAN /\ loop.under \in Choices
      BY DEF LoopState
    <3> QED
      BY <3>2, <3>3 DEF LoopState, Pcs
  <2>2. CASE StepRebootLimit
    BY <2>2 DEF StepRebootLimit, LoopState, Pcs
  <2> QED
    BY <1>7, <2>1, <2>2
<1>8. ASSUME SimSwitched \/ SimBack \/ WaitTimesOut PROVE loop' \in LoopState
  BY <1>8, LoopMoves DEF SimSwitched, SimBack, WaitTimesOut, Pcs
<1> QED
  BY <1>1, <1>2, <1>3, <1>4, <1>5, <1>6, <1>7, <1>8 DEF Next, LoopStep

LEMMA StepTypeOK == TypeOK /\ [Next]_vars => TypeOK'
<1> SUFFICES ASSUME TypeOK, [Next]_vars PROVE TypeOK'
  OBVIOUS
<1>1. SavingType' /\ CountType' /\ NetworkType' /\ OtherType' /\ loop' \in LoopState
  BY StepSavingType, StepCountType, StepNetworkType, StepOtherType, StepLoopType
<1> QED
  BY <1>1 DEF TypeOK, SavingType, CountType, NetworkType, OtherType, LoopState, Pcs

\* The steps that leave the count, its series and the loop's place near a
\* restart alone.
Elsewhere ==
  /\ UNCHANGED <<reboots, since, stateFile, lost, series, interrupted>>
  /\ loop'.pc \in {"zeroing", "clearing", "counting", "reboot", "rebooting"} => UNCHANGED loop

LEMMA StepElsewhere ==
  ASSUME TypeOK,
         \/ SaveStep \/ ProbeSwitched \/ TimePasses \/ LoopWatches \/ LoopRecovers \/ LoopWakes
         \/ StepEnds \/ RebootIgnored \/ WaitRecovered \/ StepModule \/ StepRebootLimit
         \/ SimSwitched \/ SimBack \/ WaitTimesOut \/ UNCHANGED vars
  PROVE  Elsewhere
<1>1. CASE SaveStep \/ ProbeSwitched \/ TimePasses \/ UNCHANGED vars
  BY <1>1 DEF SaveStep, SaveRequest, SaveWrite, SaveApply, SaveDropped, ProbeSwitched, TimePasses,
     Elsewhere, count, vars
<1>2. CASE LoopWatches \/ LoopRecovers \/ LoopWakes \/ StepEnds \/ RebootIgnored \/ WaitRecovered
  <2>1. CASE LoopWatches
    BY <2>1 DEF LoopWatches, Ends, LoopAt, Elsewhere, count, TypeOK
  <2>2. CASE LoopRecovers
    BY <2>2 DEF LoopRecovers, Ends, LoopAt, Elsewhere, count, TypeOK
  <2>3. CASE LoopWakes
    BY <2>3 DEF LoopWakes, Ends, LoopAt, Elsewhere, count, TypeOK
  <2>4. CASE StepEnds
    BY <2>4 DEF StepEnds, Ends, LoopAt, Elsewhere, count, TypeOK
  <2>5. CASE RebootIgnored
    BY <2>5 DEF RebootIgnored, Ends, LoopAt, Elsewhere, count, TypeOK
  <2>6. CASE WaitRecovered
    BY <2>6 DEF WaitRecovered, Ends, LoopAt, Elsewhere, count, TypeOK
  <2> QED
    BY <1>2, <2>1, <2>2, <2>3, <2>4, <2>5, <2>6
<1>3. CASE StepModule \/ StepRebootLimit \/ SimSwitched \/ SimBack \/ WaitTimesOut
  BY <1>3 DEF StepModule, StepRebootLimit, Steps, SimSwitched, SimBack, WaitTimesOut,
     Elsewhere, count, TypeOK
<1> QED
  BY <1>1, <1>2, <1>3

LEMMA StepNextIsCounted == IndInv /\ [Next]_vars => NextIsCounted'
<1> SUFFICES ASSUME IndInv, [Next]_vars PROVE NextIsCounted'
  OBVIOUS
<1> USE MaxRebootsAssumption, ChoicesAssumption DEF IndInv
<1>1. ASSUME Elsewhere PROVE NextIsCounted'
  BY <1>1 DEF Elsewhere, NextIsCounted, TypeOK
<1>2. ASSUME ProbeOk \/ ProbeFails \/ TargetChanged PROVE NextIsCounted'
  <2>1. CASE ProbeOk
    BY <2>1 DEF ProbeOk, NextIsCounted, TypeOK, saving, count
  <2>2. CASE ProbeFails
    BY <2>2 DEF ProbeFails, NextIsCounted, TypeOK, saving, count
  <2>3. CASE TargetChanged
    BY <2>3 DEF TargetChanged, NextIsCounted, TypeOK, saving, count
  <2> QED
    BY <1>2, <2>1, <2>2, <2>3
<1>3. ASSUME Restart \/ LoopTop \/ LoopOff \/ RebootSent PROVE NextIsCounted'
  <2>1. CASE Restart
    BY <2>1 DEF Restart, LoopAt, SetReboots, NextIsCounted, TypeOK
  <2>2. CASE LoopTop
    BY <2>2 DEF LoopAt, LoopTop, SetReboots, NextIsCounted, TypeOK
  <2>3. CASE LoopOff
    BY <2>3 DEF LoopAt, LoopOff, SetReboots, NextIsCounted, TypeOK
  <2>4. CASE RebootSent
    BY <2>4 DEF LoopAt, SetReboots, RebootSent, NextIsCounted, TypeOK
  <2> QED
    BY <1>3, <2>1, <2>2, <2>3, <2>4
<1>4. ASSUME LoopZeroed \/ LoopCleared PROVE NextIsCounted'
  BY <1>4 DEF LoopZeroed, LoopCleared, StateWritten, NextIsCounted, TypeOK
<1>5. ASSUME StepReboot PROVE NextIsCounted'
  BY <1>5 DEF StepReboot, Steps, MayReboot, SeriesIsCounted, NextIsCounted, TypeOK
<1>6. ASSUME RebootCounted PROVE NextIsCounted'
  BY <1>6 DEF RebootCounted, StateWritten, NextIsCounted, TypeOK
<1> QED
  BY <1>1, <1>2, <1>3, <1>4, <1>5, <1>6, StepElsewhere DEF Next, ProbeStep, LoopStep

LEMMA StepSeriesIsCounted == IndInv /\ [Next]_vars => SeriesIsCounted'
<1> SUFFICES ASSUME IndInv, [Next]_vars PROVE SeriesIsCounted'
  OBVIOUS
<1> USE MaxRebootsAssumption, ChoicesAssumption DEF IndInv
<1>1. ASSUME Elsewhere PROVE SeriesIsCounted'
  BY <1>1 DEF Elsewhere, SeriesIsCounted
<1>2. ASSUME ProbeOk \/ ProbeFails \/ TargetChanged PROVE SeriesIsCounted'
  <2>1. CASE ProbeOk
    BY <2>1 DEF ProbeOk, SeriesIsCounted, TypeOK, count
  <2>2. CASE ProbeFails
    BY <2>2 DEF ProbeFails, SeriesIsCounted, TypeOK, count
  <2>3. CASE TargetChanged
    BY <2>3 DEF TargetChanged, SeriesIsCounted, TypeOK, count
  <2> QED
    BY <1>2, <2>1, <2>2, <2>3
<1>3. ASSUME Restart \/ LoopOff PROVE SeriesIsCounted'
  BY <1>3 DEF Restart, LoopOff, SetReboots, SeriesIsCounted, TypeOK
<1>4. ASSUME LoopTop PROVE SeriesIsCounted'
  BY <1>4 DEF LoopTop, Connected, SeriesIsCounted, TypeOK
<1>5. ASSUME LoopZeroed \/ LoopCleared \/ RebootCounted PROVE SeriesIsCounted'
  BY <1>5 DEF LoopZeroed, LoopCleared, RebootCounted, StateWritten, Record, SeriesIsCounted, TypeOK
<1>6. ASSUME StepReboot PROVE SeriesIsCounted'
  BY <1>6 DEF StepReboot, SeriesIsCounted, TypeOK
<1>7. ASSUME RebootSent PROVE SeriesIsCounted'
  BY <1>7 DEF RebootSent, Record, NextIsCounted, SeriesIsCounted, SeriesCap, TypeOK, count
<1> QED
  BY <1>1, <1>2, <1>3, <1>4, <1>5, <1>6, <1>7, StepElsewhere DEF Next, ProbeStep, LoopStep

LEMMA StepClearedHasEnded == IndInv /\ [Next]_vars => ClearedHasEnded'
<1> SUFFICES ASSUME IndInv, [Next]_vars PROVE ClearedHasEnded'
  OBVIOUS
<1> USE DEF IndInv
<1>1. ASSUME Elsewhere PROVE ClearedHasEnded'
  BY <1>1 DEF Elsewhere, ClearedHasEnded
<1>2. ASSUME ProbeOk \/ ProbeFails \/ TargetChanged PROVE ClearedHasEnded'
  BY <1>2 DEF ProbeOk, ProbeFails, TargetChanged, ClearedHasEnded, count
<1>3. ASSUME Restart \/ LoopOff PROVE ClearedHasEnded'
  BY <1>3 DEF Restart, LoopAt, LoopOff, SetReboots, ClearedHasEnded, TypeOK
<1>4. ASSUME LoopTop PROVE ClearedHasEnded'
  BY <1>4 DEF LoopTop, Connected, InterruptedBelongs, ClearedHasEnded, TypeOK
<1>5. ASSUME LoopZeroed \/ LoopCleared \/ RebootCounted \/ StepReboot \/ RebootSent PROVE ClearedHasEnded'
  BY <1>5 DEF LoopZeroed, LoopCleared, RebootCounted, StateWritten, StepReboot, RebootSent,
     ClearedHasEnded, TypeOK
<1> QED
  BY <1>1, <1>2, <1>3, <1>4, <1>5, StepElsewhere DEF Next, ProbeStep, LoopStep

LEMMA StepInterruptedBelongs == IndInv /\ [Next]_vars => InterruptedBelongs'
<1> SUFFICES ASSUME IndInv, [Next]_vars PROVE InterruptedBelongs'
  OBVIOUS
<1> USE MaxRebootsAssumption DEF IndInv
<1>1. ASSUME SaveStep \/ ProbeStep \/ TimePasses PROVE InterruptedBelongs'
  BY <1>1 DEF SaveStep, SaveRequest, SaveWrite, SaveApply, SaveDropped, ProbeStep, ProbeOk, ProbeFails,
     TargetChanged, ProbeSwitched, TimePasses, InterruptedBelongs, network
<1>2. ASSUME Restart PROVE InterruptedBelongs'
  BY <1>2 DEF Restart, InterruptedBelongs
<1>3. ASSUME LoopTop \/ LoopOff PROVE InterruptedBelongs'
  BY <1>3 DEF LoopTop, LoopOff, Connected, InterruptedBelongs, network
<1>4. ASSUME RebootSent PROVE InterruptedBelongs'
  BY <1>4 DEF RebootSent, InterruptedBelongs, SeriesCap, TypeOK, network
<1>5. ASSUME UNCHANGED <<network, series, interrupted>> PROVE InterruptedBelongs'
  BY <1>5 DEF InterruptedBelongs, network
<1>6. ASSUME \/ LoopZeroed \/ LoopCleared \/ LoopWatches \/ LoopRecovers \/ LoopWakes \/ StepEnds
             \/ StepModule \/ StepReboot \/ StepRebootLimit \/ RebootCounted \/ RebootIgnored
             \/ SimSwitched \/ SimBack \/ WaitRecovered \/ WaitTimesOut \/ UNCHANGED vars
      PROVE  UNCHANGED <<network, series, interrupted>>
  BY <1>6 DEF LoopZeroed, LoopCleared, RebootCounted, StateWritten, LoopWatches, LoopRecovers,
     LoopWakes, StepEnds, StepModule, StepReboot, StepRebootLimit, RebootIgnored, Ends, SimSwitched,
     SimBack, WaitRecovered, WaitTimesOut, vars
<1> QED
  BY <1>1, <1>2, <1>3, <1>4, <1>5, <1>6 DEF Next, LoopStep

LEMMA StepCountedIsReported == IndInv /\ [Next]_vars => CountedIsReported'
<1> SUFFICES ASSUME IndInv, [Next]_vars PROVE CountedIsReported'
  OBVIOUS
<1> USE DEF IndInv
<1>1. ASSUME ProbeOk \/ ProbeFails \/ TargetChanged PROVE CountedIsReported'
  BY <1>1, NoOutageAssumption DEF ProbeOk, ProbeFails, TargetChanged, CountedIsReported, TypeOK, count
<1>2. ASSUME Restart PROVE CountedIsReported'
  BY <1>2 DEF Restart, CountedIsReported
<1>3. ASSUME LoopTop \/ LoopOff PROVE CountedIsReported'
  BY <1>3 DEF LoopTop, LoopOff, SetReboots, CountedIsReported, network
<1>4. ASSUME StepReboot PROVE CountedIsReported'
  BY <1>4 DEF StepReboot, OutageSince, CountedIsReported, network
<1>5. ASSUME UNCHANGED <<outage, reported, since>> PROVE CountedIsReported'
  BY <1>5 DEF CountedIsReported
<1>6. ASSUME \/ SaveStep \/ ProbeSwitched \/ TimePasses
             \/ LoopZeroed \/ LoopCleared \/ LoopWatches \/ LoopRecovers \/ LoopWakes \/ StepEnds
             \/ StepModule \/ StepRebootLimit \/ RebootCounted \/ RebootSent \/ RebootIgnored
             \/ SimSwitched \/ SimBack \/ WaitRecovered \/ WaitTimesOut \/ UNCHANGED vars
      PROVE  UNCHANGED <<outage, reported, since>>
  BY <1>6 DEF SaveStep, SaveRequest, SaveWrite, SaveApply, SaveDropped, ProbeSwitched, TimePasses,
     LoopZeroed, LoopCleared, RebootCounted, StateWritten, LoopWatches, LoopRecovers,
     LoopWakes, StepEnds, StepModule, StepRebootLimit, RebootSent, RebootIgnored, Ends, SimSwitched,
     SimBack, WaitRecovered, WaitTimesOut, vars, count, network
<1> QED
  BY <1>1, <1>2, <1>3, <1>4, <1>5, <1>6 DEF Next, ProbeStep, LoopStep

LEMMA StepInterruptedIsKept == IndInv /\ [Next]_vars => InterruptedIsKept'
<1> SUFFICES ASSUME IndInv, [Next]_vars PROVE InterruptedIsKept'
  OBVIOUS
<1> USE NoOutageAssumption DEF IndInv
<1>1. ASSUME ProbeOk \/ ProbeFails \/ TargetChanged PROVE InterruptedIsKept'
  BY <1>1 DEF ProbeOk, ProbeFails, TargetChanged, InterruptedIsKept, TypeOK, count
<1>2. ASSUME Restart PROVE InterruptedIsKept'
  BY <1>2 DEF Restart, Resumed, InterruptedIsKept
<1>3. ASSUME LoopTop PROVE InterruptedIsKept'
  BY <1>3 DEF LoopTop, Connected, InterruptedBelongs, InterruptedIsKept, network
<1>4. ASSUME LoopOff PROVE InterruptedIsKept'
  BY <1>4 DEF LoopOff, InterruptedIsKept
<1>5. ASSUME StepReboot PROVE InterruptedIsKept'
  BY <1>5 DEF StepReboot, OutageSince, InterruptedIsKept, network
<1>6. ASSUME NEW from, NEW to, StateWritten(from, to) PROVE InterruptedIsKept'
  <2>1. UNCHANGED <<outage, reported, since, interrupted>>
    BY <1>6 DEF StateWritten, network
  <2>2. CASE lost'
    BY <2>2 DEF InterruptedIsKept
  <2>3. CASE ~lost' /\ interrupted # NoOutage
    <3>1. stateFile' = Record(reboots, since) /\ ~(lost /\ series # 0)
      BY <1>6, <2>3 DEF StateWritten
    <3>2. series # 0
      BY <2>3 DEF InterruptedBelongs
    <3> QED
      BY <2>1, <2>3, <3>1, <3>2 DEF InterruptedIsKept, Record
  <2> QED
    BY <2>1, <2>2, <2>3 DEF InterruptedIsKept
<1>7. ASSUME RebootSent PROVE InterruptedIsKept'
  BY <1>7 DEF RebootSent, NextIsCounted, Record, CountedIsReported, InterruptedIsKept, count, network
<1>8. ASSUME UNCHANGED <<outage, reported, since, stateFile, lost, interrupted>> PROVE InterruptedIsKept'
  BY <1>8 DEF InterruptedIsKept
<1>9. ASSUME \/ SaveStep \/ ProbeSwitched \/ TimePasses
             \/ LoopWatches \/ LoopRecovers \/ LoopWakes \/ StepEnds
             \/ StepModule \/ StepRebootLimit \/ RebootIgnored
             \/ SimSwitched \/ SimBack \/ WaitRecovered \/ WaitTimesOut \/ UNCHANGED vars
      PROVE  UNCHANGED <<outage, reported, since, stateFile, lost, interrupted>>
  BY <1>9 DEF SaveStep, SaveRequest, SaveWrite, SaveApply, SaveDropped, ProbeSwitched, TimePasses,
     LoopWatches, LoopRecovers, LoopWakes, StepEnds, StepModule, StepRebootLimit, RebootIgnored, Ends,
     SimSwitched, SimBack, WaitRecovered, WaitTimesOut, vars, count, network
<1> QED
  BY <1>1, <1>2, <1>3, <1>4, <1>5, <1>6, <1>7, <1>8, <1>9 DEF Next, ProbeStep, LoopStep,
     LoopZeroed, LoopCleared, RebootCounted

LEMMA InitInv == Init => IndInv
<1> SUFFICES ASSUME Init PROVE IndInv
  OBVIOUS
<1>3. 0 \in 0..MaxReboots /\ 0 \in 0..SeriesCap
  BY MaxRebootsAssumption DEF SeriesCap
<1>1. TypeOK
  <2>1. SavingType
    BY DEF Init, NoSave, SavingType
  <2>2. CountType
    BY <1>3 DEF Init, Record, CountType
  <2>3. NetworkType /\ OtherType
    BY <1>3 DEF Init, NetworkType, OtherType
  <2>4. loop \in LoopState
    BY LoopAtType DEF Init, Pcs
  <2> QED
    BY <2>1, <2>2, <2>3, <2>4, TypeParts
<1>2. /\ NextIsCounted /\ SeriesIsCounted /\ ClearedHasEnded /\ InterruptedBelongs
      /\ CountedIsReported /\ InterruptedIsKept
  BY DEF Init, LoopAt, Record, NextIsCounted, SeriesIsCounted, ClearedHasEnded, InterruptedBelongs,
     CountedIsReported, InterruptedIsKept
<1> QED
  BY <1>1, <1>2 DEF IndInv

\* The invariant holds over any number of restarts of program and module.
THEOREM Invariance == Spec => []IndInv
<1>1. IndInv /\ [Next]_vars => IndInv'
  <2>1. IndInv => TypeOK /\ NextIsCounted
    BY DEF IndInv
  <2> QED
    BY <2>1, StepTypeOK, StepNextIsCounted, StepSeriesIsCounted, StepClearedHasEnded,
       StepInterruptedBelongs, StepCountedIsReported, StepInterruptedIsKept DEF IndInv
<1> QED
  BY <1>1, InitInv, PTL DEF Spec

\* The restart count, in memory and on file, keeps to the limit, and the loop
\* to its places.
THEOREM TypeCorrect == Spec => []TypeOK
<1>1. IndInv => TypeOK
  BY DEF IndInv
<1> QED
  BY <1>1, Invariance, PTL

\* The outage a restart interrupted goes on in every later process, with its
\* own start, until the probe succeeds, its target changes or the watchdog is
\* switched off (the state file, new() and start()).
THEOREM OutagesSurvive == Spec => []OutageSurvives
<1>1. IndInv => OutageSurvives
  BY DEF IndInv, InterruptedIsKept, OutageSurvives
<1> QED
  BY <1>1, Invariance, PTL

\* No more restarts in a row than the limit in force allows, over restarts of
\* the program and changes of settings, as long as the count could be written.
THEOREM RestartsAreLimited == Spec => RebootLimit
<1>1. ASSUME IndInv, [Next]_vars, Sends, ~lost PROVE series' <= loop.under.max
  <2> USE <1>1, MaxRebootsAssumption, ChoicesAssumption DEF IndInv
  <2>1. RebootSent
    <3>1. ~Elsewhere
      BY DEF Elsewhere, Sends
    <3>2. loop.pc = "reboot" /\ loop'.pc = "rebooting"
      BY DEF Sends
    <3>3. ~(ProbeOk \/ ProbeFails \/ TargetChanged)
      BY <3>2 DEF ProbeOk, ProbeFails, TargetChanged
    <3>4. ~(LoopTop \/ LoopOff \/ LoopZeroed \/ LoopCleared \/ RebootCounted \/ StepReboot)
      BY <3>2 DEF LoopTop, LoopOff, LoopZeroed, LoopCleared, RebootCounted, StateWritten, StepReboot, Steps, TypeOK
    <3>5. ~Restart
      BY <3>2 DEF Restart, LoopAt
    <3> QED
      BY <3>1, <3>3, <3>4, <3>5, StepElsewhere DEF Next, ProbeStep, LoopStep
  <2> QED
    BY <2>1 DEF RebootSent, NextIsCounted, SeriesCap, TypeOK
<1>2. IndInv /\ [Next]_vars => [Sends /\ ~lost => series' <= loop.under.max]_vars
  BY <1>1
<1> QED
  BY <1>2, Invariance, PTL DEF Spec, RebootLimit
=============================================================================
