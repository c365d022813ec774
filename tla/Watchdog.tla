------------------------------ MODULE Watchdog ------------------------------
(***************************************************************************)
(* The connection watchdog, src/src/watchdog.rs, with the outage it keeps  *)
(* across a restart of the module (src/src/events.rs).                     *)
(*                                                                         *)
(* One task samples the latency probe every 5 s; a long outage makes it    *)
(* walk through the enabled tiers: 1 re-register, 2 radio off and on,      *)
(* 3 the other SIM slot, 4 restart the module.  Restarts are counted in    *)
(* watchdog-state.json.  The settings are saved by requests that may be    *)
(* dropped; program and module may restart between any two steps.          *)
(*                                                                         *)
(* Abstracted: an outage is short or long (as long as outage_seconds);     *)
(* start-up wait and cooldown are over when time says so.  What the radio  *)
(* step does to the locks is left out.                                     *)
(***************************************************************************)
EXTENDS Naturals

CONSTANTS Choices,    \* the settings a user can save: [enabled, tiers, max]
          MaxReboots, \* the largest limit, 10 in the code
          Outages,    \* identities (start times) of outages
          NoOutage

Tiers == 1..4
ASSUME MaxRebootsAssumption == MaxReboots \in Nat \ {0}
ASSUME ChoicesAssumption ==
  /\ Choices # {}
  /\ Choices \subseteq [enabled : BOOLEAN, tiers : SUBSET Tiers, max : 1..MaxReboots]
ASSUME NoOutageAssumption == NoOutage \notin Outages

VARIABLES settings,     \* the watch channel's value
          settingsFile, \* watchdog.json
          saver,        \* the request in save(), if any
          dirty,        \* the channel was written since the loop looked
          reboots,      \* Runtime.reboots
          since,        \* Runtime.outage_since
          stateFile,    \* watchdog-state.json
          loop,         \* the task
          cooling,      \* cooldown_until is in the future
          warm,         \* the start-up wait is over
          probing,      \* the latency probe is on
          probe,        \* its last results
          seenOk,       \* events: a probe has succeeded since the start
          outage,       \* events: the outage in progress
          reported,     \* events: it is on record
          away,         \* the SIM slot is not the one the last SIM step began with
          series,       \* history: restarts sent since the probe last succeeded
          interrupted,  \* history: the reported outage a restart interrupted
          lost          \* history: a write of watchdog-state.json failed in this series

saving == <<settings, settingsFile, saver, dirty>>
count == <<reboots, since, stateFile, lost>>
network == <<probing, probe, seenOk, outage, reported>>
timers == <<cooling, warm>>
vars == <<saving, count, loop, timers, network, away, series, interrupted>>

-----------------------------------------------------------------------------

NoSave == [pc |-> "idle", new |-> settings]
Record(n, s) == [reboots |-> n, since |-> s]

\* The task with no local variable in use.
Unused == CHOOSE c \in Choices : TRUE
LoopAt(pc) == [pc |-> pc, seen |-> FALSE, under |-> Unused, tier |-> 0]

\* The history need not tell a broken limit from one broken twice.
SeriesCap == MaxReboots + 1

TypeOK ==
  /\ settings \in Choices /\ settingsFile \in Choices
  /\ saver \in [pc : {"idle", "write", "written"}, new : Choices]
  /\ dirty \in BOOLEAN
  /\ reboots \in 0..MaxReboots
  /\ since \in Outages \cup {NoOutage}
  /\ stateFile \in [reboots : 0..MaxReboots, since : Outages \cup {NoOutage}]
  /\ loop \in [pc : {"top", "zeroing", "choose", "clearing", "off", "sleep", "step",
                     "act", "wait", "sim_back", "counting", "reboot", "rebooting"},
               seen : BOOLEAN, under : Choices, tier : 0..4]
  /\ cooling \in BOOLEAN /\ warm \in BOOLEAN
  /\ probing \in BOOLEAN
  /\ probe \in {"unknown", "up", "short", "long"}
  /\ seenOk \in BOOLEAN
  /\ outage \in Outages \cup {NoOutage}
  /\ reported \in BOOLEAN
  /\ away \in BOOLEAN
  /\ series \in 0..SeriesCap
  /\ interrupted \in Outages \cup {NoOutage}
  /\ lost \in BOOLEAN

-----------------------------------------------------------------------------
(* save(): one at a time, under the `change' mutex. *)

SaveRequest ==
  /\ saver.pc = "idle"
  /\ \E new \in Choices \ {settings} : saver' = [pc |-> "write", new |-> new]
  /\ UNCHANGED <<settings, settingsFile, dirty, count, loop, timers, network, away,
                 series, interrupted>>

SaveWrite ==
  /\ saver.pc = "write"
  /\ \/ /\ settingsFile' = saver.new
        /\ saver' = [saver EXCEPT !.pc = "written"]
     \/ /\ saver' = NoSave
        /\ UNCHANGED settingsFile
  /\ UNCHANGED <<settings, dirty, count, loop, timers, network, away, series, interrupted>>

SaveApply ==
  /\ saver.pc = "written"
  /\ settings' = saver.new
  /\ dirty' = TRUE
  /\ saver' = [saver EXCEPT !.pc = "idle"]
  /\ UNCHANGED <<settingsFile, count, loop, timers, network, away, series, interrupted>>

\* The client disconnects; a write that was on its way is finished before the next save.
SaveDropped ==
  /\ saver.pc \in {"write", "written"}
  /\ settingsFile' \in {settingsFile, saver.new}
  /\ saver.pc = "written" => UNCHANGED settingsFile
  /\ saver' = NoSave
  /\ UNCHANGED <<settings, dirty, count, loop, timers, network, away, series, interrupted>>

-----------------------------------------------------------------------------
(* The probe and the outage of events.rs. *)

\* observe_probe(true): the outage in progress is over.
ProbeOk ==
  /\ probing
  /\ probe' = "up" /\ seenOk' = TRUE
  /\ outage' = NoOutage /\ reported' = FALSE
  /\ series' = 0 /\ interrupted' = NoOutage
  /\ UNCHANGED <<saving, count, loop, timers, away, probing>>

\* observe_probe(false): failures before the first success are the module still
\* registering; an outage is put on record after 10 s, which a long one has lasted.
ProbeFails ==
  /\ probing
  /\ probe' = IF probe = "long" THEN "long" ELSE "short"
  /\ IF seenOk \/ outage # NoOutage
     THEN /\ IF outage = NoOutage
             THEN outage' \in Outages \ {since, stateFile.since, interrupted}
             ELSE UNCHANGED outage
          /\ reported' \in {TRUE, reported}
          /\ probe = "long" /\ outage # NoOutage => reported'
     ELSE UNCHANGED <<outage, reported>>
  /\ UNCHANGED <<saving, count, loop, timers, away, probing, seenOk, series, interrupted>>

\* outage_ms() goes on counting, results go stale.
TimePasses ==
  /\ \/ /\ probe = "short" /\ probe' = "long"
        /\ UNCHANGED timers
     \/ /\ probe = "up" /\ probe' = "unknown"
        /\ UNCHANGED timers
     \/ /\ cooling /\ cooling' = FALSE
        /\ UNCHANGED <<probe, warm>>
     \/ /\ ~warm /\ warm' = TRUE
        /\ UNCHANGED <<probe, cooling>>
  /\ UNCHANGED <<saving, count, loop, away, probing, seenOk, outage, reported, series,
                 interrupted>>

ProbeSwitched ==
  /\ probing' = ~probing
  /\ UNCHANGED <<saving, count, loop, timers, away, probe, seenOk, outage, reported, series,
                 interrupted>>

\* set_target(): samples and outage are forgotten.
TargetChanged ==
  /\ probe' = "unknown"
  /\ outage' = NoOutage /\ reported' = FALSE
  /\ interrupted' = NoOutage
  /\ UNCHANGED <<saving, count, loop, timers, away, probing, seenOk, series>>

\* Monitor::outage_ms() = Some(0), and as a mutant what the loop takes for connected.
NoFailure == probing /\ probe \in {"unknown", "up"}

\* Monitor::connected() = Some(true)
Connected == probing /\ probe = "up"

\* Mutant: only an outage that began in this process is kept.
OwnOutage == IF reported /\ seenOk THEN outage ELSE NoOutage

OutageSince == IF reported THEN outage ELSE NoOutage

-----------------------------------------------------------------------------
(* The loop. *)

\* set_reboots() before its write: memory first, and no write when nothing changed.
SetReboots(n, s, writing, after) ==
  /\ reboots' = n /\ since' = s
  /\ loop' = [loop EXCEPT !.pc = IF reboots = n /\ since = s THEN after ELSE writing]

\* The write; its failure is ignored.
StateWritten(from, to) ==
  /\ loop.pc = from
  /\ \/ /\ stateFile' = Record(reboots, since)
        /\ lost' = (lost /\ series # 0)
     \/ /\ lost' = TRUE /\ UNCHANGED stateFile
  /\ loop' = [loop EXCEPT !.pc = to]
  /\ UNCHANGED <<saving, reboots, since, timers, network, away, series, interrupted>>

\* A working connection ends the restart series.
LoopTop ==
  /\ loop.pc = "top"
  /\ dirty' = FALSE
  /\ IF Connected
     THEN /\ reboots' = 0 /\ since' = NoOutage
          /\ series' = IF probe = "up" THEN 0 ELSE series
          /\ loop' = [loop EXCEPT !.seen = settings.enabled,
                        !.pc = IF reboots = 0 /\ since = NoOutage THEN "choose"
                               ELSE "zeroing"]
     ELSE /\ loop' = [loop EXCEPT !.seen = settings.enabled, !.pc = "choose"]
          /\ UNCHANGED <<reboots, since, series>>
  /\ UNCHANGED <<settings, settingsFile, saver, stateFile, lost, timers, network, away,
                 interrupted>>

LoopZeroed == StateWritten("zeroing", "choose")

\* Switched off: no restart series continues.
LoopOff ==
  /\ loop.pc = "choose" /\ ~loop.seen
  /\ SetReboots(0, NoOutage, "clearing", "off")
  /\ series' = 0 /\ interrupted' = NoOutage
  /\ UNCHANGED <<saving, stateFile, lost, timers, network, away>>

LoopCleared == StateWritten("clearing", "off")

LoopWatches ==
  /\ loop.pc = "choose" /\ loop.seen
  /\ ~warm \/ cooling \/ ~probing \/ probe # "long"
  /\ loop' = LoopAt("sleep")
  /\ UNCHANGED <<saving, count, timers, network, away, series, interrupted>>

\* recover() works under the settings in force now.
LoopRecovers ==
  /\ loop.pc = "choose" /\ loop.seen
  /\ warm /\ ~cooling /\ probing /\ probe = "long"
  /\ loop' = [loop EXCEPT !.pc = "step", !.under = settings, !.tier = 0]
  /\ UNCHANGED <<saving, count, timers, network, away, series, interrupted>>

\* The tick, or a change of the settings, which is all a switched-off loop waits for.
LoopWakes ==
  /\ loop.pc = "sleep" \/ (loop.pc = "off" /\ dirty)
  /\ loop' = LoopAt("top")
  /\ UNCHANGED <<saving, count, timers, network, away, series, interrupted>>

-----------------------------------------------------------------------------
(* recover() *)

Later == {t \in loop.under.tiers : t > loop.tier}
NextTier == CHOOSE t \in Later : \A u \in Later : t <= u

\* Recovered, given up, or the settings were changed meanwhile.
Ends ==
  /\ loop' = LoopAt("sleep")
  /\ cooling' = TRUE
  /\ UNCHANGED <<saving, count, warm, network, away, series, interrupted>>

StepEnds ==
  /\ loop.pc = "step"
  /\ Later = {} \/ settings # loop.under
  /\ Ends

MayReboot == reboots < loop.under.max

Steps == loop.pc = "step" /\ Later # {} /\ settings = loop.under

StepModule ==
  /\ Steps /\ NextTier < 4
  /\ loop' = [loop EXCEPT !.tier = NextTier,
                !.pc = IF NextTier = 3 THEN "act" ELSE "wait"]
  /\ away' = (NextTier # 3 /\ away)
  /\ UNCHANGED <<saving, count, timers, network, series, interrupted>>

\* Counted before it is sent, with the outage on record.
StepReboot ==
  /\ Steps /\ NextTier = 4 /\ MayReboot
  /\ reboots' = reboots + 1 /\ since' = OutageSince
  /\ loop' = [loop EXCEPT !.tier = 4, !.pc = "counting"]
  /\ UNCHANGED <<saving, stateFile, lost, timers, network, away, series, interrupted>>

StepRebootLimit ==
  /\ Steps /\ NextTier = 4 /\ ~MayReboot
  /\ loop' = [loop EXCEPT !.tier = 4]
  /\ UNCHANGED <<saving, count, timers, network, away, series, interrupted>>

RebootCounted == StateWritten("counting", "reboot")

\* AT+CFUN=1,1; a module that obeys takes this process with it (Restart).
RebootSent ==
  /\ loop.pc = "reboot"
  /\ loop' = [loop EXCEPT !.pc = "rebooting"]
  /\ series' = IF series = SeriesCap THEN series ELSE series + 1
  /\ interrupted' = IF outage = since THEN since ELSE NoOutage
  /\ UNCHANGED <<saving, count, timers, network, away>>

\* Two minutes later the process is still there.
RebootIgnored ==
  /\ loop.pc = "rebooting"
  /\ Ends

\* switch_sim(): obeyed, or an error with the slot switched or not.
SwitchSim(ok) ==
  \/ away' = ~away
  \/ ~ok /\ UNCHANGED away

SimSwitched ==
  /\ loop.pc = "act"
  /\ \E ok \in BOOLEAN : SwitchSim(ok)
  /\ loop' = [loop EXCEPT !.pc = "wait"]
  /\ UNCHANGED <<saving, count, timers, network, series, interrupted>>

\* Back to where it started, whatever became of the first switch.
SimBack ==
  /\ loop.pc = "sim_back"
  /\ \E ok \in BOOLEAN : SwitchSim(ok)
  /\ loop' = [loop EXCEPT !.pc = "step"]
  /\ UNCHANGED <<saving, count, timers, network, series, interrupted>>

WaitRecovered ==
  /\ loop.pc = "wait" /\ NoFailure
  /\ Ends

WaitTimesOut ==
  /\ loop.pc = "wait" /\ ~NoFailure
  /\ loop' = [loop EXCEPT !.pc = IF loop.tier = 3 THEN "sim_back" ELSE "step"]
  /\ UNCHANGED <<saving, count, timers, network, away, series, interrupted>>

-----------------------------------------------------------------------------
(* new() and start(). *)

\* The outage that led to a restart goes on, unless the watchdog is off.
Resumed == IF settingsFile.enabled THEN stateFile.since ELSE NoOutage

Restart ==
  /\ settings' = settingsFile
  /\ saver' = [pc |-> "idle", new |-> settingsFile]
  /\ dirty' = FALSE
  /\ reboots' = stateFile.reboots /\ since' = stateFile.since
  /\ loop' = LoopAt("top")
  /\ cooling' = FALSE /\ warm' = FALSE
  /\ probe' = "unknown" /\ seenOk' = FALSE
  /\ outage' = Resumed /\ reported' = (Resumed # NoOutage)
  /\ interrupted' = IF settingsFile.enabled THEN interrupted ELSE NoOutage
  /\ UNCHANGED <<settingsFile, stateFile, lost, probing, away, series>>

Init ==
  /\ settings \in Choices
  /\ settingsFile = settings
  /\ saver = NoSave
  /\ dirty = FALSE
  /\ reboots = 0 /\ since = NoOutage
  /\ stateFile = Record(0, NoOutage)
  /\ loop = LoopAt("top")
  /\ cooling = FALSE /\ warm = FALSE
  /\ probing \in BOOLEAN
  /\ probe = "unknown" /\ seenOk = FALSE
  /\ outage = NoOutage /\ reported = FALSE
  /\ away = FALSE
  /\ series = 0 /\ interrupted = NoOutage /\ lost = FALSE

SaveStep == SaveRequest \/ SaveWrite \/ SaveApply \/ SaveDropped
ProbeStep == ProbeOk \/ ProbeFails \/ ProbeSwitched \/ TargetChanged
LoopStep ==
  \/ LoopTop \/ LoopZeroed \/ LoopOff \/ LoopCleared \/ LoopWatches \/ LoopRecovers
  \/ LoopWakes \/ StepEnds \/ StepModule \/ StepReboot \/ StepRebootLimit
  \/ RebootCounted \/ RebootSent \/ RebootIgnored \/ SimSwitched \/ SimBack
  \/ WaitRecovered \/ WaitTimesOut

Next == SaveStep \/ ProbeStep \/ TimePasses \/ LoopStep \/ Restart

Spec == Init /\ [][Next]_vars

-----------------------------------------------------------------------------
(* Properties. *)

Sends == loop.pc = "reboot" /\ loop'.pc = "rebooting"

\* The module is restarted at most `max' times until the connection has been seen again,
\* over any number of restarts of the program, changes of the settings and of the probe,
\* as long as the count could be written.
RebootLimit == [][Sends /\ ~lost => series' <= loop.under.max]_vars

\* docs/watchdog.md:18: the count is kept in watchdog-state.json and holds after the
\* restart, for at most max_reboots restarts in a row.
\* Stated, and part of no run: TLC finds it violated (README, section 4).
RebootLimitAlways == [][Sends => series' <= loop.under.max]_vars

\* The outage a restart interrupted is still in progress, with its own start, in every
\* later process, until the probe succeeds, its target changes or the watchdog is off.
OutageSurvives ==
  interrupted # NoOutage /\ ~lost => outage = interrupted /\ reported

\* watchdog.rs:422: when the other slot did not help either, the step goes back to where
\* it started: a switch that succeeded ends on the slot the step began with.
\* Stated, and part of no run: TLC finds it violated (README, section 4).
SimReturns ==
  [][loop.pc = "sim_back" /\ loop'.pc = "step" /\ away' # away => ~away']_vars

-----------------------------------------------------------------------------
(* The invariant the proofs rest on (WatchdogProofs).                      *)

\* The next restart is counted in memory, then on file, before it is sent.
NextIsCounted ==
  /\ loop.pc \in {"counting", "reboot"} => reboots \in 1..loop.under.max
  /\ loop.pc \in {"counting", "reboot"} /\ ~lost => series < reboots
  /\ loop.pc = "reboot" /\ ~lost => stateFile = Record(reboots, since)

\* Restarts are counted in memory and on file, unless a write was lost.
SeriesIsCounted == ~lost => series <= reboots /\ series <= stateFile.reboots

\* What is cleared has ended.
ClearedHasEnded ==
  loop.pc \in {"zeroing", "clearing"} =>
    /\ reboots = 0 /\ since = NoOutage
    /\ series = 0 /\ interrupted = NoOutage

\* An interrupted outage belongs to a series, and a working probe ends both.
InterruptedBelongs ==
  /\ interrupted # NoOutage => series # 0
  /\ probe = "up" => outage = NoOutage /\ interrupted = NoOutage

\* The outage that was counted is on record.
CountedIsReported == outage # NoOutage /\ outage = since => reported

\* The interrupted outage is the one in memory and on file.
InterruptedIsKept ==
  interrupted # NoOutage /\ ~lost =>
    /\ outage = interrupted /\ reported
    /\ since = interrupted /\ stateFile.since = interrupted

IndInv ==
  /\ TypeOK /\ NextIsCounted /\ SeriesIsCounted /\ ClearedHasEnded /\ InterruptedBelongs
  /\ CountedIsReported /\ InterruptedIsKept
=============================================================================
