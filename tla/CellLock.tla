------------------------------ MODULE CellLock ------------------------------
(***************************************************************************)
(* The cell locks of both radios, src/src/cell_lock.rs.                    *)
(*                                                                         *)
(* Requests (apply(), in a spawned task no disconnect can cut off) and one *)
(* background task (start(): restore(), then check() every 5 s or when     *)
(* `changed' is notified) share a tokio mutex.  A persistent lock with     *)
(* auto_unlock has 180 s to get a data session, or it is disabled in the   *)
(* file and removed from the module.                                       *)
(*                                                                         *)
(* Abstracted: a deadline is a stage, not an instant: "fresh" in its first *)
(* 15 s, "settled" after, "due" when it has passed; the stages of the two  *)
(* radios advance independently.                                           *)
(***************************************************************************)
EXTENDS Naturals

CONSTANTS RadioCount, \* 2 in the code: LTE is 1, NR is 2
          Cells,     \* the cells a lock can name
          NoCell,    \* no lock
          Unreadable, \* a file that does not decode
          Clients    \* requests that can be in flight together

ASSUME RadioAssumption == RadioCount \in Nat \ {0}
ASSUME NoCellAssumption == NoCell \notin Cells

VARIABLES modem,     \* per radio: the cell the module is locked to
          file,      \* cell-locks.json decoded, or Unreadable
          rules,     \* State.settings.rules
          stored,    \* State.stored
          phase,     \* Runtime.phase
          deadline,  \* Runtime.deadline
          touched,   \* Runtime.touched
          unsure,    \* history, per radio: a command's answer was lost or a failure ignored
          permit,    \* the stored permit of Notify `changed'
          mutation,  \* who holds the tokio mutex
          client,    \* the requests
          keeper     \* the background task

runtime == <<phase, deadline, touched>>
settings == <<rules, stored>>
vars == <<modem, file, rules, stored, phase, deadline, touched, unsure, permit,
          mutation, client, keeper>>

-----------------------------------------------------------------------------

Radio == 1..RadioCount
Free == <<"free">>
Keeper == <<"keeper">>
Client(c) == <<"client", c>>

\* Rule, with NoRule for None.
NoRule == [cell |-> NoCell, auto |-> FALSE, enabled |-> FALSE]
Rule == [cell : Cells, auto : BOOLEAN, enabled : BOOLEAN] \cup {NoRule}
Settings == [Radio -> Rule]

NoRequest == [pc |-> "idle", radio |-> 1, cell |-> NoCell,
              persistent |-> FALSE, auto |-> FALSE]
NewKeeper == [pc |-> "starting", at |-> 1, connected |-> FALSE, saved |-> FALSE]

TypeOK ==
  /\ modem \in [Radio -> Cells \cup {NoCell}]
  /\ file \in Settings \cup {Unreadable}
  /\ rules \in Settings
  /\ stored \in BOOLEAN
  /\ phase \in [Radio -> {"", "temporary", "persistent", "unlocked", "connected",
                          "fallback", "fallback_error"}]
  /\ deadline \in [Radio -> {"none", "fresh", "settled", "due"}]
  /\ touched \in [Radio -> BOOLEAN]
  /\ unsure \in [Radio -> BOOLEAN]
  /\ permit \in BOOLEAN
  /\ mutation \in {Free, Keeper} \cup {Client(c) : c \in Clients}
  /\ client \in [Clients ->
       [pc : {"idle", "wait", "send", "save", "rollback", "notify"},
        radio : Radio, cell : Cells \cup {NoCell}, persistent : BOOLEAN, auto : BOOLEAN]]
  /\ keeper \in [pc : {"starting", "restore_wait", "restore", "sleep", "wait",
                       "check_wait", "query", "decide", "unlock",
                       "done"},
                 at : 1..(RadioCount + 1), connected : BOOLEAN, saved : BOOLEAN]

-----------------------------------------------------------------------------
(* What a call can come back with. *)

\* run_lock(): obeyed; refused, which is no failure for an unlock when the query then
\* shows no lock; or obeyed with the answer lost.
RunLock(r, cell, ok) ==
  \/ /\ ok
     /\ modem' = [modem EXCEPT ![r] = cell]
     /\ unsure' = [unsure EXCEPT ![r] = FALSE]
  \/ /\ ~ok
     /\ cell = NoCell => modem[r] # NoCell
     /\ UNCHANGED <<modem, unsure>>
  \/ /\ ~ok
     /\ modem' = [modem EXCEPT ![r] = cell]
     /\ unsure' = [unsure EXCEPT ![r] = TRUE]

\* A command whose failure changes nothing in what the service records.
RunIgnoring(r, cell, ok) ==
  /\ modem' \in {[modem EXCEPT ![r] = cell]} \cup IF ok THEN {} ELSE {modem}
  /\ unsure' = [unsure EXCEPT ![r] = ~ok]

\* persist(): "committed" is an error after the rename, "failed" one before it.
Persist(next, result) ==
  \/ /\ stored /\ rules = next
     /\ result = "ok"
     /\ UNCHANGED <<file, rules, stored>>
  \/ /\ ~(stored /\ rules = next)
     /\ result \in {"ok", "committed"}
     /\ file' = next /\ rules' = next /\ stored' = TRUE
  \/ /\ ~(stored /\ rules = next)
     /\ result = "failed"
     /\ UNCHANGED <<file, rules, stored>>

Results == {"ok", "committed", "failed"}
Acquire(t) == mutation = Free /\ mutation' = t
Release(t) == mutation = t /\ mutation' = Free

-----------------------------------------------------------------------------
(* apply() *)

\* Parameters and carrier policy are checked before the mutex is asked for; a lock
\* removes itself only when it is persistent.
Request(c) ==
  /\ client[c].pc = "idle"
  /\ \E r \in Radio, cell \in Cells \cup {NoCell}, persistent, auto \in BOOLEAN :
       /\ cell = NoCell => ~persistent
       /\ auto => persistent
       /\ client' = [client EXCEPT ![c] = [pc |-> "wait", radio |-> r, cell |-> cell,
                                           persistent |-> persistent, auto |-> auto]]
  /\ UNCHANGED <<modem, file, settings, runtime, unsure, permit, mutation, keeper>>

ApplyAcquire(c) ==
  /\ client[c].pc = "wait"
  /\ Acquire(Client(c))
  /\ client' = [client EXCEPT ![c].pc = "send"]
  /\ UNCHANGED <<modem, file, settings, runtime, unsure, permit, keeper>>

ApplySend(c) ==
  /\ client[c].pc = "send"
  /\ \E ok \in BOOLEAN :
       /\ RunLock(client[c].radio, client[c].cell, ok)
       /\ IF ok
          THEN /\ client' = [client EXCEPT ![c].pc = "save"]
               /\ UNCHANGED mutation
          ELSE /\ client' = [client EXCEPT ![c] = NoRequest]
               /\ Release(Client(c))
  /\ UNCHANGED <<file, settings, runtime, permit, keeper>>

\* The rule a request leaves in the settings.
RuleOf(c) ==
  IF client[c].persistent
  THEN [cell |-> client[c].cell, auto |-> client[c].auto, enabled |-> TRUE]
  ELSE NoRule

\* The runtime of a radio is replaced by what the request installed; a save that failed
\* before the rename puts the module back first.
ApplySave(c) ==
  LET r == client[c].radio IN
  /\ client[c].pc = "save"
  /\ \E result \in Results :
       /\ Persist([rules EXCEPT ![r] = RuleOf(c)], result)
       /\ IF result = "failed"
          THEN /\ client' = [client EXCEPT ![c].pc = "rollback"]
               /\ UNCHANGED runtime
          ELSE /\ client' = [client EXCEPT ![c].pc = "notify"]
               /\ phase' = [phase EXCEPT ![r] =
                              IF client[c].cell = NoCell THEN "unlocked"
                              ELSE IF client[c].persistent THEN "persistent"
                              ELSE "temporary"]
               /\ deadline' = [deadline EXCEPT ![r] =
                                 IF client[c].auto THEN "fresh" ELSE "none"]
               /\ touched' = [touched EXCEPT ![r] = TRUE]
  /\ UNCHANGED <<modem, unsure, permit, mutation, keeper>>

\* Mutant: the module keeps the lock that could not be saved.
WhatIsThere(r) == modem[r]

\* The enabled rule that is still saved, or no lock.
Before(r) == IF rules[r].enabled THEN rules[r].cell ELSE NoCell

ApplyRollback(c) ==
  LET r == client[c].radio IN
  /\ client[c].pc = "rollback"
  /\ \E ok \in BOOLEAN : RunIgnoring(r, Before(r), ok)
  /\ client' = [client EXCEPT ![c] = NoRequest]
  /\ Release(Client(c))
  /\ UNCHANGED <<file, settings, runtime, permit, keeper>>

\* Mutant: nobody is told of the new deadline.
NoPermit == UNCHANGED permit

Notify == permit' = TRUE

ApplyNotify(c) ==
  /\ client[c].pc = "notify"
  /\ Notify
  /\ client' = [client EXCEPT ![c] = NoRequest]
  /\ Release(Client(c))
  /\ UNCHANGED <<modem, file, settings, runtime, unsure, keeper>>

-----------------------------------------------------------------------------
(* start(): restore(), then check() for ever.  keeper.at is the radio of the loops. *)

KeeperStarts ==
  /\ keeper.pc = "starting"
  /\ keeper' = [keeper EXCEPT !.pc = "restore_wait"]
  /\ UNCHANGED <<modem, file, settings, runtime, unsure, permit, mutation, client>>

KeeperAcquire ==
  /\ keeper.pc \in {"restore_wait", "check_wait"}
  /\ Acquire(Keeper)
  /\ keeper' = [keeper EXCEPT !.at = 1,
                  !.pc = IF @ = "restore_wait" THEN "restore"
                         ELSE IF \E r \in Radio : deadline[r] # "none" THEN "query"
                         ELSE "done"]
  /\ UNCHANGED <<modem, file, settings, runtime, unsure, permit, client>>

\* Radios a request already touched, or without an enabled rule, are skipped.
Restorable == {r \in Radio : r >= keeper.at /\ ~touched[r] /\ rules[r].enabled}

\* Mutant: only a restore the module accepted is guarded.
GuardIfObeyed(auto, ok) == IF auto /\ ok THEN "fresh" ELSE "none"

RestoredDeadline(auto, ok) == IF auto THEN "fresh" ELSE "none"

\* A restore the module refused is recorded as persistent all the same.
Restore ==
  /\ keeper.pc = "restore"
  /\ \E r \in Restorable, ok \in BOOLEAN :
       /\ \A q \in Restorable : r <= q
       /\ RunIgnoring(r, rules[r].cell, ok)
       /\ phase' = [phase EXCEPT ![r] = "persistent"]
       /\ deadline' = [deadline EXCEPT ![r] = RestoredDeadline(rules[r].auto, ok)]
       /\ touched' = [touched EXCEPT ![r] = TRUE]
       /\ keeper' = [keeper EXCEPT !.at = r + 1]
  /\ UNCHANGED <<file, settings, permit, mutation, client>>

RestoreDone ==
  /\ keeper.pc = "restore"
  /\ Restorable = {}
  /\ keeper' = [keeper EXCEPT !.pc = "done"]
  /\ UNCHANGED <<modem, file, settings, runtime, unsure, permit, mutation, client>>

\* The mutex is released, and the loop picks its next sleep at once.
KeeperReleases ==
  /\ keeper.pc = "done"
  /\ Release(Keeper)
  /\ keeper' = [NewKeeper EXCEPT
                  !.pc = IF \E r \in Radio : deadline[r] # "none" THEN "sleep" ELSE "wait"]
  /\ UNCHANGED <<modem, file, settings, runtime, unsure, permit, client>>

\* Five seconds pass, which only a task with a deadline to watch sleeps for.
KeeperTimer ==
  /\ keeper.pc = "sleep"
  /\ keeper' = [keeper EXCEPT !.pc = "check_wait"]
  /\ UNCHANGED <<modem, file, settings, runtime, unsure, permit, mutation, client>>

KeeperNotified ==
  /\ keeper.pc \in {"sleep", "wait"}
  /\ permit
  /\ permit' = FALSE
  /\ keeper' = [keeper EXCEPT !.pc = "check_wait"]
  /\ UNCHANGED <<modem, file, settings, runtime, unsure, mutation, client>>

\* AT+QMAP="WWAN": is there a data session?
CheckQuery ==
  /\ keeper.pc = "query"
  /\ \E connected \in BOOLEAN :
       keeper' = [keeper EXCEPT !.pc = "decide", !.connected = connected]
  /\ UNCHANGED <<modem, file, settings, runtime, unsure, permit, mutation, client>>

\* Mutant: a radio whose fallback has begun is taken for connected.
AnyConnection(r) == keeper.connected /\ deadline[r] \in {"settled", "due"}

Connected(r) ==
  keeper.connected /\ phase[r] # "fallback_error" /\ deadline[r] \in {"settled", "due"}

CheckConnected ==
  LET r == keeper.at IN
  /\ keeper.pc = "decide" /\ r \in Radio
  /\ Connected(r)
  /\ deadline' = [deadline EXCEPT ![r] = "none"]
  /\ phase' = [phase EXCEPT ![r] = "connected"]
  /\ keeper' = [keeper EXCEPT !.at = r + 1]
  /\ UNCHANGED <<modem, file, settings, touched, unsure, permit, mutation, client>>

\* Mutant: the rule is removed from the module only.
RuleLeftEnabled(r) == rules

\* What is saved before the module is unlocked: the rule is no longer restored.
RulesWithout(r) == [rules EXCEPT ![r].enabled = FALSE]

\* The time is up: disable the restore first.
CheckSave ==
  LET r == keeper.at IN
  /\ keeper.pc = "decide" /\ r \in Radio
  /\ ~Connected(r) /\ deadline[r] = "due"
  /\ \E result \in Results :
       /\ Persist(RulesWithout(r), result)
       /\ keeper' = [keeper EXCEPT !.pc = "unlock", !.saved = (result = "ok")]
  /\ UNCHANGED <<modem, runtime, unsure, permit, mutation, client>>

FallbackComplete(ok) == keeper.saved /\ ok

CheckUnlock ==
  LET r == keeper.at IN
  /\ keeper.pc = "unlock"
  /\ \E ok \in BOOLEAN :
       /\ RunLock(r, NoCell, ok)
       /\ deadline' = IF FallbackComplete(ok) THEN [deadline EXCEPT ![r] = "none"]
                      ELSE deadline
       /\ phase' = [phase EXCEPT ![r] = IF FallbackComplete(ok) THEN "fallback"
                                        ELSE "fallback_error"]
  /\ keeper' = [keeper EXCEPT !.pc = "decide", !.at = r + 1]
  /\ UNCHANGED <<file, settings, touched, permit, mutation, client>>

\* Radios without a deadline, or with time left, are passed over.
CheckNext ==
  /\ keeper.pc = "decide"
  /\ IF keeper.at \in Radio
     THEN /\ ~Connected(keeper.at) /\ deadline[keeper.at] # "due"
          /\ keeper' = [keeper EXCEPT !.at = keeper.at + 1]
     ELSE keeper' = [keeper EXCEPT !.pc = "done"]
  /\ UNCHANGED <<modem, file, settings, runtime, unsure, permit, mutation, client>>

-----------------------------------------------------------------------------
(* Time, and restarts of the program and of the module. *)

TimePasses(r) ==
  /\ deadline[r] \in {"fresh", "settled"}
  /\ deadline' = [deadline EXCEPT ![r] = IF @ = "fresh" THEN "settled" ELSE "due"]
  /\ UNCHANGED <<modem, file, settings, phase, touched, unsure, permit, mutation,
                 client, keeper>>

Loaded(rs, st) ==
  /\ rs = IF file = Unreadable THEN [r \in Radio |-> NoRule] ELSE file
  /\ st = (file # Unreadable)

Restart ==
  /\ Loaded(rules', stored')
  /\ phase' = [r \in Radio |-> ""]
  /\ deadline' = [r \in Radio |-> "none"]
  /\ touched' = [r \in Radio |-> FALSE]
  /\ unsure' = [r \in Radio |-> FALSE]
  /\ permit' = FALSE
  /\ mutation' = Free
  /\ client' = [c \in Clients |-> NoRequest]
  /\ keeper' = NewKeeper
  /\ UNCHANGED <<modem, file>>

ModuleRestarts ==
  /\ \E r \in Radio : modem[r] # NoCell
  /\ modem' = [r \in Radio |-> NoCell]
  /\ UNCHANGED <<file, settings, runtime, unsure, permit, mutation, client, keeper>>

Init ==
  /\ modem \in [Radio -> Cells \cup {NoCell}]
  /\ file \in {[r \in Radio |-> NoRule], Unreadable}
  /\ Loaded(rules, stored)
  /\ phase = [r \in Radio |-> ""]
  /\ deadline = [r \in Radio |-> "none"]
  /\ touched = [r \in Radio |-> FALSE]
  /\ unsure = [r \in Radio |-> FALSE]
  /\ permit = FALSE
  /\ mutation = Free
  /\ client = [c \in Clients |-> NoRequest]
  /\ keeper = NewKeeper

ApplyStep(c) ==
  \/ ApplyAcquire(c) \/ ApplySend(c) \/ ApplySave(c) \/ ApplyRollback(c)
  \/ ApplyNotify(c)

KeeperStep ==
  \/ KeeperStarts \/ KeeperAcquire \/ Restore \/ RestoreDone \/ KeeperReleases
  \/ KeeperTimer \/ KeeperNotified \/ CheckQuery \/ CheckConnected \/ CheckSave
  \/ CheckUnlock \/ CheckNext

Next ==
  \/ \E c \in Clients : Request(c) \/ ApplyStep(c)
  \/ KeeperStep
  \/ \E r \in Radio : TimePasses(r)
  \/ Restart
  \/ ModuleRestarts

\* Commands and writes are answered, time passes, and the tokio mutex is granted in the
\* order it was asked for.
Fairness ==
  /\ \A c \in Clients :
       /\ WF_vars(ApplySend(c) \/ ApplySave(c) \/ ApplyRollback(c) \/ ApplyNotify(c))
       /\ SF_vars(ApplyAcquire(c))
  /\ WF_vars(KeeperStep /\ keeper.pc \notin {"restore_wait", "check_wait"})
  /\ SF_vars(KeeperAcquire)
  /\ \A r \in Radio : WF_vars(TimePasses(r))

Spec == Init /\ [][Next]_vars
FairSpec == Spec /\ Fairness

-----------------------------------------------------------------------------
(* Properties. *)

\* Whoever is between taking and releasing the mutex holds it.
Quiet == mutation = Free

\* A saved lock that removes itself is never left unwatched once the restore is over:
\* its time runs, or a data session was seen.  No order of requests, failed writes,
\* lost answers and restarts leaves the module locked to such a cell for good.
AutoUnlockIsWatched ==
  Quiet /\ keeper.pc \notin {"starting", "restore_wait"} =>
    \A r \in Radio : rules[r].enabled /\ rules[r].auto =>
      deadline[r] # "none" \/ phase[r] = "connected"

\* A lock that removed itself, or that a request removed, is gone from the module and is
\* not sent again after a restart.
RemovedIsGone ==
  Quiet => \A r \in Radio : phase[r] \in {"unlocked", "fallback"} =>
    /\ ~rules[r].enabled
    /\ stored => file = rules
    /\ ~unsure[r] => modem[r] = NoCell

\* What the module is locked to is what was saved, or a lock reported as temporary; a
\* request that failed half-way left it so.
ModuleHoldsSaved ==
  Quiet => \A r \in Radio :
    phase[r] \in {"persistent", "connected"} /\ ~unsure[r] =>
      modem[r] \in {NoCell, rules[r].cell}

\* The background task never sleeps without an end while a deadline runs: the permit of
\* `changed' is there, or the request that set the deadline still holds the mutex.
NoLostWakeup ==
  keeper.pc = "wait" /\ (\E r \in Radio : deadline[r] # "none") =>
    permit \/ \E c \in Clients : client[c].pc = "notify"

\* A deadline that has passed is dealt with: the lock was seen connected, or its removal
\* began, or a request replaced it.
DueIsDecided ==
  \A r \in Radio :
    deadline[r] = "due" ~> deadline[r] # "due" \/ phase[r] = "fallback_error"

\* A removal that failed half-way is tried again, "shows an error and tries again"
\* (docs/sms-cell-lock.md:50), after each failure once more and with both halves, until
\* module and settings are rid of the lock: no connection seen meanwhile, no missed
\* wake-up and no other request calls it off.  Only a request for the radio or a restart
\* of the program takes its place.
Removed(r) == phase[r] = "fallback" /\ ~rules[r].enabled /\ deadline[r] = "none"
Superseded(r) == phase[r] \in {"", "temporary", "persistent", "unlocked"}
Retried(r) == keeper.pc = "unlock" /\ keeper.at = r
RemovalIsRetried ==
  \A r \in Radio : phase[r] = "fallback_error" ~> Retried(r) \/ Removed(r) \/ Superseded(r)

-----------------------------------------------------------------------------
(* The invariant the proofs rest on (CellLockProofs).                      *)

InSection(c) == client[c].pc \in {"send", "save", "rollback", "notify"}
KeeperInside == keeper.pc \in {"restore", "query", "decide", "unlock", "done"}

\* Whoever is between taking and releasing the mutex holds it.
Holding ==
  /\ \A c \in Clients : InSection(c) => mutation = Client(c)
  /\ KeeperInside => mutation = Keeper

\* Only persistent locks remove themselves, and an unlock is not one.
RequestsAreSound ==
  \A c \in Clients : /\ client[c].cell = NoCell => ~client[c].persistent
                     /\ client[c].auto => client[c].persistent

SavedIsOnFile == stored => file = rules

\* The restore has dealt with a radio: a request touched it, or it has no rule
\* to send.
Restored(r) == touched[r] \/ ~rules[r].enabled

RestoreCovers ==
  /\ keeper.pc = "restore" => \A r \in Radio : r < keeper.at => Restored(r)
  /\ keeper.pc \notin {"starting", "restore_wait", "restore"} => \A r \in Radio : Restored(r)

TouchedIsWatched ==
  \A r \in Radio : touched[r] /\ rules[r].enabled /\ rules[r].auto =>
    deadline[r] # "none" \/ phase[r] = "connected"

\* Only a lock that was installed as persistent has a deadline.
DeadlinesBelong ==
  \A r \in Radio : deadline[r] # "none" => phase[r] \in {"persistent", "fallback_error"}

\* The removal under way is of a radio whose time is up; once saved, its rule
\* is not restored.
RemovalIsDue ==
  keeper.pc = "unlock" =>
    /\ keeper.at \in Radio /\ deadline[keeper.at] = "due"
    /\ keeper.saved => ~rules[keeper.at].enabled

\* A request has changed this radio's module and not yet what is recorded.
Changing(r) == \E c \in Clients : client[c].pc \in {"save", "rollback"} /\ client[c].radio = r

Known ==
  /\ \A c \in Clients : client[c].pc = "save" =>
       modem[client[c].radio] \in {NoCell, client[c].cell}
  /\ \A r \in Radio :
       /\ phase[r] \in {"unlocked", "fallback"} =>
            /\ ~rules[r].enabled
            /\ Changing(r) \/ unsure[r] \/ modem[r] = NoCell
       /\ phase[r] \in {"persistent", "connected"} =>
            Changing(r) \/ unsure[r] \/ modem[r] \in {NoCell, rules[r].cell}

IndInv ==
  /\ TypeOK /\ Holding /\ RequestsAreSound /\ SavedIsOnFile /\ RestoreCovers /\ TouchedIsWatched
  /\ DeadlinesBelong /\ RemovalIsDue /\ Known /\ NoLostWakeup
=============================================================================
