----------------------------- MODULE GuardedLock -----------------------------
(***************************************************************************)
(* What the frequency lock promises its user, without requests, tasks,     *)
(* mutex or generations: one operation at a time has to do with the        *)
(* module, and at most one lock is on trial, the one recorded last.        *)
(*                                                                         *)
(* A lock is sent and then recorded, an unlock ends the trial, is sent and *)
(* recorded, and a trial without service puts the lock before it back,     *)
(* which may leave the module without one.  Each of these may fail, and a  *)
(* failure tells of itself: the report and the verdict speak of what was   *)
(* recorded and tried last.                                                *)
(***************************************************************************)
CONSTANTS Locks,       \* the locks a user asks for
          NoLock,      \* no lock at all
          Unreadable   \* what a file that cannot be read holds

VARIABLES module,   \* the lock the module holds
          file,     \* the lock on disk, or Unreadable
          memory,   \* the lock the service shows as saved
          report,   \* what became of the last lock or unlock
          verdict,  \* what became of the last trial
          trial,    \* the lock on trial and what it replaced
          busy,     \* the operation under way
          restore   \* the lock start() has to send again

vars == <<module, file, memory, report, verdict, trial, busy, restore>>

Entries == Locks \cup {NoLock}

Only(op) == [op |-> op, entries |-> NoLock, before |-> NoLock,
             kept |-> FALSE, tried |-> FALSE]
Nothing == Only("none")
TrialOf(back, before) == [stage |-> "trying", back |-> back, before |-> before,
                          restored |-> FALSE]
NoTrial == [stage |-> "none", back |-> NoLock, before |-> NoLock, restored |-> FALSE]

-----------------------------------------------------------------------------
(* The two things an operation does, each of which may fail. *)

\* The module takes the lock e; when the operation fails it may have done so or not.
Send(e, ok) == module' \in IF ok THEN {e} ELSE {module, e}

\* The lock e is saved in memory and on disk; a failed save changes neither.
Record(e, ok) ==
  IF ok THEN /\ memory' = e
             /\ file' = e \/ (memory = e /\ file' = file)
        ELSE UNCHANGED <<file, memory>>

-----------------------------------------------------------------------------
(* Locks. *)

Lock ==
  /\ busy = Nothing
  /\ \E e \in Locks, before \in Entries, kept, tried, ok \in BOOLEAN :
       /\ Send(e, ok)
       /\ busy' = IF ok THEN [op |-> "lock", entries |-> e, before |-> before,
                              kept |-> kept, tried |-> tried]
                        ELSE Nothing
  /\ UNCHANGED <<file, memory, report, verdict, trial, restore>>

LockRecorded ==
  /\ busy.op = "lock"
  /\ \E ok \in BOOLEAN : Record(IF busy.kept THEN busy.entries ELSE NoLock, ok)
  /\ report' = IF busy.kept THEN "persistent" ELSE "temporary"
  /\ verdict' = IF busy.tried THEN "checking" ELSE "idle"
  /\ trial' = IF busy.tried THEN TrialOf(busy.before, memory) ELSE NoTrial
  /\ busy' = Nothing
  /\ UNCHANGED <<module, restore>>

Unlock ==
  /\ busy = Nothing
  /\ busy' = Only("unlock")
  /\ verdict' = IF verdict = "checking" THEN "idle" ELSE verdict
  /\ trial' = NoTrial
  /\ UNCHANGED <<module, file, memory, report, restore>>

\* An unlock fails, or is given up, with the module still locked or not.
UnlockSent ==
  /\ busy.op = "unlock"
  /\ \E ok \in BOOLEAN :
       /\ Send(NoLock, ok)
       /\ busy' = IF ok THEN Only("unlocked") ELSE Nothing
  /\ UNCHANGED <<file, memory, report, verdict, trial, restore>>

\* The lock is gone for good only when that is saved: what is given up here may
\* still have reached the disk.
UnlockRecorded ==
  /\ busy.op = "unlocked"
  /\ busy' = Nothing
  /\ \/ Record(NoLock, TRUE) /\ report' = "unlocked"
     \/ file' \in {file, NoLock} /\ UNCHANGED <<memory, report>>
  /\ UNCHANGED <<module, verdict, trial, restore>>

-----------------------------------------------------------------------------
(* The trial of the lock recorded last. *)

At(stage) == trial.stage = stage
Goes(stage) == trial' = [trial EXCEPT !.stage = stage]

Serves ==
  /\ At("trying")
  /\ verdict' = "ok"
  /\ trial' = NoTrial
  /\ UNCHANGED <<module, file, memory, report, busy, restore>>

NoService ==
  /\ \/ At("trying") /\ Goes("failed")
     \/ At("back") /\ Goes("hopeless")
  /\ UNCHANGED <<module, file, memory, report, verdict, busy, restore>>

BackServes ==
  /\ At("back")
  /\ Goes("ending")
  /\ UNCHANGED <<module, file, memory, report, verdict, busy, restore>>

PutBack ==
  /\ At("failed")
  /\ busy = Nothing
  /\ \E ok \in BOOLEAN :
       /\ Send(trial.back, ok)
       /\ trial' = [stage |-> IF ok /\ trial.back # NoLock THEN "back" ELSE "ending",
                    back |-> trial.back, before |-> trial.before, restored |-> ok]
  /\ UNCHANGED <<file, memory, report, verdict, busy, restore>>

\* Neither lock serves: the module is left without one.
Clear ==
  /\ At("hopeless")
  /\ busy = Nothing
  /\ \E ok \in BOOLEAN :
       /\ Send(NoLock, ok)
       /\ trial' = [stage |-> "ending", back |-> NoLock, before |-> trial.before,
                    restored |-> ok]
  /\ UNCHANGED <<file, memory, report, verdict, busy, restore>>

\* "reverted" is said of a lock that was put back and saved, of no other.
End ==
  /\ At("ending")
  /\ busy = Nothing
  /\ \E ok \in BOOLEAN :
       /\ Record(IF trial.back = NoLock THEN NoLock ELSE trial.before, ok)
       /\ verdict' = IF trial.restored /\ ok THEN "reverted" ELSE "failed"
  /\ report' = IF trial.back = NoLock THEN "unlocked" ELSE "temporary"
  /\ trial' = NoTrial
  /\ UNCHANGED <<module, busy, restore>>

-----------------------------------------------------------------------------
(* The start of the program: what was saved when it began is sent once. *)

Loaded(m) == m = IF file = Unreadable THEN NoLock ELSE file

Start ==
  /\ Loaded(memory')
  /\ report' = ""
  /\ verdict' = "idle"
  /\ trial' = NoTrial
  /\ busy' = Nothing
  /\ restore' = [known |-> FALSE, entries |-> NoLock]
  /\ UNCHANGED <<module, file>>

RestoreRead ==
  /\ ~restore.known
  /\ restore' = [known |-> TRUE, entries |-> memory]
  /\ UNCHANGED <<module, file, memory, report, verdict, trial, busy>>

Restore ==
  /\ restore.entries # NoLock
  /\ busy = Nothing
  /\ \/ /\ Send(restore.entries, TRUE)
        /\ report' = "persistent"
        /\ verdict' = "checking"
        /\ trial' = TrialOf(NoLock, NoLock)
     \/ /\ Send(restore.entries, FALSE)
        /\ report' = "restore_failed"
        /\ trial' = NoTrial
        /\ UNCHANGED verdict
  /\ restore' = [known |-> TRUE, entries |-> NoLock]
  /\ UNCHANGED <<file, memory, busy>>

ModuleRestarts ==
  /\ module' = NoLock
  /\ UNCHANGED <<file, memory, report, verdict, trial, busy, restore>>

Init ==
  /\ module \in Entries
  /\ file \in Entries \cup {Unreadable}
  /\ Loaded(memory)
  /\ report = ""
  /\ verdict = "idle"
  /\ trial = NoTrial
  /\ busy = Nothing
  /\ restore = [known |-> FALSE, entries |-> NoLock]

Next ==
  \/ Lock \/ LockRecorded
  \/ Unlock \/ UnlockSent \/ UnlockRecorded
  \/ Serves \/ NoService \/ BackServes \/ PutBack \/ Clear \/ End
  \/ Start \/ RestoreRead \/ Restore
  \/ ModuleRestarts

Spec == Init /\ [][Next]_vars
=============================================================================
