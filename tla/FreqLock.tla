------------------------------ MODULE FreqLock ------------------------------
(***************************************************************************)
(* The NR5G frequency lock service, src/src/freq_lock.rs, with the request *)
(* handlers of src/src/server.rs that drive it.                            *)
(*                                                                         *)
(* Everything runs on one current-thread executor, so a step is the code   *)
(* between two awaits.  Handlers (Clients), the restore task started with  *)
(* the program (boot) and one guard task per generation (watch) meet at    *)
(* the tokio mutex `mutation'.  The modem holds the lock in force          *)
(* (modem), the file freq-lock.json the one sent again after a restart     *)
(* (file), and memory a copy of the file (saved).                          *)
(*                                                                         *)
(* Abstracted: entry lists are the members of Locks, the empty list is     *)
(* NoLock; the checks a request passes before it reaches the service only  *)
(* choose which members of Locks are requested.  Whether the module finds  *)
(* service is a free choice.  MaxGeneration bounds `generation': a request *)
(* waits for a restart once it is reached.                                 *)
(***************************************************************************)
EXTENDS Naturals

CONSTANTS Locks,          \* the non-empty entry lists that requests name
          NoLock,         \* the empty entry list
          Clients,        \* request handlers that can be in flight together
          MaxGeneration   \* bound on `generation'

ASSUME NoLockAssumption == NoLock \notin Locks
ASSUME BoundAssumption == MaxGeneration \in Nat \ {0}

VARIABLES modem,       \* the lock the module holds
          file,        \* what freq-lock.json decodes to, or Unreadable
          saved,       \* State.saved
          stored,      \* State.stored: FALSE while the file could not be decoded
          phase,       \* State.phase
          guard,       \* State.guard
          generation,  \* State.generation
          unsure,      \* history: the last lock or unlock command lost its answer
          mutation,    \* who holds the tokio mutex
          client,      \* the handlers
          boot,        \* the task spawned by start()
          watch        \* the task watch() spawned for each generation

service == <<saved, stored, phase, guard, generation>>
tasks == <<client, boot, watch>>
vars == <<modem, file, saved, stored, phase, guard, generation, unsure,
          mutation, client, boot, watch>>

-----------------------------------------------------------------------------

Entries == Locks \cup {NoLock}
Unreadable == "unreadable"
Generations == 1..MaxGeneration

Free == <<"free">>
Boot == <<"boot">>
Client(c) == <<"client", c>>
Watch(g) == <<"watch", g>>

NoRequest == [pc |-> "idle", entries |-> NoLock, previous |-> NoLock,
              persistent |-> FALSE, guarded |-> FALSE]
NoWatch == [pc |-> "off", back |-> NoLock, before |-> NoLock, restored |-> FALSE]

ClientSections == {"lock_send", "lock_save", "unlock_send", "unlock_save"}
WatchSections == {"revert", "drop", "final"}

Phases == {"", "temporary", "persistent", "unlocked", "restore_failed"}
Guards == {"idle", "checking", "ok", "reverted", "failed"}
Holders == {Free, Boot} \cup {Client(c) : c \in Clients}
                        \cup {Watch(g) : g \in Generations}
ClientState == [pc : {"idle", "lock_wait", "unlock_wait"} \cup ClientSections,
                entries : Entries, previous : Entries,
                persistent : BOOLEAN, guarded : BOOLEAN]
BootState == [pc : {"starting", "lock_wait", "send", "off"}, entries : Entries]
WatchState == [pc : {"off", "confirm", "revert_wait", "confirm_back", "drop_wait",
                     "final_wait"} \cup WatchSections,
               back : Entries, before : Entries, restored : BOOLEAN]

TypeOK ==
  /\ modem \in Entries
  /\ file \in Entries \cup {Unreadable}
  /\ saved \in Entries
  /\ stored \in BOOLEAN
  /\ phase \in Phases
  /\ guard \in Guards
  /\ generation \in 0..MaxGeneration
  /\ unsure \in BOOLEAN
  /\ mutation \in Holders
  /\ client \in [Clients -> ClientState]
  /\ boot \in BootState
  /\ watch \in [Generations -> WatchState]

-----------------------------------------------------------------------------
(* What a call can come back with: ok is its result. *)

\* A lock command is obeyed, refused, or obeyed with the answer lost.
LockCommand(e, ok) ==
  \/ ok /\ modem' = e /\ unsure' = FALSE
  \/ ~ok /\ UNCHANGED <<modem, unsure>>
  \/ ~ok /\ modem' = e /\ unsure' = TRUE

\* unlock(): a refusal counts as done when the query then shows no lock.
UnlockCommand(ok) ==
  \/ ok /\ modem' = NoLock /\ unsure' = FALSE
  \/ ~ok /\ modem # NoLock /\ UNCHANGED <<modem, unsure>>
  \/ ~ok /\ modem' = NoLock /\ unsure' = TRUE

\* Mutant: memory keeps the old value although the file was replaced.
PersistForgets(next, ok) ==
  \/ ok /\ file' = next /\ stored' = TRUE /\ UNCHANGED saved
  \/ ~ok /\ UNCHANGED <<file, saved, stored>>

\* persist(next): an unchanged value is not written; a write whose rename happened
\* counts even when making it durable failed.
Persist(next, ok) ==
  \/ ok /\ stored /\ saved = next /\ UNCHANGED <<file, saved, stored>>
  \/ /\ ok
     /\ ~(stored /\ saved = next)
     /\ file' = next
     /\ saved' = next
     /\ stored' = TRUE
  \/ ~ok /\ ~(stored /\ saved = next) /\ UNCHANGED <<file, saved, stored>>

-----------------------------------------------------------------------------
(* The mutex. *)

\* Mutant: the mutex is not waited for.
EntersAnyway(t) == mutation' = t

Acquire(t) == mutation = Free /\ mutation' = t
Release(t) == mutation = t /\ mutation' = Free

\* One more generation; the bound must leave room for it before the mutex is taken.
Room == generation < MaxGeneration

NextGeneration == generation' = generation + 1

-----------------------------------------------------------------------------
(* Requests. *)

\* freq_lock_set reads the lock in force, runs its checks and asks for the mutex.
LockRequest(c) ==
  /\ client[c].pc = "idle"
  /\ \E e \in Locks, p, g \in BOOLEAN :
       client' = [client EXCEPT ![c] =
                    [pc |-> "lock_wait", entries |-> e, previous |-> modem,
                     persistent |-> p, guarded |-> g]]
  /\ UNCHANGED <<modem, unsure, file, service, mutation, boot, watch>>

LockAcquire(c) ==
  /\ client[c].pc = "lock_wait"
  /\ Room
  /\ Acquire(Client(c))
  /\ client' = [client EXCEPT ![c].pc = "lock_send"]
  /\ UNCHANGED <<modem, unsure, file, service, boot, watch>>

\* lock(): an error or a refusal ends the request before anything is recorded.
LockSend(c) ==
  /\ client[c].pc = "lock_send"
  /\ \E ok \in BOOLEAN :
       /\ LockCommand(client[c].entries, ok)
       /\ IF ok
          THEN /\ client' = [client EXCEPT ![c].pc = "lock_save"]
               /\ UNCHANGED mutation
          ELSE /\ client' = [client EXCEPT ![c] = NoRequest]
               /\ Release(Client(c))
  /\ UNCHANGED <<file, service, boot, watch>>

\* What lock() saves: the entries, or nothing for a temporary lock.
SavedBy(c) == IF client[c].persistent THEN client[c].entries ELSE NoLock

\* watch(): a task of its own for the generation just begun.
Spawn(g, previous, before) ==
  watch' = [watch EXCEPT ![g] = [pc |-> "confirm", back |-> previous,
                                 before |-> before, restored |-> FALSE]]

\* The rest of lock(): a failed save is only a warning.
LockSave(c) ==
  /\ client[c].pc = "lock_save"
  /\ \E ok \in BOOLEAN : Persist(SavedBy(c), ok)
  /\ phase' = IF client[c].persistent THEN "persistent" ELSE "temporary"
  /\ NextGeneration
  /\ IF client[c].guarded
     THEN /\ guard' = "checking"
          /\ Spawn(generation + 1, client[c].previous, saved)
     ELSE /\ guard' = "idle"
          /\ UNCHANGED watch
  /\ client' = [client EXCEPT ![c] = NoRequest]
  /\ Release(Client(c))
  /\ UNCHANGED <<modem, unsure, boot>>

UnlockRequest(c) ==
  /\ client[c].pc = "idle"
  /\ client' = [client EXCEPT ![c].pc = "unlock_wait"]
  /\ UNCHANGED <<modem, unsure, file, service, mutation, boot, watch>>

\* unlock() stops the running guard before it sends anything.
UnlockAcquire(c) ==
  /\ client[c].pc = "unlock_wait"
  /\ Room
  /\ Acquire(Client(c))
  /\ NextGeneration
  /\ guard' = IF guard = "checking" THEN "idle" ELSE guard
  /\ client' = [client EXCEPT ![c].pc = "unlock_send"]
  /\ UNCHANGED <<modem, unsure, file, saved, stored, phase, boot, watch>>

UnlockSend(c) ==
  /\ client[c].pc = "unlock_send"
  /\ \E ok \in BOOLEAN :
       /\ UnlockCommand(ok)
       /\ IF ok
          THEN /\ client' = [client EXCEPT ![c].pc = "unlock_save"]
               /\ UNCHANGED mutation
          ELSE /\ client' = [client EXCEPT ![c] = NoRequest]
               /\ Release(Client(c))
  /\ UNCHANGED <<file, service, boot, watch>>

\* Mutant: the phase is set even when the empty lock could not be saved.
UnlockedAnyway(ok) == "unlocked"

UnlockPhase(ok) == IF ok THEN "unlocked" ELSE phase

UnlockSave(c) ==
  /\ client[c].pc = "unlock_save"
  /\ \E ok \in BOOLEAN :
       /\ Persist(NoLock, ok)
       /\ phase' = UnlockPhase(ok)
  /\ client' = [client EXCEPT ![c] = NoRequest]
  /\ Release(Client(c))
  /\ UNCHANGED <<modem, unsure, guard, generation, boot, watch>>

\* The client disconnects and the handler of freq_unlock is dropped at its await
\* (the handler of freq_lock_set is spawned and is not).  What was already handed
\* to the AT worker or to the writing thread may still happen.
UnlockDropped(c) ==
  /\ client[c].pc \in {"unlock_wait", "unlock_send", "unlock_save"}
  /\ client' = [client EXCEPT ![c] = NoRequest]
  /\ IF client[c].pc = "unlock_wait" THEN UNCHANGED mutation ELSE Release(Client(c))
  /\ IF client[c].pc = "unlock_send"
     THEN modem' \in {modem, NoLock} /\ unsure' = TRUE
     ELSE UNCHANGED <<modem, unsure>>
  /\ file' \in IF client[c].pc = "unlock_save" /\ ~(stored /\ saved = NoLock)
               THEN {file, NoLock} ELSE {file}
  /\ UNCHANGED <<service, boot, watch>>

-----------------------------------------------------------------------------
(* start(): the saved lock is sent again after the program starts. *)

\* The saved entries are copied here, before the mutex is asked for.
BootRead ==
  /\ boot.pc = "starting"
  /\ boot' = IF saved = NoLock THEN [pc |-> "off", entries |-> NoLock]
                               ELSE [pc |-> "lock_wait", entries |-> saved]
  /\ UNCHANGED <<modem, unsure, file, service, mutation, client, watch>>

BootAcquire ==
  /\ boot.pc = "lock_wait"
  /\ Room
  /\ Acquire(Boot)
  /\ boot' = [boot EXCEPT !.pc = "send"]
  /\ UNCHANGED <<modem, unsure, file, service, client, watch>>

\* A failed restore moves the generation too, and leaves `guard' as it was.
BootSend ==
  /\ boot.pc = "send"
  /\ NextGeneration
  /\ \E ok \in BOOLEAN :
       /\ LockCommand(boot.entries, ok)
       /\ IF ok
          THEN /\ phase' = "persistent"
               /\ guard' = "checking"
               /\ Spawn(generation + 1, NoLock, NoLock)
          ELSE /\ phase' = "restore_failed"
               /\ UNCHANGED <<guard, watch>>
  /\ boot' = [pc |-> "off", entries |-> NoLock]
  /\ Release(Boot)
  /\ UNCHANGED <<file, saved, stored, client>>

-----------------------------------------------------------------------------
(* watch(): a guarded lock without service is taken back. *)

\* confirm() finds that a newer lock or unlock replaced this one.
WatchSuperseded(g) ==
  /\ watch[g].pc = "confirm"
  /\ generation # g
  /\ watch' = [watch EXCEPT ![g] = NoWatch]
  /\ UNCHANGED <<modem, unsure, file, service, mutation, client, boot>>

WatchServes(g) ==
  /\ watch[g].pc = "confirm"
  /\ guard' = IF generation = g THEN "ok" ELSE guard
  /\ watch' = [watch EXCEPT ![g] = NoWatch]
  /\ UNCHANGED <<modem, unsure, file, saved, stored, phase, generation, mutation,
                 client, boot>>

\* Five checks failed, of the new lock or of the one put back.
WatchNoService(g) ==
  /\ watch[g].pc \in {"confirm", "confirm_back"}
  /\ watch' = [watch EXCEPT ![g].pc =
                 IF @ = "confirm" THEN "revert_wait" ELSE "drop_wait"]
  /\ UNCHANGED <<modem, unsure, file, service, mutation, client, boot>>

\* The lock put back finds service, or was replaced meanwhile.
WatchBackServes(g) ==
  /\ watch[g].pc = "confirm_back"
  /\ watch' = [watch EXCEPT ![g].pc = "final_wait"]
  /\ UNCHANGED <<modem, unsure, file, service, mutation, client, boot>>

WatchWaits == {"revert_wait", "drop_wait", "final_wait"}

\* The mutex is granted to a guard that was replaced while it waited: it ends.
WatchReplaced(g) ==
  /\ watch[g].pc \in WatchWaits
  /\ mutation = Free
  /\ generation # g
  /\ watch' = [watch EXCEPT ![g] = NoWatch]
  /\ UNCHANGED <<modem, unsure, file, service, mutation, client, boot>>

\* Mutant: the generation is not looked at again under the mutex.
AlwaysCurrent(g) == TRUE

Current(g) == generation = g

WatchAcquire(g) ==
  /\ watch[g].pc \in WatchWaits
  /\ Current(g)
  /\ Acquire(Watch(g))
  /\ watch' = [watch EXCEPT ![g].pc =
                 CASE @ = "revert_wait" -> "revert"
                   [] @ = "drop_wait" -> "drop"
                   [] @ = "final_wait" -> "final"]
  /\ UNCHANGED <<modem, unsure, file, service, client, boot>>

\* The lock in force before comes back, or the failed one is just removed.
WatchRevert(g) ==
  /\ watch[g].pc = "revert"
  /\ \E ok \in BOOLEAN :
       /\ IF watch[g].back = NoLock THEN UnlockCommand(ok)
                                    ELSE LockCommand(watch[g].back, ok)
       /\ watch' = [watch EXCEPT
            ![g].restored = ok,
            ![g].pc = IF ok /\ watch[g].back # NoLock THEN "confirm_back"
                                                       ELSE "final_wait"]
  /\ Release(Watch(g))
  /\ UNCHANGED <<file, service, client, boot>>

\* Neither lock finds a cell: the module is left without one.
WatchDrop(g) ==
  /\ watch[g].pc = "drop"
  /\ \E ok \in BOOLEAN :
       /\ UnlockCommand(ok)
       /\ watch' = [watch EXCEPT ![g].restored = ok, ![g].back = NoLock,
                                 ![g].pc = "final_wait"]
  /\ Release(Watch(g))
  /\ UNCHANGED <<file, service, client, boot>>

\* What a reverted lock leaves for the next start of the program.
SavedBack(g) == IF watch[g].back = NoLock THEN NoLock ELSE watch[g].before

\* Mutant: a revert that the module refused passes for one.
VerdictFromFile(g, ok) == IF ok THEN "reverted" ELSE "failed"

\* Mutant: a failed write ends the guard task early.
VerdictOnlyIfSaved(g, ok) ==
  IF ~ok THEN guard ELSE IF watch[g].restored THEN "reverted" ELSE "failed"

Verdict(g, ok) == IF watch[g].restored /\ ok THEN "reverted" ELSE "failed"

WatchFinal(g) ==
  /\ watch[g].pc = "final"
  /\ \E ok \in BOOLEAN :
       /\ Persist(SavedBack(g), ok)
       /\ guard' = Verdict(g, ok)
  /\ phase' = IF watch[g].back = NoLock THEN "unlocked" ELSE "temporary"
  /\ watch' = [watch EXCEPT ![g] = NoWatch]
  /\ Release(Watch(g))
  /\ UNCHANGED <<modem, unsure, generation, client, boot>>

-----------------------------------------------------------------------------
(* The program and the module restart. *)

\* new(): memory is what the file decodes to.
Loaded(s, st) ==
  /\ s = IF file = Unreadable THEN NoLock ELSE file
  /\ st = (file # Unreadable)

\* The process ends anywhere and starts again; the module keeps its lock.
Restart ==
  /\ Loaded(saved', stored')
  /\ phase' = ""
  /\ guard' = "idle"
  /\ generation' = 0
  /\ unsure' = FALSE
  /\ mutation' = Free
  /\ client' = [c \in Clients |-> NoRequest]
  /\ boot' = [pc |-> "starting", entries |-> NoLock]
  /\ watch' = [g \in Generations |-> NoWatch]
  /\ UNCHANGED <<modem, file>>

\* The module forgets the lock when it restarts.
ModuleRestarts ==
  /\ modem # NoLock
  /\ modem' = NoLock
  /\ UNCHANGED <<unsure, file, service, mutation, tasks>>

Init ==
  /\ modem \in Entries
  /\ file \in Entries \cup {Unreadable}
  /\ Loaded(saved, stored)
  /\ phase = ""
  /\ guard = "idle"
  /\ generation = 0
  /\ unsure = FALSE
  /\ mutation = Free
  /\ client = [c \in Clients |-> NoRequest]
  /\ boot = [pc |-> "starting", entries |-> NoLock]
  /\ watch = [g \in Generations |-> NoWatch]

ClientStep(c) ==
  \/ LockRequest(c) \/ LockAcquire(c) \/ LockSend(c) \/ LockSave(c)
  \/ UnlockRequest(c) \/ UnlockAcquire(c) \/ UnlockSend(c) \/ UnlockSave(c)
  \/ UnlockDropped(c)

BootStep == BootRead \/ BootAcquire \/ BootSend

WatchStep(g) ==
  \/ WatchSuperseded(g) \/ WatchServes(g) \/ WatchNoService(g)
  \/ WatchBackServes(g) \/ WatchReplaced(g) \/ WatchAcquire(g)
  \/ WatchRevert(g) \/ WatchDrop(g) \/ WatchFinal(g)

Next ==
  \/ \E c \in Clients : ClientStep(c)
  \/ BootStep
  \/ \E g \in Generations : WatchStep(g)
  \/ Restart
  \/ ModuleRestarts

\* Every AT command and every write is answered, sleeps end, and the tokio mutex is
\* granted in the order it was asked for, so no one who waits is overtaken forever.
\* Nothing obliges a client to send a request or the program to restart.
Fairness ==
  /\ \A c \in Clients :
       /\ WF_vars(LockSend(c) \/ LockSave(c) \/ UnlockSend(c) \/ UnlockSave(c))
       /\ SF_vars(LockAcquire(c) \/ UnlockAcquire(c))
  /\ WF_vars(BootRead \/ BootSend)
  /\ SF_vars(BootAcquire)
  /\ \A g \in Generations :
       /\ WF_vars(WatchSuperseded(g) \/ WatchServes(g) \/ WatchNoService(g)
                  \/ WatchBackServes(g) \/ WatchRevert(g) \/ WatchDrop(g)
                  \/ WatchFinal(g))
       /\ SF_vars(WatchReplaced(g) \/ WatchAcquire(g))

Spec == Init /\ [][Next]_vars
FairSpec == Spec /\ Fairness

-----------------------------------------------------------------------------
(* Properties. *)

\* A guard whose lock was replaced by a newer lock, unlock or restore never touches
\* the module, the file or the saved lock again ("A lock or unlock made meanwhile
\* saved its own state; keep it", watch()).
ReplacedGuardNeverActs ==
  [][\A g \in Generations :
       WatchStep(g) /\ <<modem, file, saved>> # <<modem', file', saved'>>
         => g = generation]_vars

\* Once the service reports the lock gone, and no revert failed, neither the module
\* nor the file nor memory holds one: it stays gone after a restart too (unlock(),
\* and the end of watch()).
UnlockedIsGone ==
  phase = "unlocked" /\ guard # "failed" /\ mutation = Free /\ ~unsure
    => modem = NoLock /\ saved = NoLock /\ file = NoLock

\* The file never holds a lock that memory does not know of, whatever write failed or
\* was cut off: what a restart sends again is at most what the service shows as saved.
NoForgottenLock == stored => file \in {saved, NoLock}

\* When the guard reports a revert, the module really holds what was put back (or
\* restarted and forgot it), not the lock that failed.
RevertIsReal ==
  [][guard # "reverted" /\ guard' = "reverted" /\ ~unsure'
       => modem' \in {NoLock, IF phase' = "unlocked" THEN NoLock
                              ELSE watch[generation].back}]_vars

\* A guard is always decided: it ends as ok, reverted or failed or is called off,
\* unless a restore that failed at startup overtook it.
GuardIsDecided ==
  guard = "checking" ~> guard # "checking" \/ phase = "restore_failed"

-----------------------------------------------------------------------------
(* The abstract specification: GuardedLock, with the tasks hidden.              *)

\* The request that is between its command and its end, whoever waits beside it.
Sending(r) == r.pc \in {"lock_save", "unlock_send", "unlock_save"}

Operation(r) ==
  [op |-> CASE r.pc = "lock_save" -> "lock"
            [] r.pc = "unlock_send" -> "unlock"
            [] r.pc = "unlock_save" -> "unlocked",
   entries |-> r.entries, before |-> r.previous,
   kept |-> r.persistent, tried |-> r.guarded]

Busy(requests) ==
  IF \E c \in Clients : Sending(requests[c])
  THEN Operation(requests[CHOOSE c \in Clients : Sending(requests[c])])
  ELSE [op |-> "none", entries |-> NoLock, before |-> NoLock,
        kept |-> FALSE, tried |-> FALSE]

\* Of all guards the one of the current generation is on trial; the others are not seen.
Stage(pc) ==
  CASE pc = "off" -> "none"
    [] pc = "confirm" -> "trying"
    [] pc \in {"revert_wait", "revert"} -> "failed"
    [] pc = "confirm_back" -> "back"
    [] pc \in {"drop_wait", "drop"} -> "hopeless"
    [] pc \in {"final_wait", "final"} -> "ending"

Trial(g, guards) ==
  IF g \in Generations
  THEN [stage |-> Stage(guards[g].pc), back |-> guards[g].back,
        before |-> guards[g].before, restored |-> guards[g].restored]
  ELSE [stage |-> "none", back |-> NoLock, before |-> NoLock, restored |-> FALSE]

Restoring(b) == [known |-> b.pc # "starting", entries |-> b.entries]

Promise == INSTANCE GuardedLock WITH
  module <- modem, memory <- saved, report <- phase, verdict <- guard,
  trial <- Trial(generation, watch), busy <- Busy(client), restore <- Restoring(boot)

\* Handlers, the restore task and any number of guards left over from earlier
\* generations look like one operation at a time and one lock on trial: what the
\* mutex and the generation counter are there for (lock(), unlock(), watch()).
KeepsPromise == Promise!Spec

-----------------------------------------------------------------------------
(* The inductive invariant behind the safety properties (FreqLockProofs).        *)

\* Whoever is between taking and releasing the mutex holds it, and a guard does so
\* only while its generation is the current one.
Holding ==
  /\ \A c \in Clients : client[c].pc \in ClientSections => mutation = Client(c)
  /\ boot.pc = "send" => mutation = Boot
  /\ \A g \in Generations :
       watch[g].pc \in WatchSections => mutation = Watch(g) /\ generation = g

\* Whoever will begin a generation was let in with room for it.
RoomKept ==
  /\ \A c \in Clients :
       client[c].pc \in {"lock_send", "lock_save"} => generation < MaxGeneration
  /\ boot.pc = "send" => generation < MaxGeneration

\* A guard belongs to a generation already begun; while it runs for the current one
\* the phase is not "unlocked", and no unlock is under way.  A lock that was put back
\* is a lock.
GuardBelongs ==
  \A g \in Generations : watch[g].pc # "off" =>
    /\ g <= generation
    /\ watch[g].pc = "confirm_back" => watch[g].back # NoLock
    /\ g = generation =>
         /\ phase # "unlocked"
         /\ \A c \in Clients : client[c].pc \notin {"unlock_send", "unlock_save"}

LockBeingSaved == \E c \in Clients : client[c].pc = "lock_save"

\* What the module is known to hold: no lock after the phase said so and between the
\* two halves of unlock(), and what the guard put back after it succeeded.
Known ==
  /\ phase = "unlocked" /\ guard # "failed" => saved = NoLock /\ file = NoLock
  /\ phase = "unlocked" /\ guard # "failed" /\ ~unsure /\ ~LockBeingSaved
       => modem = NoLock
  /\ \A c \in Clients : client[c].pc = "unlock_save" /\ ~unsure => modem = NoLock
  /\ \A g \in Generations :
       /\ g = generation
       /\ watch[g].pc \in {"confirm_back", "final_wait", "final"}
       /\ watch[g].restored
       /\ ~unsure
       /\ ~LockBeingSaved
       => modem \in {NoLock, watch[g].back}

IndInv == TypeOK /\ Holding /\ RoomKept /\ GuardBelongs /\ NoForgottenLock /\ Known

\* Records without a request, a lock to restore or a guard are blank, the others name a
\* lock: what the step from Spec to KeepsPromise needs besides IndInv.
Blank ==
  /\ \A c \in Clients :
       IF client[c].pc \in {"lock_wait", "lock_send", "lock_save"}
       THEN client[c].entries \in Locks
       ELSE /\ client[c].entries = NoLock /\ client[c].previous = NoLock
            /\ client[c].persistent = FALSE /\ client[c].guarded = FALSE
  /\ IF boot.pc \in {"lock_wait", "send"} THEN boot.entries \in Locks
                                          ELSE boot.entries = NoLock
  /\ \A g \in Generations : watch[g].pc = "off" =>
       watch[g].back = NoLock /\ watch[g].before = NoLock /\ watch[g].restored = FALSE

=============================================================================
