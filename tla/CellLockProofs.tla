--------------------------- MODULE CellLockProofs ---------------------------
(* Proofs about CellLock, for every number of radios, all cells and requests. *)
EXTENDS CellLock, TLAPS

ClientState ==
  [pc : {"idle", "wait", "send", "save", "rollback", "notify"},
   radio : Radio, cell : Cells \cup {NoCell}, persistent : BOOLEAN, auto : BOOLEAN]
KeeperPcs == {"starting", "restore_wait", "restore", "sleep", "wait", "check_wait", "query", "decide",
              "unlock", "done"}
KeeperState == [pc : KeeperPcs, at : 1..(RadioCount + 1), connected : BOOLEAN, saved : BOOLEAN]
Phases == {"", "temporary", "persistent", "unlocked", "connected", "fallback", "fallback_error"}
Deadlines == {"none", "fresh", "settled", "due"}
Holders == {Free, Keeper} \cup {Client(c) : c \in Clients}

\* TypeOK in parts, each disturbed by few actions.
ModuleType == modem \in [Radio -> Cells \cup {NoCell}] /\ unsure \in [Radio -> BOOLEAN]
SettingsType == file \in Settings \cup {Unreadable} /\ rules \in Settings /\ stored \in BOOLEAN
RuntimeType ==
  phase \in [Radio -> Phases] /\ deadline \in [Radio -> Deadlines] /\ touched \in [Radio -> BOOLEAN]
TaskType ==
  /\ permit \in BOOLEAN /\ mutation \in Holders
  /\ client \in [Clients -> ClientState] /\ keeper \in KeeperState

LEMMA TypeParts == TypeOK <=> ModuleType /\ SettingsType /\ RuntimeType /\ TaskType
BY DEF TypeOK, ModuleType, SettingsType, RuntimeType, TaskType, ClientState, KeeperState, KeeperPcs,
   Phases, Deadlines, Holders

\* The holders of the mutex are told apart.
LEMMA Owners ==
  /\ Free # Keeper
  /\ \A c : Client(c) # Free /\ Client(c) # Keeper
  /\ \A c, d : Client(c) = Client(d) => c = d
BY DEF Free, Keeper, Client

\* The mutex excludes: who is inside is there alone.
LEMMA Exclusive ==
  ASSUME Holding
  PROVE  /\ \A c \in Clients : InSection(c) => mutation = Client(c) /\ ~KeeperInside
         /\ \A c, d \in Clients : InSection(c) /\ InSection(d) => c = d
         /\ KeeperInside => mutation = Keeper /\ \A c \in Clients : ~InSection(c)
         /\ mutation = Free => ~KeeperInside /\ \A c \in Clients : ~InSection(c)
BY Owners DEF Holding

LEMMA OneRadio == 1 \in Radio
BY RadioAssumption DEF Radio

LEMMA IdleType == NoRequest \in ClientState /\ NewKeeper \in KeeperState
BY OneRadio, RadioAssumption DEF NoRequest, NewKeeper, ClientState, KeeperState, KeeperPcs

\* The rules of a save are rules.
LEMMA RuleOfType ==
  ASSUME TaskType, RequestsAreSound, NEW c \in Clients
  PROVE  RuleOf(c) \in Rule
<1>1. client[c] \in ClientState
  BY DEF TaskType
<1>2. client[c].persistent => client[c].cell \in Cells
  BY <1>1 DEF RequestsAreSound, ClientState
<1>3. client[c].auto \in BOOLEAN
  BY <1>1 DEF ClientState
<1> QED
  BY <1>2, <1>3 DEF RuleOf, Rule

LEMMA OnlyNoRule ==
  ASSUME NEW rule \in [cell : {NoCell}, auto : {FALSE}, enabled : {FALSE}] PROVE rule = NoRule
BY DEF NoRule

LEMMA RulesWithoutType ==
  ASSUME SettingsType, NEW r \in Radio
  PROVE  /\ RulesWithout(r) \in Settings
         /\ ~RulesWithout(r)[r].enabled /\ RulesWithout(r)[r].cell = rules[r].cell
         /\ \A q \in Radio : q # r => RulesWithout(r)[q] = rules[q]
<1>1. rules \in [Radio -> Rule]
  BY DEF SettingsType, Settings
<1> DEFINE new == [rules[r] EXCEPT !.enabled = FALSE]
<1>2. new \in Rule /\ ~new.enabled /\ new.cell = rules[r].cell
  <2>1. CASE rules[r] = NoRule
    <3>1. NoRule \in [cell : {NoCell}, auto : {FALSE}, enabled : {FALSE}]
      BY DEF NoRule
    <3>2. new \in [cell : {NoCell}, auto : {FALSE}, enabled : {FALSE}]
      BY <2>1, <3>1
    <3>3. new = NoRule
      BY <3>2, OnlyNoRule
    <3> QED
      BY <2>1, <3>3 DEF Rule, NoRule
  <2>2. CASE rules[r] \in [cell : Cells, auto : BOOLEAN, enabled : BOOLEAN]
    BY <2>2 DEF Rule
  <2> QED
    BY <1>1, <2>1, <2>2 DEF Rule
<1>3. RulesWithout(r) = [rules EXCEPT ![r] = new]
  BY DEF RulesWithout
<1> HIDE DEF new
<1> QED
  BY <1>1, <1>2, <1>3 DEF Settings

\* What a save does to the settings, whatever its result.
LEMMA PersistType ==
  ASSUME SettingsType, NEW next \in Settings, NEW result, Persist(next, result)
  PROVE  /\ SettingsType'
         /\ rules' \in {rules, next}
         /\ result # "failed" => rules' = next
         /\ result = "failed" => UNCHANGED <<file, rules, stored>>
         /\ SavedIsOnFile => SavedIsOnFile'
<1>1. \/ rules = next /\ result = "ok" /\ UNCHANGED <<file, rules, stored>>
      \/ result # "failed" /\ file' = next /\ rules' = next /\ stored' = TRUE
      \/ result = "failed" /\ UNCHANGED <<file, rules, stored>>
  BY DEF Persist
<1>2. CASE UNCHANGED <<file, rules, stored>>
  <2>1. SettingsType' /\ (SavedIsOnFile => SavedIsOnFile')
    BY <1>2 DEF SettingsType, SavedIsOnFile
  <2>2. rules' = rules /\ (result # "failed" => rules = next)
    BY <1>1, <1>2
  <2> QED
    BY <1>2, <2>1, <2>2
<1>3. CASE result # "failed" /\ file' = next /\ rules' = next /\ stored' = TRUE
  BY <1>3 DEF SettingsType, SavedIsOnFile
<1> QED
  BY <1>1, <1>2, <1>3

\* What a command does to the module.
LEMMA RunLockType ==
  ASSUME ModuleType, NEW r \in Radio, NEW cell \in Cells \cup {NoCell}, NEW ok \in BOOLEAN,
         RunLock(r, cell, ok)
  PROVE  /\ ModuleType'
         /\ \A q \in Radio : q # r => modem'[q] = modem[q] /\ unsure'[q] = unsure[q]
         /\ ok => modem'[r] = cell
         /\ ~ok => unsure'[r] \/ UNCHANGED <<modem, unsure>>
<1>1. CASE ok
  BY <1>1 DEF RunLock, ModuleType
<1>2. CASE ~ok
  BY <1>2 DEF RunLock, ModuleType
<1> QED
  BY <1>1, <1>2

LEMMA RunIgnoringType ==
  ASSUME ModuleType, NEW r \in Radio, NEW cell \in Cells \cup {NoCell}, NEW ok \in BOOLEAN,
         RunIgnoring(r, cell, ok)
  PROVE  /\ ModuleType'
         /\ \A q \in Radio : q # r => modem'[q] = modem[q] /\ unsure'[q] = unsure[q]
         /\ unsure'[r] \/ modem'[r] = cell
<1>1. CASE ok
  BY <1>1 DEF RunIgnoring, ModuleType
<1>2. CASE ~ok
  BY <1>2 DEF RunIgnoring, ModuleType
<1> QED
  BY <1>1, <1>2

LEMMA RuleCells ==
  ASSUME SettingsType, NEW r \in Radio PROVE rules[r].cell \in Cells \cup {NoCell} /\ Before(r) \in Cells \cup {NoCell}
BY DEF SettingsType, Settings, Rule, NoRule, Before
-----------------------------------------------------------------------------
(* Which steps change what: every other step leaves it alone. *)

TaskOnly ==
  \/ \E c \in Clients : Request(c) \/ ApplyAcquire(c) \/ ApplyNotify(c)
  \/ KeeperStarts \/ KeeperAcquire \/ RestoreDone \/ KeeperReleases \/ KeeperTimer \/ KeeperNotified
  \/ CheckQuery \/ CheckNext

\* Steps that only move a task, and the mutex and the permit with it.
LEMMA TaskOnlyFrame == ASSUME TaskOnly PROVE UNCHANGED <<modem, unsure, file, settings, runtime>>
<1>1. ASSUME NEW c \in Clients, Request(c) \/ ApplyAcquire(c) \/ ApplyNotify(c)
      PROVE  UNCHANGED <<modem, unsure, file, settings, runtime>>
  BY <1>1 DEF Request, ApplyAcquire, ApplyNotify
<1>2. ASSUME KeeperStarts \/ KeeperAcquire \/ RestoreDone \/ KeeperReleases
      PROVE  UNCHANGED <<modem, unsure, file, settings, runtime>>
  BY <1>2 DEF KeeperStarts, KeeperAcquire, RestoreDone, KeeperReleases
<1>3. ASSUME KeeperTimer \/ KeeperNotified \/ CheckQuery \/ CheckNext
      PROVE  UNCHANGED <<modem, unsure, file, settings, runtime>>
  BY <1>3 DEF KeeperTimer, KeeperNotified, CheckQuery, CheckNext
<1> QED
  BY <1>1, <1>2, <1>3 DEF TaskOnly

\* Every step is one that only moves a task, or one of the eight that do more.
LEMMA StepKinds ==
  ASSUME [Next]_vars
  PROVE  \/ TaskOnly \/ UNCHANGED vars
         \/ \E c \in Clients : ApplySend(c) \/ ApplySave(c) \/ ApplyRollback(c)
         \/ Restore \/ CheckConnected \/ CheckSave \/ CheckUnlock
         \/ \E r \in Radio : TimePasses(r)
         \/ Restart \/ ModuleRestarts
BY DEF Next, KeeperStep, ApplyStep, TaskOnly

LEMMA ClientFrame ==
  ASSUME [Next]_vars
  PROVE  \/ UNCHANGED client \/ Restart
         \/ \E c \in Clients : Request(c) \/ ApplyAcquire(c) \/ ApplySend(c) \/ ApplySave(c)
                               \/ ApplyRollback(c) \/ ApplyNotify(c)
<1>1. ASSUME KeeperStep PROVE UNCHANGED client
  <2>1. CASE KeeperStarts \/ KeeperAcquire \/ Restore \/ RestoreDone \/ KeeperReleases \/ KeeperTimer
    BY <2>1 DEF KeeperStarts, KeeperAcquire, Restore, RestoreDone, KeeperReleases, KeeperTimer
  <2>2. CASE KeeperNotified \/ CheckQuery \/ CheckConnected \/ CheckSave \/ CheckUnlock \/ CheckNext
    BY <2>2 DEF KeeperNotified, CheckQuery, CheckConnected, CheckSave, CheckUnlock, CheckNext
  <2> QED
    BY <1>1, <2>1, <2>2 DEF KeeperStep
<1>2. ASSUME \/ \E r \in Radio : TimePasses(r)
             \/ ModuleRestarts \/ UNCHANGED vars
      PROVE  UNCHANGED client
  BY <1>2 DEF TimePasses, ModuleRestarts, vars
<1> QED
  BY <1>1, <1>2 DEF Next, ApplyStep

-----------------------------------------------------------------------------
(* What each step does, radio by radio. *)

Types == ModuleType /\ SettingsType /\ RuntimeType /\ TaskType

\* A request's command leaves its lock, no change, or a module that cannot be
\* known.
LEMMA ApplySendDoes ==
  ASSUME Types, NEW c \in Clients, ApplySend(c)
  PROVE  /\ ModuleType' /\ TaskType' /\ UNCHANGED <<settings, runtime, permit, keeper, file>>
         /\ client[c].pc = "send" /\ client[c].radio \in Radio
         /\ \A q \in Radio \ {client[c].radio} : modem'[q] = modem[q] /\ unsure'[q] = unsure[q]
         /\ \/ /\ client' = [client EXCEPT ![c].pc = "save"] /\ mutation' = mutation
               /\ modem'[client[c].radio] = client[c].cell
            \/ /\ client' = [client EXCEPT ![c] = NoRequest] /\ mutation' = Free
               /\ unsure'[client[c].radio] \/ UNCHANGED <<modem, unsure>>
<1> USE DEF Types
<1>1. client[c] \in ClientState
  BY DEF TaskType
<1>2. client[c].radio \in Radio /\ client[c].cell \in Cells \cup {NoCell}
  BY <1>1 DEF ClientState
<1>3. PICK ok \in BOOLEAN :
        /\ RunLock(client[c].radio, client[c].cell, ok)
        /\ IF ok
           THEN client' = [client EXCEPT ![c].pc = "save"] /\ UNCHANGED mutation
           ELSE client' = [client EXCEPT ![c] = NoRequest] /\ Release(Client(c))
  BY DEF ApplySend
<1>4. UNCHANGED <<settings, runtime, permit, keeper, file>> /\ client[c].pc = "send"
  BY DEF ApplySend
<1>5. /\ ModuleType'
      /\ \A q \in Radio : q # client[c].radio => modem'[q] = modem[q] /\ unsure'[q] = unsure[q]
      /\ ok => modem'[client[c].radio] = client[c].cell
      /\ ~ok => unsure'[client[c].radio] \/ UNCHANGED <<modem, unsure>>
  BY <1>2, <1>3, RunLockType
<1>6. CASE ok
  <2>1. client' = [client EXCEPT ![c].pc = "save"] /\ mutation' = mutation
    BY <1>3, <1>6
  <2>2. client' \in [Clients -> ClientState]
    BY <1>1, <2>1 DEF TaskType, ClientState
  <2>3. TaskType'
    BY <1>4, <2>1, <2>2 DEF TaskType
  <2> QED
    BY <1>2, <1>4, <1>5, <1>6, <2>1, <2>3
<1>7. CASE ~ok
  <2>1. client' = [client EXCEPT ![c] = NoRequest] /\ mutation' = Free
    BY <1>3, <1>7 DEF Release
  <2>2. TaskType'
    BY <1>4, <2>1, IdleType DEF TaskType, Holders
  <2> QED
    BY <1>2, <1>4, <1>5, <1>7, <2>1, <2>2
<1> QED
  BY <1>6, <1>7

\* A save replaces the rule and the runtime of the request's radio, or it
\* failed and nothing of them changed.
LEMMA ApplySaveDoes ==
  ASSUME Types, RequestsAreSound, NEW c \in Clients, ApplySave(c)
  PROVE  /\ SettingsType' /\ RuntimeType' /\ TaskType' /\ (SavedIsOnFile => SavedIsOnFile')
         /\ UNCHANGED <<modem, unsure, permit, mutation, keeper>>
         /\ client[c].pc = "save" /\ client[c].radio \in Radio
         /\ \/ /\ client' = [client EXCEPT ![c].pc = "rollback"]
               /\ UNCHANGED <<file, settings, runtime>>
            \/ /\ client' = [client EXCEPT ![c].pc = "notify"]
               /\ rules' = [rules EXCEPT ![client[c].radio] = RuleOf(c)]
               /\ phase' = [phase EXCEPT ![client[c].radio] =
                              IF client[c].cell = NoCell THEN "unlocked"
                              ELSE IF client[c].persistent THEN "persistent"
                              ELSE "temporary"]
               /\ deadline' = [deadline EXCEPT ![client[c].radio] =
                                 IF client[c].auto THEN "fresh" ELSE "none"]
               /\ touched' = [touched EXCEPT ![client[c].radio] = TRUE]
<1> USE DEF Types
<1> DEFINE r == client[c].radio
           next == [rules EXCEPT ![r] = RuleOf(c)]
<1>1. client[c] \in ClientState /\ client \in [Clients -> ClientState]
  BY DEF TaskType
<1>2. r \in Radio
  BY <1>1 DEF ClientState
<1>3. next \in Settings
  BY <1>2, RuleOfType DEF SettingsType, Settings
<1>4. UNCHANGED <<modem, unsure, permit, mutation, keeper>> /\ client[c].pc = "save"
  BY DEF ApplySave
<1>5. PICK result \in Results :
        /\ Persist(next, result)
        /\ IF result = "failed"
           THEN /\ client' = [client EXCEPT ![c].pc = "rollback"]
                /\ UNCHANGED runtime
           ELSE /\ client' = [client EXCEPT ![c].pc = "notify"]
                /\ phase' = [phase EXCEPT ![r] =
                               IF client[c].cell = NoCell THEN "unlocked"
                               ELSE IF client[c].persistent THEN "persistent"
                               ELSE "temporary"]
                /\ deadline' = [deadline EXCEPT ![r] =
                                  IF client[c].auto THEN "fresh" ELSE "none"]
                /\ touched' = [touched EXCEPT ![r] = TRUE]
  BY DEF ApplySave
<1> HIDE DEF next
<1>6. /\ SettingsType' /\ (SavedIsOnFile => SavedIsOnFile')
      /\ result # "failed" => rules' = next
      /\ result = "failed" => UNCHANGED <<file, rules, stored>>
  BY <1>3, <1>5, PersistType
<1>7. CASE result = "failed"
  <2>1. client' = [client EXCEPT ![c].pc = "rollback"] /\ UNCHANGED <<file, settings, runtime>>
    BY <1>5, <1>6, <1>7 DEF settings
  <2>2. client' \in [Clients -> ClientState]
    BY <1>1, <2>1 DEF ClientState
  <2>3. TaskType' /\ RuntimeType'
    BY <1>4, <2>1, <2>2 DEF TaskType, RuntimeType, runtime
  <2> QED
    BY <1>2, <1>4, <1>6, <2>1, <2>3
<1>8. CASE result # "failed"
  <2>1. /\ client' = [client EXCEPT ![c].pc = "notify"]
        /\ phase' = [phase EXCEPT ![r] =
                       IF client[c].cell = NoCell THEN "unlocked"
                       ELSE IF client[c].persistent THEN "persistent"
                       ELSE "temporary"]
        /\ deadline' = [deadline EXCEPT ![r] = IF client[c].auto THEN "fresh" ELSE "none"]
        /\ touched' = [touched EXCEPT ![r] = TRUE]
    BY <1>5, <1>8
  <2>2. client' \in [Clients -> ClientState]
    BY <1>1, <2>1 DEF ClientState
  <2>3. TaskType'
    BY <1>4, <2>2 DEF TaskType
  <2>4. RuntimeType'
    BY <1>2, <2>1 DEF RuntimeType, Phases, Deadlines
  <2>5. rules' = [rules EXCEPT ![client[c].radio] = RuleOf(c)]
    BY <1>6, <1>8 DEF next
  <2> QED
    BY <1>2, <1>4, <1>6, <2>1, <2>3, <2>4, <2>5
<1> QED
  BY <1>7, <1>8

LEMMA ApplyRollbackDoes ==
  ASSUME Types, NEW c \in Clients, ApplyRollback(c)
  PROVE  /\ ModuleType' /\ TaskType' /\ UNCHANGED <<file, settings, runtime, permit, keeper>>
         /\ client[c].pc = "rollback" /\ client[c].radio \in Radio
         /\ client' = [client EXCEPT ![c] = NoRequest] /\ mutation' = Free
         /\ \A q \in Radio \ {client[c].radio} : modem'[q] = modem[q] /\ unsure'[q] = unsure[q]
         /\ unsure'[client[c].radio] \/ modem'[client[c].radio] = Before(client[c].radio)
<1> USE DEF Types
<1> DEFINE r == client[c].radio
<1>1. client[c] \in ClientState
  BY DEF TaskType
<1>2. r \in Radio
  BY <1>1 DEF ClientState
<1>3. /\ UNCHANGED <<file, settings, runtime, permit, keeper>> /\ client[c].pc = "rollback"
      /\ client' = [client EXCEPT ![c] = NoRequest] /\ mutation' = Free
  BY DEF ApplyRollback, Release
<1>4. PICK ok \in BOOLEAN : RunIgnoring(r, Before(r), ok)
  BY DEF ApplyRollback
<1>5. Before(r) \in Cells \cup {NoCell}
  BY <1>2, RuleCells
<1>6. /\ ModuleType'
      /\ unsure'[r] \/ modem'[r] = Before(r)
      /\ \A q \in Radio : q # r => modem'[q] = modem[q] /\ unsure'[q] = unsure[q]
  BY <1>2, <1>4, <1>5, RunIgnoringType
<1>7. TaskType'
  BY <1>3, IdleType DEF TaskType, Holders
<1> QED
  BY <1>2, <1>3, <1>6, <1>7

\* A restore sends a saved rule to a radio and watches it, if it removes itself.
LEMMA RestoreDoes ==
  ASSUME Types, Restore
  PROVE  /\ ModuleType' /\ RuntimeType' /\ TaskType'
         /\ UNCHANGED <<file, settings, permit, mutation, client>>
         /\ keeper.pc = "restore" /\ keeper'.pc = "restore"
         /\ \E r \in Restorable :
              /\ \A q \in Restorable : r <= q
              /\ keeper'.at = r + 1
              /\ unsure'[r] \/ modem'[r] = rules[r].cell
              /\ \A q \in Radio \ {r} : modem'[q] = modem[q] /\ unsure'[q] = unsure[q]
              /\ phase' = [phase EXCEPT ![r] = "persistent"]
              /\ deadline' = [deadline EXCEPT ![r] = IF rules[r].auto THEN "fresh" ELSE "none"]
              /\ touched' = [touched EXCEPT ![r] = TRUE]
<1> USE DEF Types
<1>1. PICK r \in Restorable, ok \in BOOLEAN :
        /\ \A q \in Restorable : r <= q
        /\ RunIgnoring(r, rules[r].cell, ok)
        /\ phase' = [phase EXCEPT ![r] = "persistent"]
        /\ deadline' = [deadline EXCEPT ![r] = RestoredDeadline(rules[r].auto, ok)]
        /\ touched' = [touched EXCEPT ![r] = TRUE]
        /\ keeper' = [keeper EXCEPT !.at = r + 1]
  BY DEF Restore
<1>2. r \in Radio /\ rules[r].cell \in Cells \cup {NoCell}
  BY RuleCells DEF Restorable
<1>3. UNCHANGED <<file, settings, permit, mutation, client>> /\ keeper.pc = "restore"
  BY DEF Restore
<1>4. deadline' = [deadline EXCEPT ![r] = IF rules[r].auto THEN "fresh" ELSE "none"]
  BY <1>1 DEF RestoredDeadline
<1>5. keeper' \in KeeperState /\ keeper'.pc = "restore" /\ keeper'.at = r + 1
  <2>1. r + 1 \in 1..(RadioCount + 1)
    BY <1>2, RadioAssumption DEF Radio
  <2> QED
    BY <1>1, <1>3, <2>1 DEF TaskType, KeeperState, KeeperPcs
<1>6. TaskType'
  BY <1>3, <1>5 DEF TaskType
<1>7. RuntimeType'
  BY <1>1, <1>2, <1>4 DEF RuntimeType, Phases, Deadlines
<1>8. /\ ModuleType'
      /\ unsure'[r] \/ modem'[r] = rules[r].cell
      /\ \A q \in Radio : q # r => modem'[q] = modem[q] /\ unsure'[q] = unsure[q]
  BY <1>1, <1>2, RunIgnoringType
<1> QED
  BY <1>1, <1>3, <1>4, <1>5, <1>6, <1>7, <1>8

LEMMA CheckConnectedDoes ==
  ASSUME Types, CheckConnected
  PROVE  /\ RuntimeType' /\ TaskType'
         /\ UNCHANGED <<modem, file, settings, touched, unsure, permit, mutation, client>>
         /\ keeper.pc = "decide" /\ keeper'.pc = "decide"
         /\ keeper.at \in Radio /\ Connected(keeper.at)
         /\ deadline' = [deadline EXCEPT ![keeper.at] = "none"]
         /\ phase' = [phase EXCEPT ![keeper.at] = "connected"]
<1> USE DEF Types
<1>1. /\ UNCHANGED <<modem, file, settings, touched, unsure, permit, mutation, client>>
      /\ keeper.pc = "decide" /\ keeper.at \in Radio /\ Connected(keeper.at)
      /\ deadline' = [deadline EXCEPT ![keeper.at] = "none"]
      /\ phase' = [phase EXCEPT ![keeper.at] = "connected"]
      /\ keeper' = [keeper EXCEPT !.at = keeper.at + 1]
  BY DEF CheckConnected
<1>2. keeper' \in KeeperState /\ keeper'.pc = "decide"
  <2>1. keeper.at + 1 \in 1..(RadioCount + 1)
    BY <1>1, RadioAssumption DEF Radio
  <2> QED
    BY <1>1, <2>1 DEF TaskType, KeeperState
<1>3. TaskType'
  BY <1>1, <1>2 DEF TaskType
<1>4. RuntimeType'
  BY <1>1 DEF RuntimeType, Phases, Deadlines
<1> QED
  BY <1>1, <1>2, <1>3, <1>4

\* The save of a removal disables the rule, or leaves the settings; only a
\* success counts as saved.
LEMMA CheckSaveDoes ==
  ASSUME Types, CheckSave
  PROVE  /\ SettingsType' /\ TaskType' /\ (SavedIsOnFile => SavedIsOnFile')
         /\ UNCHANGED <<modem, runtime, unsure, permit, mutation, client>>
         /\ keeper.pc = "decide" /\ keeper'.pc = "unlock" /\ keeper'.at = keeper.at
         /\ keeper.at \in Radio /\ deadline[keeper.at] = "due"
         /\ rules' \in {rules, RulesWithout(keeper.at)}
         /\ keeper'.saved => rules' = RulesWithout(keeper.at)
<1> USE DEF Types
<1>1. /\ UNCHANGED <<modem, runtime, unsure, permit, mutation, client>>
      /\ keeper.pc = "decide" /\ keeper.at \in Radio /\ deadline[keeper.at] = "due"
  BY DEF CheckSave
<1>2. PICK result \in Results :
        /\ Persist(RulesWithout(keeper.at), result)
        /\ keeper' = [keeper EXCEPT !.pc = "unlock", !.saved = (result = "ok")]
  BY DEF CheckSave
<1>3. RulesWithout(keeper.at) \in Settings
  BY <1>1, RulesWithoutType
<1>4. /\ SettingsType' /\ (SavedIsOnFile => SavedIsOnFile')
      /\ rules' \in {rules, RulesWithout(keeper.at)}
      /\ result # "failed" => rules' = RulesWithout(keeper.at)
  BY <1>2, <1>3, PersistType
<1>5. (result = "ok") \in BOOLEAN
  OBVIOUS
<1>6. /\ keeper' \in KeeperState /\ keeper'.pc = "unlock" /\ keeper'.at = keeper.at
      /\ keeper'.saved = (result = "ok")
  BY <1>2, <1>5 DEF TaskType, KeeperState, KeeperPcs
<1>7. TaskType'
  BY <1>1, <1>6 DEF TaskType
<1> QED
  BY <1>1, <1>4, <1>6, <1>7

\* The removal itself: finished when the save and the command succeeded, to be
\* tried again otherwise.
LEMMA CheckUnlockDoes ==
  ASSUME Types, RemovalIsDue, CheckUnlock
  PROVE  /\ ModuleType' /\ RuntimeType' /\ TaskType'
         /\ UNCHANGED <<file, settings, touched, permit, mutation, client>>
         /\ keeper.pc = "unlock" /\ keeper'.pc = "decide" /\ keeper.at \in Radio
         /\ \A q \in Radio \ {keeper.at} : modem'[q] = modem[q] /\ unsure'[q] = unsure[q]
         /\ \/ /\ keeper.saved /\ modem'[keeper.at] = NoCell
               /\ deadline' = [deadline EXCEPT ![keeper.at] = "none"]
               /\ phase' = [phase EXCEPT ![keeper.at] = "fallback"]
            \/ /\ deadline' = deadline
               /\ phase' = [phase EXCEPT ![keeper.at] = "fallback_error"]
<1> USE DEF Types
<1>1. PICK ok \in BOOLEAN :
        /\ RunLock(keeper.at, NoCell, ok)
        /\ deadline' = IF FallbackComplete(ok) THEN [deadline EXCEPT ![keeper.at] = "none"]
                       ELSE deadline
        /\ phase' = [phase EXCEPT ![keeper.at] = IF FallbackComplete(ok) THEN "fallback"
                                                 ELSE "fallback_error"]
  BY DEF CheckUnlock
<1>2. /\ UNCHANGED <<file, settings, touched, permit, mutation, client>> /\ keeper.pc = "unlock"
      /\ keeper' = [keeper EXCEPT !.pc = "decide", !.at = keeper.at + 1]
  BY DEF CheckUnlock
<1>3. keeper.at \in Radio
  BY <1>2 DEF RemovalIsDue
<1>4. keeper' \in KeeperState /\ keeper'.pc = "decide"
  <2>1. keeper.at + 1 \in 1..(RadioCount + 1)
    BY <1>3, RadioAssumption DEF Radio
  <2> QED
    BY <1>2, <2>1 DEF TaskType, KeeperState, KeeperPcs
<1>5. TaskType'
  BY <1>2, <1>4 DEF TaskType
<1>6. /\ ModuleType'
      /\ \A q \in Radio : q # keeper.at => modem'[q] = modem[q] /\ unsure'[q] = unsure[q]
      /\ ok => modem'[keeper.at] = NoCell
  BY <1>1, <1>3, RunLockType
<1>7. RuntimeType'
  BY <1>1, <1>2, <1>3 DEF RuntimeType, Phases, Deadlines
<1>8. CASE FallbackComplete(ok)
  BY <1>1, <1>2, <1>3, <1>4, <1>5, <1>6, <1>7, <1>8 DEF FallbackComplete
<1>9. CASE ~FallbackComplete(ok)
  BY <1>1, <1>2, <1>3, <1>4, <1>5, <1>6, <1>7, <1>9
<1> QED
  BY <1>8, <1>9

LEMMA TimePassesDoes ==
  ASSUME Types, NEW r \in Radio, TimePasses(r)
  PROVE  /\ RuntimeType' /\ deadline[r] \in {"fresh", "settled"} /\ deadline'[r] \in {"settled", "due"}
         /\ \A q \in Radio \ {r} : deadline'[q] = deadline[q]
         /\ UNCHANGED <<modem, file, settings, phase, touched, unsure, permit, mutation, client, keeper>>
<1>1. /\ UNCHANGED <<modem, file, settings, phase, touched, unsure, permit, mutation, client, keeper>>
      /\ deadline[r] \in {"fresh", "settled"}
      /\ deadline' = [deadline EXCEPT ![r] = IF deadline[r] = "fresh" THEN "settled" ELSE "due"]
  BY DEF TimePasses
<1> QED
  BY <1>1 DEF Types, RuntimeType, Deadlines, Phases

\* A restart loads the file and forgets the rest, but not the module.
LEMMA RestartDoes ==
  ASSUME Types, Restart
  PROVE  /\ Types' /\ SavedIsOnFile' /\ UNCHANGED modem
         /\ phase' = [r \in Radio |-> ""] /\ deadline' = [r \in Radio |-> "none"]
         /\ touched' = [r \in Radio |-> FALSE] /\ unsure' = [r \in Radio |-> FALSE]
         /\ mutation' = Free /\ client' = [c \in Clients |-> NoRequest] /\ keeper' = NewKeeper
<1> USE DEF Types
<1>1. /\ Loaded(rules', stored') /\ UNCHANGED <<modem, file>>
      /\ phase' = [r \in Radio |-> ""] /\ deadline' = [r \in Radio |-> "none"]
      /\ touched' = [r \in Radio |-> FALSE] /\ unsure' = [r \in Radio |-> FALSE]
      /\ permit' = FALSE
      /\ mutation' = Free /\ client' = [c \in Clients |-> NoRequest] /\ keeper' = NewKeeper
  BY DEF Restart
<1>2. [r \in Radio |-> NoRule] \in Settings
  BY DEF Settings, Rule
<1>3. SettingsType' /\ SavedIsOnFile'
  BY <1>1, <1>2 DEF SettingsType, SavedIsOnFile, Loaded
<1>4. ModuleType'
  BY <1>1 DEF ModuleType
<1>5. RuntimeType'
  BY <1>1 DEF RuntimeType, Phases, Deadlines
<1>6. TaskType'
  BY <1>1, IdleType DEF TaskType, Holders
<1> QED
  BY <1>1, <1>3, <1>4, <1>5, <1>6

LEMMA TaskOnlyType ==
  ASSUME TaskType, TaskOnly PROVE TaskType'
<1> USE DEF TaskType
<1>1. ASSUME NEW c \in Clients, Request(c) PROVE TaskType'
  <2>1. PICK r \in Radio, cell \in Cells \cup {NoCell}, persistent \in BOOLEAN, auto \in BOOLEAN :
          client' = [client EXCEPT ![c] = [pc |-> "wait", radio |-> r, cell |-> cell,
                                           persistent |-> persistent, auto |-> auto]]
    BY <1>1 DEF Request
  <2>2. client' \in [Clients -> ClientState]
    BY <2>1 DEF ClientState
  <2> QED
    BY <1>1, <2>2 DEF Request
<1>2. ASSUME NEW c \in Clients, ApplyAcquire(c) PROVE TaskType'
  <2>1. client' \in [Clients -> ClientState]
    BY <1>2 DEF ApplyAcquire, ClientState
  <2> QED
    BY <1>2, <2>1 DEF ApplyAcquire, Acquire, Holders
<1>3. ASSUME NEW c \in Clients, ApplyNotify(c) PROVE TaskType'
  BY <1>3, IdleType DEF ApplyNotify, Notify, Release, Holders
<1>4. CASE KeeperStarts \/ KeeperTimer
  <2>1. keeper' \in KeeperState
    BY <1>4 DEF KeeperStarts, KeeperTimer, KeeperState, KeeperPcs
  <2> QED
    BY <1>4, <2>1 DEF KeeperStarts, KeeperTimer
<1>5. CASE KeeperNotified
  <2>1. keeper' \in KeeperState
    BY <1>5 DEF KeeperNotified, KeeperState, KeeperPcs
  <2> QED
    BY <1>5, <2>1 DEF KeeperNotified
<1>6. CASE KeeperAcquire
  <2>1. 1 \in 1..(RadioCount + 1)
    BY RadioAssumption
  <2>2. PICK pc \in {"restore", "query", "done"} : keeper' = [keeper EXCEPT !.at = 1, !.pc = pc]
    BY <1>6 DEF KeeperAcquire
  <2>3. keeper' \in KeeperState
    BY <2>1, <2>2 DEF KeeperState, KeeperPcs
  <2> QED
    BY <1>6, <2>3 DEF KeeperAcquire, Acquire, Holders
<1>7. CASE KeeperReleases
  <2>1. PICK pc \in {"sleep", "wait"} : keeper' = [NewKeeper EXCEPT !.pc = pc]
    BY <1>7 DEF KeeperReleases
  <2>2. keeper' \in KeeperState
    BY <2>1, IdleType DEF KeeperState, KeeperPcs
  <2> QED
    BY <1>7, <2>2 DEF KeeperReleases, Release, Holders
<1>8. CASE RestoreDone
  <2>1. keeper' \in KeeperState
    BY <1>8 DEF RestoreDone, KeeperState, KeeperPcs
  <2> QED
    BY <1>8, <2>1 DEF RestoreDone
<1>9. CASE CheckQuery
  <2>1. keeper' \in KeeperState
    BY <1>9 DEF CheckQuery, KeeperState, KeeperPcs
  <2> QED
    BY <1>9, <2>1 DEF CheckQuery
<1>10. CASE CheckNext
  <2>1. CASE keeper.at \in Radio
    <3>1. keeper.at + 1 \in 1..(RadioCount + 1)
      BY <2>1, RadioAssumption DEF Radio
    <3>2. keeper' \in KeeperState
      BY <1>10, <2>1, <3>1 DEF CheckNext, KeeperState
    <3> QED
      BY <1>10, <3>2 DEF CheckNext
  <2>2. CASE keeper.at \notin Radio
    <3>1. keeper' \in KeeperState
      BY <1>10, <2>2 DEF CheckNext, KeeperState, KeeperPcs
    <3> QED
      BY <1>10, <3>1 DEF CheckNext
  <2> QED
    BY <2>1, <2>2
<1> QED
  BY <1>1, <1>2, <1>3, <1>4, <1>5, <1>6, <1>7, <1>8, <1>9, <1>10 DEF TaskOnly

-----------------------------------------------------------------------------
(* The invariant, one conjunct at a time. *)

LEMMA StepTypeOK ==
  ASSUME TypeOK, RequestsAreSound, RemovalIsDue, [Next]_vars PROVE TypeOK'
<1> SUFFICES Types'
  BY TypeParts DEF Types, TypeOK, ModuleType, SettingsType, RuntimeType, TaskType, ClientState,
     KeeperState, KeeperPcs, Phases, Deadlines, Holders
<1>0. Types
  BY TypeParts DEF Types
<1>1. CASE TaskOnly
  <2>1. ModuleType' /\ SettingsType' /\ RuntimeType'
    BY <1>0, <1>1, TaskOnlyFrame DEF Types, ModuleType, SettingsType, RuntimeType, settings, runtime
  <2> QED
    BY <1>0, <1>1, <2>1, TaskOnlyType DEF Types
<1>2. CASE UNCHANGED vars
  BY <1>0, <1>2 DEF Types, ModuleType, SettingsType, RuntimeType, TaskType, vars, settings, runtime
<1>3. ASSUME NEW c \in Clients, ApplySend(c) PROVE Types'
  BY <1>0, <1>3, ApplySendDoes DEF Types, SettingsType, RuntimeType, settings, runtime
<1>4. ASSUME NEW c \in Clients, ApplySave(c) PROVE Types'
  BY <1>0, <1>4, ApplySaveDoes DEF Types, ModuleType
<1>5. ASSUME NEW c \in Clients, ApplyRollback(c) PROVE Types'
  BY <1>0, <1>5, ApplyRollbackDoes DEF Types, SettingsType, RuntimeType, settings, runtime
<1>6. CASE Restore
  BY <1>0, <1>6, RestoreDoes DEF Types, SettingsType, settings
<1>7. CASE CheckConnected
  BY <1>0, <1>7, CheckConnectedDoes DEF Types, ModuleType, SettingsType, settings
<1>8. CASE CheckSave
  BY <1>0, <1>8, CheckSaveDoes DEF Types, ModuleType, RuntimeType, runtime
<1>9. CASE CheckUnlock
  BY <1>0, <1>9, CheckUnlockDoes DEF Types, SettingsType, settings
<1>10. ASSUME NEW r \in Radio, TimePasses(r) PROVE Types'
  BY <1>0, <1>10, TimePassesDoes DEF Types, ModuleType, SettingsType, TaskType, settings
<1>11. CASE Restart
  BY <1>0, <1>11, RestartDoes
<1>12. CASE ModuleRestarts
  <2>1. ModuleType'
    BY <1>0, <1>12 DEF ModuleRestarts, Types, ModuleType
  <2> QED
    BY <1>0, <1>12, <2>1 DEF ModuleRestarts, Types, SettingsType, RuntimeType, TaskType, settings, runtime
<1> QED
  BY <1>1, <1>2, <1>3, <1>4, <1>5, <1>6, <1>7, <1>8, <1>9, <1>10, <1>11, <1>12, StepKinds

LEMMA StepRequestsAreSound ==
  ASSUME TypeOK, RequestsAreSound, RemovalIsDue, [Next]_vars PROVE RequestsAreSound'
<1> USE DEF RequestsAreSound
<1>0. Types /\ client \in [Clients -> ClientState]
  BY TypeParts DEF Types, TaskType
<1>1. ASSUME NEW c \in Clients, Request(c) PROVE RequestsAreSound'
  BY <1>0, <1>1 DEF Request, ClientState
<1>2. ASSUME NEW c \in Clients, ApplyAcquire(c) PROVE RequestsAreSound'
  BY <1>0, <1>2 DEF ApplyAcquire, ClientState
<1>3. ASSUME NEW c \in Clients, client' = [client EXCEPT ![c] = NoRequest] PROVE RequestsAreSound'
  BY <1>0, <1>3 DEF NoRequest
<1>4. ASSUME NEW c \in Clients, ApplySend(c) PROVE RequestsAreSound'
  <2>1. ASSUME client' = [client EXCEPT ![c].pc = "save"] PROVE RequestsAreSound'
    BY <1>0, <2>1 DEF ClientState
  <2> QED
    BY <1>0, <1>3, <1>4, <2>1, ApplySendDoes
<1>5. ASSUME NEW c \in Clients, ApplySave(c) PROVE RequestsAreSound'
  <2>1. ASSUME NEW pc, client' = [client EXCEPT ![c].pc = pc] PROVE RequestsAreSound'
    BY <1>0, <2>1 DEF ClientState
  <2> QED
    BY <1>0, <1>5, <2>1, ApplySaveDoes
<1>6. ASSUME NEW c \in Clients, ApplyRollback(c) \/ ApplyNotify(c) PROVE RequestsAreSound'
  BY <1>3, <1>6 DEF ApplyRollback, ApplyNotify
<1>7. CASE Restart
  BY <1>0, <1>7 DEF Restart, NoRequest
<1>8. ASSUME UNCHANGED client PROVE RequestsAreSound'
  BY <1>8
<1> QED
  BY <1>1, <1>2, <1>4, <1>5, <1>6, <1>7, <1>8, ClientFrame

LEMMA StepHolding ==
  ASSUME TypeOK, Holding, RequestsAreSound, RemovalIsDue, [Next]_vars PROVE Holding'
<1> USE DEF Holding, InSection
<1>0. Types /\ client \in [Clients -> ClientState] /\ keeper \in KeeperState
  BY TypeParts DEF Types, TaskType
<1>1. ASSUME NEW c \in Clients, Request(c) PROVE Holding'
  BY <1>0, <1>1 DEF Request, KeeperInside
<1>2. ASSUME NEW c \in Clients, ApplyAcquire(c) PROVE Holding'
  <2>1. mutation = Free /\ mutation' = Client(c) /\ keeper' = keeper
    BY <1>2 DEF ApplyAcquire, Acquire
  <2>2. ~KeeperInside /\ \A d \in Clients : ~InSection(d)
    BY <2>1, Exclusive
  <2>3. \A d \in Clients : d # c => client'[d] = client[d]
    BY <1>0, <1>2 DEF ApplyAcquire
  <2> QED
    BY <2>1, <2>2, <2>3 DEF KeeperInside
\* The holder leaves.
<1>3. ASSUME NEW c \in Clients, InSection(c), mutation' = Free, keeper' = keeper,
             client' = [client EXCEPT ![c] = NoRequest]
      PROVE  Holding'
  <2>1. ~KeeperInside /\ \A d \in Clients : d # c => ~InSection(d)
    BY <1>3, Exclusive
  <2> QED
    BY <1>0, <1>3, <2>1 DEF NoRequest, KeeperInside
<1>4. ASSUME NEW c \in Clients, InSection(c), mutation' = mutation, keeper' = keeper,
             NEW pc, client' = [client EXCEPT ![c].pc = pc]
      PROVE  Holding'
  BY <1>0, <1>4 DEF KeeperInside, ClientState
<1>5. ASSUME NEW c \in Clients, ApplySend(c) PROVE Holding'
  BY <1>0, <1>3, <1>4, <1>5, ApplySendDoes
<1>6. ASSUME NEW c \in Clients, ApplySave(c) PROVE Holding'
  BY <1>0, <1>4, <1>6, ApplySaveDoes
<1>7. ASSUME NEW c \in Clients, ApplyRollback(c) \/ ApplyNotify(c) PROVE Holding'
  BY <1>3, <1>7 DEF ApplyRollback, ApplyNotify, Release
\* Between taking and releasing the mutex the task holds it.
<1>8. ASSUME UNCHANGED <<client, mutation>>, KeeperInside' => KeeperInside PROVE Holding'
  BY <1>8
<1>9. CASE KeeperStarts \/ KeeperTimer \/ KeeperNotified
  <2>1. keeper'.pc \in {"restore_wait", "check_wait"} /\ UNCHANGED <<client, mutation>>
    BY <1>0, <1>9 DEF KeeperStarts, KeeperTimer, KeeperNotified, KeeperState
  <2> QED
    BY <1>8, <2>1 DEF KeeperInside
<1>10. CASE KeeperAcquire
  <2>1. mutation = Free /\ mutation' = Keeper /\ client' = client
    BY <1>10 DEF KeeperAcquire, Acquire
  <2> QED
    BY <2>1, Exclusive
<1>11. CASE KeeperReleases
  <2>1. mutation = Keeper /\ mutation' = Free /\ client' = client
    BY <1>11 DEF KeeperReleases, Release
  <2>2. keeper'.pc \in {"sleep", "wait"}
    BY <1>11 DEF KeeperReleases, NewKeeper
  <2>3. \A c \in Clients : ~InSection(c)
    BY <2>1, Owners
  <2> QED
    BY <2>1, <2>2, <2>3 DEF KeeperInside
<1>12. CASE RestoreDone \/ CheckQuery \/ CheckNext
  BY <1>8, <1>12 DEF RestoreDone, CheckQuery, CheckNext, KeeperInside
<1>13. CASE Restore \/ CheckConnected \/ CheckSave \/ CheckUnlock
  <2>1. UNCHANGED <<client, mutation>> /\ KeeperInside
    BY <1>13 DEF Restore, CheckConnected, CheckSave, CheckUnlock, KeeperInside
  <2> QED
    BY <1>8, <2>1
<1>14. CASE Restart
  BY <1>14 DEF Restart, NoRequest, NewKeeper, KeeperInside
<1>15. ASSUME \/ \E r \in Radio : TimePasses(r)
              \/ ModuleRestarts \/ UNCHANGED vars
       PROVE  Holding'
  BY <1>8, <1>15 DEF TimePasses, ModuleRestarts, vars, KeeperInside
<1> QED
  BY <1>1, <1>2, <1>5, <1>6, <1>7, <1>9, <1>10, <1>11, <1>12, <1>13, <1>14, <1>15
     DEF Next, ApplyStep, KeeperStep

\* The file changes with a save alone.
LEMMA StepSavedIsOnFile ==
  ASSUME TypeOK, SavedIsOnFile, RequestsAreSound, [Next]_vars PROVE SavedIsOnFile'
<1>0. Types
  BY TypeParts DEF Types
<1>1. ASSUME NEW c \in Clients, ApplySave(c) PROVE SavedIsOnFile'
  BY <1>0, <1>1, ApplySaveDoes
<1>2. CASE CheckSave \/ Restart
  BY <1>0, <1>2, CheckSaveDoes, RestartDoes
<1>3. CASE TaskOnly
  BY <1>3, TaskOnlyFrame DEF settings, SavedIsOnFile
<1>4. ASSUME NEW c \in Clients, ApplySend(c) \/ ApplyRollback(c) PROVE SavedIsOnFile'
  BY <1>4 DEF ApplySend, ApplyRollback, settings, SavedIsOnFile
<1>5. ASSUME \/ Restore \/ CheckConnected \/ CheckUnlock \/ ModuleRestarts \/ UNCHANGED vars
             \/ \E r \in Radio : TimePasses(r)
      PROVE  SavedIsOnFile'
  BY <1>5 DEF Restore, CheckConnected, CheckUnlock, ModuleRestarts, TimePasses, vars, settings, SavedIsOnFile
<1> QED
  BY <1>1, <1>2, <1>3, <1>4, <1>5, StepKinds

\* A radio the restore has dealt with stays so: requests touch it, and a
\* removal only disables.
LEMMA RestoredStays ==
  ASSUME TypeOK, RequestsAreSound, RemovalIsDue, [Next]_vars, ~Restart, NEW q \in Radio, Restored(q)
  PROVE  Restored(q)'
<1> USE DEF Restored
<1>0. Types /\ touched \in [Radio -> BOOLEAN]
  BY TypeParts DEF Types, RuntimeType
<1>1. ASSUME NEW c \in Clients, ApplySave(c) PROVE Restored(q)'
  <2>1. /\ touched' = touched \/ touched' = [touched EXCEPT ![client[c].radio] = TRUE]
        /\ touched' = touched => UNCHANGED settings \/ touched[client[c].radio]
        /\ UNCHANGED settings \/ rules' = [rules EXCEPT ![client[c].radio] = RuleOf(c)]
        /\ UNCHANGED settings \/ touched' = [touched EXCEPT ![client[c].radio] = TRUE]
    BY <1>0, <1>1, ApplySaveDoes DEF runtime
  <2>2. rules \in [Radio -> Rule]
    BY <1>0 DEF Types, SettingsType, Settings
  <2>3. CASE UNCHANGED settings
    BY <1>0, <2>1, <2>3 DEF settings
  <2>4. CASE rules' = [rules EXCEPT ![client[c].radio] = RuleOf(c)] /\ touched' = [touched EXCEPT ![client[c].radio] = TRUE]
    BY <1>0, <2>2, <2>4
  <2> QED
    BY <2>1, <2>3, <2>4
<1>2. CASE CheckSave
  <2>1. /\ keeper.at \in Radio /\ rules' \in {rules, RulesWithout(keeper.at)}
        /\ touched' = touched
    BY <1>0, <1>2, CheckSaveDoes DEF runtime
  <2>2. /\ ~RulesWithout(keeper.at)[keeper.at].enabled
        /\ q # keeper.at => RulesWithout(keeper.at)[q] = rules[q]
    BY <1>0, <2>1, RulesWithoutType DEF Types
  <2> QED
    BY <2>1, <2>2
<1>3. CASE Restore
  <2>1. PICK r \in Radio : touched' = [touched EXCEPT ![r] = TRUE]
    BY <1>0, <1>3, RestoreDoes DEF Restorable
  <2>2. rules' = rules
    BY <1>3 DEF Restore, settings
  <2> QED
    BY <1>0, <2>1, <2>2
<1>4. CASE TaskOnly
  BY <1>4, TaskOnlyFrame DEF settings, runtime
<1>5. ASSUME NEW c \in Clients, ApplySend(c) \/ ApplyRollback(c) PROVE Restored(q)'
  BY <1>5 DEF ApplySend, ApplyRollback, settings, runtime
<1>6. ASSUME \/ CheckConnected \/ CheckUnlock \/ ModuleRestarts \/ UNCHANGED vars
             \/ \E r \in Radio : TimePasses(r)
      PROVE  Restored(q)'
  BY <1>6 DEF CheckConnected, CheckUnlock, ModuleRestarts, TimePasses, vars, settings, runtime
<1> QED
  BY <1>1, <1>2, <1>3, <1>4, <1>5, <1>6, StepKinds

LEMMA RestartStarts == Restart => keeper' = NewKeeper /\ keeper'.pc = "starting"
<1>1. Restart => keeper' = NewKeeper
  BY DEF Restart
<1>2. NewKeeper.pc = "starting"
  BY DEF NewKeeper
<1> QED
  BY <1>1, <1>2

LEMMA StepRestoreCovers ==
  ASSUME TypeOK, RequestsAreSound, RemovalIsDue, RestoreCovers, [Next]_vars PROVE RestoreCovers'
<1> USE DEF RestoreCovers
<1> DEFINE Early == {"starting", "restore_wait", "restore"}
<1>0. Types /\ keeper \in KeeperState /\ \A r \in Radio : r \in Nat
  BY TypeParts DEF Types, TaskType, Radio
<1>1. Restart => keeper'.pc = "starting"
  BY RestartStarts
<1>2. ASSUME ~Restart PROVE \A q \in Radio : Restored(q) => Restored(q)'
  BY <1>2, RestoredStays
<1>3. ASSUME ~Restart, keeper'.pc = keeper.pc, keeper'.at = keeper.at PROVE RestoreCovers'
  BY <1>2, <1>3
<1>4. ASSUME keeper.pc \notin Early, keeper'.pc \notin Early PROVE RestoreCovers'
  BY <1>1, <1>2, <1>4
<1>5. ASSUME keeper'.pc \in {"starting", "restore_wait"} PROVE RestoreCovers'
  BY <1>5
<1>6. CASE Restore
  <2>1. PICK r \in Restorable :
          /\ \A q \in Restorable : r <= q
          /\ keeper'.at = r + 1
          /\ touched' = [touched EXCEPT ![r] = TRUE]
    BY <1>0, <1>6, RestoreDoes
  <2>2. keeper.pc = "restore" /\ keeper'.pc = "restore" /\ r \in Radio
    BY <1>0, <1>6, <2>1, RestoreDoes DEF Restorable
  <2>3. touched'[r] /\ Restored(r)'
    BY <1>0, <2>1, <2>2 DEF Types, RuntimeType, Restored
  <2>4. ~Restart
    BY <1>1, <2>2
  <2>5. ASSUME NEW q \in Radio, q < r + 1, q # r PROVE Restored(q)'
    <3>1. q < r
      BY <1>0, <2>2, <2>5
    <3>2. q \notin Restorable
      BY <1>0, <2>1, <2>2, <3>1
    <3>3. keeper.at \in Nat
      BY <1>0 DEF KeeperState
    <3>4. Restored(q)
      BY <1>0, <2>2, <3>2, <3>3 DEF Restorable, Restored
    <3> QED
      BY <1>2, <2>4, <3>4
  <2> QED
    BY <2>1, <2>2, <2>3, <2>5
<1>7. CASE RestoreDone
  <2>1. keeper.pc = "restore" /\ Restorable = {} /\ keeper'.pc = "done"
    BY <1>0, <1>7 DEF RestoreDone, KeeperState
  <2>2. keeper.at \in Nat
    BY <1>0 DEF KeeperState
  <2>3. \A q \in Radio : Restored(q)
    BY <1>0, <2>1, <2>2 DEF Restorable, Restored
  <2>4. ~Restart
    BY <1>1, <2>1
  <2> QED
    BY <1>2, <2>1, <2>3, <2>4
<1>8. CASE KeeperAcquire
  <2>1. CASE keeper.pc = "restore_wait"
    <3>1. keeper'.pc = "restore" /\ keeper'.at = 1
      BY <1>0, <1>8, <2>1 DEF KeeperAcquire, KeeperState
    <3> QED
      BY <3>1, <1>0 DEF Radio
  <2>2. CASE keeper.pc = "check_wait"
    <3>1. keeper'.pc \in {"query", "done"}
      BY <1>0, <1>8, <2>2 DEF KeeperAcquire, KeeperState
    <3> QED
      BY <1>4, <2>2, <3>1
  <2> QED
    BY <1>8, <2>1, <2>2 DEF KeeperAcquire
<1>9. CASE KeeperStarts
  BY <1>0, <1>5, <1>9 DEF KeeperStarts, KeeperState
<1>10. CASE KeeperReleases
  <2>1. keeper.pc = "done" /\ keeper'.pc \in {"sleep", "wait"}
    BY <1>10 DEF KeeperReleases, NewKeeper
  <2> QED
    BY <1>4, <2>1
<1>11. CASE KeeperTimer \/ KeeperNotified
  <2>1. keeper.pc \in {"sleep", "wait"} /\ keeper'.pc = "check_wait"
    BY <1>0, <1>11 DEF KeeperTimer, KeeperNotified, KeeperState
  <2> QED
    BY <1>4, <2>1
<1>12. CASE CheckQuery \/ CheckNext
  <2>1. keeper.pc \in {"query", "decide"} /\ keeper'.pc \in {"decide", "done"}
    BY <1>0, <1>12 DEF CheckQuery, CheckNext, KeeperState
  <2> QED
    BY <1>4, <2>1
<1>13. CASE CheckConnected \/ CheckSave \/ CheckUnlock
  <2>1. keeper.pc \in {"decide", "unlock"} /\ keeper'.pc \in {"decide", "unlock"}
    BY <1>0, <1>13 DEF CheckConnected, CheckSave, CheckUnlock, KeeperState
  <2> QED
    BY <1>4, <2>1
<1>14. ASSUME NEW c \in Clients, Request(c) \/ ApplyStep(c) PROVE keeper' = keeper
  BY <1>14 DEF ApplyStep, Request, ApplyAcquire, ApplySend, ApplySave, ApplyRollback, ApplyNotify
<1>15. ASSUME \/ \E r \in Radio : TimePasses(r)
              \/ ModuleRestarts \/ UNCHANGED vars
       PROVE  keeper' = keeper
  BY <1>15 DEF TimePasses, ModuleRestarts, vars
<1> QED
  BY <1>1, <1>3, <1>5, <1>6, <1>7, <1>8, <1>9, <1>10, <1>11, <1>12, <1>13, <1>14, <1>15 DEF Next, KeeperStep

\* A lock that removes itself is watched from the step that installs it.
LEMMA StepTouchedIsWatched ==
  ASSUME TypeOK, RequestsAreSound, RemovalIsDue, TouchedIsWatched, [Next]_vars
  PROVE  TouchedIsWatched'
<1> USE DEF TouchedIsWatched
<1>0. /\ Types /\ rules \in [Radio -> Rule] /\ touched \in [Radio -> BOOLEAN]
      /\ phase \in [Radio -> Phases] /\ deadline \in [Radio -> Deadlines]
  BY TypeParts DEF Types, RuntimeType, SettingsType, Settings
<1>1. ASSUME UNCHANGED <<settings, runtime>> PROVE TouchedIsWatched'
  BY <1>1 DEF settings, runtime
<1>2. ASSUME NEW c \in Clients, ApplySave(c) PROVE TouchedIsWatched'
  <2> DEFINE r == client[c].radio
  <2>1. r \in Radio
    BY <1>0, <1>2, ApplySaveDoes
  <2>2. CASE /\ rules' = [rules EXCEPT ![r] = RuleOf(c)]
             /\ deadline' = [deadline EXCEPT ![r] = IF client[c].auto THEN "fresh" ELSE "none"]
             /\ touched' = [touched EXCEPT ![r] = TRUE]
             /\ \E p : phase' = [phase EXCEPT ![r] = p]
    <3>1. RuleOf(c).auto /\ RuleOf(c).enabled => client[c].auto
      BY DEF RuleOf, NoRule
    <3>2. \A q \in Radio : q # r =>
            rules'[q] = rules[q] /\ deadline'[q] = deadline[q] /\ touched'[q] = touched[q] /\ phase'[q] = phase[q]
      BY <1>0, <2>2
    <3>3. rules'[r] = RuleOf(c) /\ (client[c].auto => deadline'[r] = "fresh")
      BY <1>0, <2>1, <2>2
    <3> QED
      BY <3>1, <3>2, <3>3
  <2> QED
    BY <1>0, <1>1, <1>2, <2>2, ApplySaveDoes
<1>3. CASE Restore
  <2>1. PICK r \in Radio :
          /\ deadline' = [deadline EXCEPT ![r] = IF rules[r].auto THEN "fresh" ELSE "none"]
          /\ touched' = [touched EXCEPT ![r] = TRUE]
          /\ phase' = [phase EXCEPT ![r] = "persistent"]
    BY <1>0, <1>3, RestoreDoes DEF Restorable
  <2>2. rules' = rules
    BY <1>3 DEF Restore, settings
  <2> QED
    BY <1>0, <2>1, <2>2
<1>4. CASE CheckConnected
  BY <1>0, <1>4, CheckConnectedDoes DEF settings
<1>5. CASE CheckSave
  <2>1. keeper.at \in Radio /\ rules' \in {rules, RulesWithout(keeper.at)} /\ UNCHANGED runtime
    BY <1>0, <1>5, CheckSaveDoes
  <2>2. /\ ~RulesWithout(keeper.at)[keeper.at].enabled
        /\ \A q \in Radio : q # keeper.at => RulesWithout(keeper.at)[q] = rules[q]
    BY <1>0, <2>1, RulesWithoutType DEF Types
  <2> QED
    BY <2>1, <2>2 DEF runtime
<1>6. CASE CheckUnlock
  <2>1. UNCHANGED <<rules, touched>> /\ keeper.at \in Radio
    BY <1>0, <1>6, CheckUnlockDoes DEF settings
  <2>2. CASE /\ keeper.saved /\ deadline' = [deadline EXCEPT ![keeper.at] = "none"]
             /\ phase' = [phase EXCEPT ![keeper.at] = "fallback"]
    <3>1. ~rules[keeper.at].enabled
      BY <1>6, <2>2 DEF CheckUnlock, RemovalIsDue
    <3> QED
      BY <1>0, <2>1, <2>2, <3>1
  <2>3. CASE deadline' = deadline /\ phase' = [phase EXCEPT ![keeper.at] = "fallback_error"]
    <3>1. deadline[keeper.at] = "due"
      BY <1>6 DEF CheckUnlock, RemovalIsDue
    <3> QED
      BY <1>0, <2>1, <2>3, <3>1
  <2> QED
    BY <1>0, <1>6, <2>2, <2>3, CheckUnlockDoes
<1>7. ASSUME NEW r \in Radio, TimePasses(r) PROVE TouchedIsWatched'
  BY <1>0, <1>7, TimePassesDoes DEF settings
<1>8. CASE Restart
  BY <1>0, <1>8, RestartDoes
<1>9. CASE TaskOnly
  BY <1>1, <1>9, TaskOnlyFrame
<1>10. ASSUME NEW c \in Clients, ApplySend(c) \/ ApplyRollback(c) PROVE TouchedIsWatched'
  BY <1>1, <1>10 DEF ApplySend, ApplyRollback
<1>11. CASE ModuleRestarts \/ UNCHANGED vars
  BY <1>1, <1>11 DEF ModuleRestarts, vars, settings, runtime
<1> QED
  BY <1>2, <1>3, <1>4, <1>5, <1>6, <1>7, <1>8, <1>9, <1>10, <1>11, StepKinds

LEMMA StepDeadlinesBelong ==
  ASSUME TypeOK, RequestsAreSound, RemovalIsDue, DeadlinesBelong, [Next]_vars
  PROVE  DeadlinesBelong'
<1> USE DEF DeadlinesBelong
<1>0. Types /\ phase \in [Radio -> Phases] /\ deadline \in [Radio -> Deadlines]
  BY TypeParts DEF Types, RuntimeType
<1>1. ASSUME UNCHANGED runtime PROVE DeadlinesBelong'
  BY <1>1 DEF runtime
<1>2. ASSUME NEW c \in Clients, ApplySave(c) PROVE DeadlinesBelong'
  <2> DEFINE r == client[c].radio
  <2>1. client[c].auto => client[c].persistent /\ client[c].cell # NoCell
    BY DEF RequestsAreSound
  <2>2. \/ UNCHANGED runtime
        \/ /\ deadline' = [deadline EXCEPT ![r] = IF client[c].auto THEN "fresh" ELSE "none"]
           /\ phase' = [phase EXCEPT ![r] = IF client[c].cell = NoCell THEN "unlocked"
                                            ELSE IF client[c].persistent THEN "persistent"
                                            ELSE "temporary"]
    BY <1>0, <1>2, ApplySaveDoes
  <2> QED
    BY <1>0, <1>1, <2>1, <2>2
<1>3. CASE Restore
  BY <1>0, <1>3, RestoreDoes DEF Restorable
<1>4. CASE CheckConnected
  BY <1>0, <1>4, CheckConnectedDoes
<1>5. CASE CheckUnlock
  BY <1>0, <1>5, CheckUnlockDoes
<1>6. ASSUME NEW r \in Radio, TimePasses(r) PROVE DeadlinesBelong'
  BY <1>0, <1>6, TimePassesDoes
<1>7. CASE Restart
  BY <1>0, <1>7, RestartDoes
<1>8. CASE TaskOnly
  BY <1>1, <1>8, TaskOnlyFrame
<1>9. ASSUME NEW c \in Clients, ApplySend(c) \/ ApplyRollback(c) PROVE DeadlinesBelong'
  BY <1>1, <1>9 DEF ApplySend, ApplyRollback
<1>10. CASE CheckSave \/ ModuleRestarts \/ UNCHANGED vars
  BY <1>1, <1>10 DEF CheckSave, ModuleRestarts, vars, runtime
<1> QED
  BY <1>2, <1>3, <1>4, <1>5, <1>6, <1>7, <1>8, <1>9, <1>10, StepKinds

\* Where the background task can be after a step.
LEMMA KeeperMoves ==
  ASSUME TypeOK, [Next]_vars
  PROVE  /\ keeper'.pc = "unlock" => UNCHANGED keeper \/ CheckSave
         /\ keeper'.pc = "wait" => UNCHANGED keeper \/ KeeperReleases
<1>0. keeper \in KeeperState
  BY TypeParts DEF TaskType
<1>1. CASE KeeperStarts \/ KeeperTimer \/ KeeperNotified
  <2>1. keeper'.pc \in {"restore_wait", "check_wait"}
    BY <1>0, <1>1 DEF KeeperStarts, KeeperTimer, KeeperNotified, KeeperState
  <2> QED
    BY <2>1
<1>2. CASE KeeperAcquire
  <2>1. PICK pc \in {"restore", "query", "done"} : keeper' = [keeper EXCEPT !.at = 1, !.pc = pc]
    BY <1>2 DEF KeeperAcquire
  <2> QED
    BY <1>0, <2>1 DEF KeeperState
<1>3. CASE Restore \/ RestoreDone
  <2>1. keeper'.pc \in {"restore", "done"}
    BY <1>0, <1>3 DEF Restore, RestoreDone, KeeperState
  <2> QED
    BY <2>1
<1>4. CASE KeeperReleases
  <2>1. keeper'.pc \in {"sleep", "wait"}
    BY <1>4 DEF KeeperReleases, NewKeeper
  <2> QED
    BY <1>4, <2>1
<1>5. CASE CheckQuery \/ CheckNext
  <2>1. keeper'.pc \in {"decide", "done"}
    BY <1>0, <1>5 DEF CheckQuery, CheckNext, KeeperState
  <2> QED
    BY <2>1
<1>6. CASE CheckConnected
  <2>1. keeper'.pc = "decide"
    BY <1>0, <1>6 DEF CheckConnected, KeeperState
  <2> QED
    BY <2>1
<1>7. CASE CheckSave
  <2>1. keeper'.pc = "unlock"
    BY <1>0, <1>7 DEF CheckSave, KeeperState
  <2> QED
    BY <1>7, <2>1
<1>8. CASE CheckUnlock
  <2>1. keeper'.pc = "decide"
    BY <1>0, <1>8 DEF CheckUnlock, KeeperState
  <2> QED
    BY <2>1
<1>9. CASE Restart
  BY <1>9, RestartStarts
<1>10. ASSUME NEW c \in Clients, Request(c) \/ ApplyStep(c) PROVE keeper' = keeper
  BY <1>10 DEF ApplyStep, Request, ApplyAcquire, ApplySend, ApplySave, ApplyRollback, ApplyNotify
<1>11. ASSUME \/ \E r \in Radio : TimePasses(r)
              \/ ModuleRestarts \/ UNCHANGED vars
       PROVE  keeper' = keeper
  BY <1>11 DEF TimePasses, ModuleRestarts, vars
<1> QED
  BY <1>1, <1>2, <1>3, <1>4, <1>5, <1>6, <1>7, <1>8, <1>9, <1>10, <1>11 DEF Next, KeeperStep

\* No request gets between the save of a removal and its command: the mutex.
LEMMA StepRemovalIsDue ==
  ASSUME TypeOK, Holding, RequestsAreSound, RemovalIsDue, [Next]_vars PROVE RemovalIsDue'
<1> USE DEF RemovalIsDue
<1>0. Types /\ deadline \in [Radio -> Deadlines]
  BY TypeParts DEF Types, RuntimeType
<1> SUFFICES ASSUME keeper'.pc = "unlock"
             PROVE  /\ keeper'.at \in Radio /\ deadline'[keeper'.at] = "due"
                    /\ keeper'.saved => ~rules'[keeper'.at].enabled
  OBVIOUS
<1>1. CASE CheckSave
  <2>1. /\ keeper'.at = keeper.at /\ keeper.at \in Radio /\ deadline[keeper.at] = "due"
        /\ deadline' = deadline /\ (keeper'.saved => rules' = RulesWithout(keeper.at))
    BY <1>0, <1>1, CheckSaveDoes DEF runtime
  <2>2. ~RulesWithout(keeper.at)[keeper.at].enabled
    BY <1>0, <2>1, RulesWithoutType DEF Types
  <2> QED
    BY <2>1, <2>2
<1>2. CASE UNCHANGED keeper
  <2>1. keeper.pc = "unlock" /\ KeeperInside /\ \A c \in Clients : ~InSection(c)
    BY <1>2, Exclusive DEF KeeperInside
  <2>2. ~Restart
    BY <1>2, <2>1, RestartStarts
  <2>3. \/ UNCHANGED <<rules, deadline>>
        \/ /\ \E r \in Radio : deadline[r] # "due" /\ \A q \in Radio \ {r} : deadline'[q] = deadline[q]
           /\ rules' = rules
    <3>1. CASE TaskOnly
      BY <3>1, TaskOnlyFrame DEF settings, runtime
    <3>2. ASSUME NEW c \in Clients, ApplySend(c) \/ ApplySave(c) \/ ApplyRollback(c) PROVE FALSE
      BY <2>1, <3>2 DEF ApplySend, ApplySave, ApplyRollback, InSection
    <3>3. ASSUME Restore \/ CheckConnected \/ CheckSave PROVE FALSE
      BY <2>1, <3>3 DEF Restore, CheckConnected, CheckSave
    <3>4. ASSUME CheckUnlock PROVE FALSE
      BY <1>0, <1>2, <2>1, <3>4, CheckUnlockDoes
    <3>5. ASSUME NEW r \in Radio, TimePasses(r)
          PROVE  /\ rules' = rules /\ deadline[r] # "due"
                 /\ \A q \in Radio \ {r} : deadline'[q] = deadline[q]
      BY <1>0, <3>5, TimePassesDoes DEF settings
    <3>6. CASE ModuleRestarts \/ UNCHANGED vars
      BY <3>6 DEF ModuleRestarts, vars, settings, runtime
    <3> QED
      BY <2>2, <3>1, <3>2, <3>3, <3>4, <3>5, <3>6, StepKinds
  <2> QED
    BY <1>2, <2>1, <2>3
<1> QED
  BY <1>1, <1>2, KeeperMoves

SaveIsSent ==
  \A c \in Clients : client[c].pc = "save" => modem[client[c].radio] \in {NoCell, client[c].cell}

\* What the invariant says of one radio's module.
KnownOf(r) ==
  /\ phase[r] \in {"unlocked", "fallback"} =>
       /\ ~rules[r].enabled
       /\ Changing(r) \/ unsure[r] \/ modem[r] = NoCell
  /\ phase[r] \in {"persistent", "connected"} =>
       Changing(r) \/ unsure[r] \/ modem[r] \in {NoCell, rules[r].cell}

LEMMA KnownParts == Known <=> SaveIsSent /\ \A r \in Radio : KnownOf(r)
BY DEF Known, SaveIsSent, KnownOf

\* The request in its section is the only one that can be changing a radio.
LEMMA OneChange ==
  ASSUME Holding, NEW c \in Clients, InSection(c)
  PROVE  /\ \A d \in Clients : client[d].pc \in {"save", "rollback"} => d = c
         /\ \A r \in Radio : Changing(r) =>
              client[c].pc \in {"save", "rollback"} /\ client[c].radio = r
BY Exclusive DEF InSection, Changing

LEMMA NoChange ==
  ASSUME Holding, KeeperInside
  PROVE  /\ \A d \in Clients : client[d].pc \notin {"save", "rollback"}
         /\ \A r \in Radio : ~Changing(r)
BY Exclusive DEF InSection, Changing

LEMMA StepSaveIsSent ==
  ASSUME TypeOK, Holding, RequestsAreSound, RemovalIsDue, Known, [Next]_vars PROVE SaveIsSent'
<1> USE DEF SaveIsSent
<1>0. Types /\ SaveIsSent /\ client \in [Clients -> ClientState] /\ modem \in [Radio -> Cells \cup {NoCell}]
  BY TypeParts, KnownParts DEF Types, TaskType, ModuleType
\* Others have sent nothing they have not saved.
<1>1. ASSUME NEW c \in Clients, InSection(c),
             \/ client' = [client EXCEPT ![c] = NoRequest]
             \/ \E pc \in {"rollback", "notify"} : client' = [client EXCEPT ![c].pc = pc]
      PROVE  SaveIsSent'
  <2>1. \A d \in Clients \ {c} : client'[d] = client[d] /\ client[d].pc # "save"
    BY <1>0, <1>1, OneChange
  <2>2. client'[c].pc # "save"
    BY <1>0, <1>1 DEF NoRequest, ClientState
  <2> QED
    BY <2>1, <2>2
<1>2. ASSUME NEW c \in Clients, ApplySend(c) PROVE SaveIsSent'
  <2>1. InSection(c)
    BY <1>2 DEF ApplySend, InSection
  <2>2. CASE client' = [client EXCEPT ![c].pc = "save"] /\ modem'[client[c].radio] = client[c].cell
    <3>1. \A d \in Clients \ {c} : client'[d] = client[d] /\ client[d].pc # "save"
      BY <1>0, <2>1, <2>2, OneChange
    <3>2. client'[c].radio = client[c].radio /\ client'[c].cell = client[c].cell
      BY <1>0, <2>2 DEF ClientState
    <3> QED
      BY <2>2, <3>1, <3>2
  <2> QED
    BY <1>0, <1>1, <1>2, <2>1, <2>2, ApplySendDoes
<1>3. ASSUME NEW c \in Clients, ApplySave(c) PROVE SaveIsSent'
  <2>1. InSection(c)
    BY <1>3 DEF ApplySave, InSection
  <2> QED
    BY <1>0, <1>1, <1>3, <2>1, ApplySaveDoes
<1>4. ASSUME NEW c \in Clients, ApplyRollback(c) PROVE SaveIsSent'
  <2>1. InSection(c)
    BY <1>4 DEF ApplyRollback, InSection
  <2> QED
    BY <1>0, <1>1, <1>4, <2>1, ApplyRollbackDoes
<1>5. ASSUME NEW c \in Clients, Request(c) \/ ApplyAcquire(c) PROVE SaveIsSent'
  <2>1. modem' = modem /\ \A d \in Clients \ {c} : client'[d] = client[d]
    BY <1>0, <1>5 DEF Request, ApplyAcquire
  <2>2. client'[c].pc \in {"wait", "send"}
    BY <1>0, <1>5 DEF Request, ApplyAcquire, ClientState
  <2> QED
    BY <1>0, <2>1, <2>2
<1>6. ASSUME NEW c \in Clients, ApplyNotify(c) PROVE SaveIsSent'
  BY <1>1, <1>6 DEF ApplyNotify, InSection
<1>7. CASE Restart
  <2>1. \A c \in Clients : client'[c].pc = "idle"
    BY <1>7 DEF Restart, NoRequest
  <2> QED
    BY <2>1
<1>8. CASE Restore \/ CheckUnlock
  <2>1. KeeperInside /\ client' = client
    BY <1>8 DEF Restore, CheckUnlock, KeeperInside
  <2> QED
    BY <2>1, NoChange
<1>9. CASE ModuleRestarts
  <2>1. client' = client /\ modem' = [r \in Radio |-> NoCell]
    BY <1>9 DEF ModuleRestarts
  <2>2. \A c \in Clients : client[c].radio \in Radio
    BY <1>0 DEF ClientState
  <2> QED
    BY <2>1, <2>2
<1>10. CASE KeeperStep
  <2>1. ASSUME UNCHANGED <<modem, client>> PROVE SaveIsSent'
    BY <1>0, <2>1
  <2>2. CASE KeeperStarts \/ KeeperAcquire \/ RestoreDone \/ KeeperReleases \/ KeeperTimer
    BY <2>1, <2>2 DEF KeeperStarts, KeeperAcquire, RestoreDone, KeeperReleases, KeeperTimer
  <2>3. CASE KeeperNotified \/ CheckQuery \/ CheckConnected \/ CheckSave \/ CheckNext
    BY <2>1, <2>3 DEF KeeperNotified, CheckQuery, CheckConnected, CheckSave, CheckNext
  <2> QED
    BY <1>8, <1>10, <2>2, <2>3 DEF KeeperStep
<1>11. ASSUME UNCHANGED vars \/ \E r \in Radio : TimePasses(r) PROVE SaveIsSent'
  <2>1. UNCHANGED <<modem, client>>
    BY <1>11 DEF TimePasses, vars
  <2> QED
    BY <1>0, <2>1
<1> QED
  BY <1>2, <1>3, <1>4, <1>5, <1>6, <1>7, <1>9, <1>10, <1>11 DEF Next, ApplyStep

\* A radio's module, saved rule and phase keep together through every step.
LEMMA StepKnown ==
  ASSUME TypeOK, Holding, RequestsAreSound, RemovalIsDue, DeadlinesBelong, Known, [Next]_vars
  PROVE  Known'
<1> USE DEF KnownOf
<1> SUFFICES ASSUME NEW q \in Radio PROVE KnownOf(q)'
  BY StepSaveIsSent, KnownParts DEF Known, SaveIsSent
<1>0. /\ Types /\ SaveIsSent /\ KnownOf(q) /\ client \in [Clients -> ClientState]
      /\ phase \in [Radio -> Phases] /\ rules \in [Radio -> Rule]
  BY TypeParts, KnownParts DEF Types, TaskType, RuntimeType, SettingsType, Settings
\* Without a change under way, what did not change is still so.
<1>1. ASSUME ~Changing(q), phase'[q] = phase[q], rules'[q] = rules[q], modem'[q] = modem[q],
             unsure'[q] = unsure[q]
      PROVE  KnownOf(q)'
  BY <1>0, <1>1
<1>2. ASSUME UNCHANGED <<phase, rules, modem, unsure>>, Changing(q) => Changing(q)' PROVE KnownOf(q)'
  BY <1>0, <1>2
<1>3. ASSUME NEW c \in Clients, ApplySend(c) PROVE KnownOf(q)'
  <2>1. client[c].pc = "send" /\ ~Changing(q) /\ UNCHANGED <<phase, rules>>
    <3>1. InSection(c) /\ client[c].pc = "send"
      BY <1>3 DEF ApplySend, InSection
    <3>2. UNCHANGED <<phase, rules>>
      BY <1>3 DEF ApplySend, settings, runtime
    <3> QED
      BY <3>1, <3>2, OneChange
  <2>2. CASE q # client[c].radio
    BY <1>0, <1>1, <1>3, <2>1, <2>2, ApplySendDoes
  <2>3. CASE client' = [client EXCEPT ![c].pc = "save"] /\ q = client[c].radio
    <3>1. client'[c].pc = "save" /\ client'[c].radio = q
      BY <1>0, <2>3 DEF ClientState
    <3>2. Changing(q)'
      BY <3>1 DEF Changing
    <3>3. phase[q] \in {"unlocked", "fallback"} => ~rules[q].enabled
      BY <1>0
    <3> QED
      BY <2>1, <3>2, <3>3
  <2>4. CASE q = client[c].radio /\ (unsure'[q] \/ UNCHANGED <<modem, unsure>>)
    BY <1>0, <1>1, <2>1, <2>4
  <2> QED
    BY <1>0, <1>3, <2>2, <2>3, <2>4, ApplySendDoes
<1>4. ASSUME NEW c \in Clients, ApplySave(c) PROVE KnownOf(q)'
  <2> DEFINE r == client[c].radio
  <2>1. client[c].pc = "save" /\ InSection(c) /\ UNCHANGED <<modem, unsure>>
    BY <1>4 DEF ApplySave, InSection
  <2>2. CASE q # r
    <3>1. ~Changing(q)
      BY <2>1, <2>2, OneChange
    <3>2. rules'[q] = rules[q] /\ phase'[q] = phase[q]
      BY <1>0, <1>4, <2>2, ApplySaveDoes DEF settings, runtime
    <3> QED
      BY <1>1, <2>1, <3>1, <3>2
  <2>3. CASE q = r /\ client' = [client EXCEPT ![c].pc = "rollback"] /\ UNCHANGED <<settings, runtime>>
    <3>1. client'[c].pc = "rollback" /\ client'[c].radio = q
      BY <1>0, <2>3 DEF ClientState
    <3>2. Changing(q)'
      BY <3>1 DEF Changing
    <3> QED
      BY <1>2, <2>1, <2>3, <3>2 DEF settings, runtime
  <2>4. CASE /\ q = r /\ rules' = [rules EXCEPT ![r] = RuleOf(c)]
             /\ phase' = [phase EXCEPT ![r] = IF client[c].cell = NoCell THEN "unlocked"
                                              ELSE IF client[c].persistent THEN "persistent"
                                              ELSE "temporary"]
    <3>1. modem'[q] \in {NoCell, client[c].cell}
      BY <1>0, <2>1, <2>4 DEF SaveIsSent
    <3>2. rules'[q] = RuleOf(c)
      BY <1>0, <2>4
    <3>3. CASE client[c].cell = NoCell
      <4>1. phase'[q] = "unlocked"
        BY <1>0, <2>4, <3>3
      <4>2. ~RuleOf(c).enabled
        BY <3>3 DEF RequestsAreSound, RuleOf, NoRule
      <4> QED
        BY <3>1, <3>2, <3>3, <4>1, <4>2
    <3>4. CASE client[c].cell # NoCell /\ client[c].persistent
      <4>1. phase'[q] = "persistent"
        BY <1>0, <2>4, <3>4
      <4>2. RuleOf(c).cell = client[c].cell
        BY <3>4 DEF RuleOf
      <4> QED
        BY <3>1, <3>2, <4>1, <4>2
    <3>5. CASE client[c].cell # NoCell /\ ~client[c].persistent
      <4>1. phase'[q] = "temporary"
        BY <1>0, <2>4, <3>5
      <4> QED
        BY <4>1
    <3> QED
      BY <3>3, <3>4, <3>5
  <2> QED
    BY <1>0, <1>4, <2>2, <2>3, <2>4, ApplySaveDoes
<1>5. ASSUME NEW c \in Clients, ApplyRollback(c) PROVE KnownOf(q)'
  <2>1. client[c].pc = "rollback" /\ InSection(c) /\ UNCHANGED <<phase, rules>>
    BY <1>5 DEF ApplyRollback, InSection, settings, runtime
  <2>2. CASE q # client[c].radio
    <3>1. ~Changing(q)
      BY <2>1, <2>2, OneChange
    <3> QED
      BY <1>0, <1>1, <1>5, <2>1, <2>2, <3>1, ApplyRollbackDoes
  <2>3. CASE q = client[c].radio
    <3>1. unsure'[q] \/ modem'[q] = Before(q)
      BY <1>0, <1>5, <2>3, ApplyRollbackDoes
    <3> QED
      BY <1>0, <2>1, <3>1 DEF Before
  <2> QED
    BY <2>2, <2>3
<1>6. CASE Restore
  <2>1. KeeperInside /\ rules' = rules
    BY <1>6 DEF Restore, KeeperInside, settings
  <2>2. PICK r \in Radio :
          /\ unsure'[r] \/ modem'[r] = rules[r].cell
          /\ \A p \in Radio \ {r} : modem'[p] = modem[p] /\ unsure'[p] = unsure[p]
          /\ phase' = [phase EXCEPT ![r] = "persistent"]
    BY <1>0, <1>6, RestoreDoes DEF Restorable
  <2>3. ~Changing(q)
    BY <2>1, NoChange
  <2>4. CASE q = r
    BY <1>0, <2>1, <2>2, <2>4
  <2>5. CASE q # r
    BY <1>0, <1>1, <2>1, <2>2, <2>3, <2>5
  <2> QED
    BY <2>4, <2>5
<1>7. CASE CheckConnected
  <2>1. /\ UNCHANGED <<modem, unsure, rules>> /\ phase' = [phase EXCEPT ![keeper.at] = "connected"]
        /\ keeper.at \in Radio /\ Connected(keeper.at) /\ KeeperInside
    BY <1>7 DEF CheckConnected, settings, KeeperInside
  <2>2. phase[keeper.at] = "persistent"
    BY <2>1 DEF Connected, DeadlinesBelong
  <2>3. ~Changing(q)
    BY <2>1, NoChange
  <2>4. CASE q = keeper.at
    BY <1>0, <2>1, <2>2, <2>3, <2>4
  <2>5. CASE q # keeper.at
    BY <1>0, <1>1, <2>1, <2>3, <2>5
  <2> QED
    BY <2>4, <2>5
<1>8. CASE CheckSave
  <2>1. /\ UNCHANGED <<modem, unsure, phase, client>> /\ keeper.at \in Radio
        /\ rules' \in {rules, RulesWithout(keeper.at)}
    BY <1>0, <1>8, CheckSaveDoes DEF runtime
  <2>2. rules'[q].cell = rules[q].cell /\ (~rules[q].enabled => ~rules'[q].enabled)
    BY <1>0, <2>1, RulesWithoutType DEF Types
  <2>3. Changing(q)' <=> Changing(q)
    BY <2>1 DEF Changing
  <2> QED
    BY <1>0, <2>1, <2>2, <2>3
<1>9. CASE CheckUnlock
  <2>1. KeeperInside /\ rules' = rules /\ keeper.at \in Radio
    BY <1>9 DEF CheckUnlock, KeeperInside, RemovalIsDue, settings
  <2>2. ~Changing(q)
    BY <2>1, NoChange
  <2>3. /\ \A p \in Radio \ {keeper.at} : modem'[p] = modem[p] /\ unsure'[p] = unsure[p]
        /\ \/ /\ keeper.saved /\ modem'[keeper.at] = NoCell
              /\ phase' = [phase EXCEPT ![keeper.at] = "fallback"]
           \/ phase' = [phase EXCEPT ![keeper.at] = "fallback_error"]
    BY <1>0, <1>9, CheckUnlockDoes
  <2>4. keeper.saved => ~rules[keeper.at].enabled
    BY <1>9 DEF CheckUnlock, RemovalIsDue
  <2>5. CASE q = keeper.at
    BY <1>0, <2>1, <2>3, <2>4, <2>5
  <2>6. CASE q # keeper.at
    BY <1>0, <1>1, <2>1, <2>2, <2>3, <2>6
  <2> QED
    BY <2>5, <2>6
<1>10. CASE Restart
  <2>1. phase'[q] = ""
    BY <1>10 DEF Restart
  <2> QED
    BY <2>1
<1>11. CASE ModuleRestarts
  <2>1. UNCHANGED <<phase, rules>> /\ modem'[q] = NoCell
    BY <1>11 DEF ModuleRestarts, settings, runtime
  <2> QED
    BY <1>0, <2>1
<1>12. CASE TaskOnly
  <2>1. UNCHANGED <<phase, rules, modem, unsure>>
    BY <1>12, TaskOnlyFrame DEF settings, runtime
  <2>2. ASSUME UNCHANGED client PROVE Changing(q) => Changing(q)'
    BY <2>2 DEF Changing
  <2>3. ASSUME NEW c \in Clients, Request(c) \/ ApplyAcquire(c) \/ ApplyNotify(c)
        PROVE  Changing(q) => Changing(q)'
    <3>1. client[c].pc \notin {"save", "rollback"} /\ \A d \in Clients \ {c} : client'[d] = client[d]
      BY <1>0, <2>3 DEF Request, ApplyAcquire, ApplyNotify
    <3> QED
      BY <3>1 DEF Changing
  <2>4. ASSUME KeeperStarts \/ KeeperAcquire \/ RestoreDone \/ KeeperReleases PROVE UNCHANGED client
    BY <2>4 DEF KeeperStarts, KeeperAcquire, RestoreDone, KeeperReleases
  <2>5. ASSUME KeeperTimer \/ KeeperNotified \/ CheckQuery \/ CheckNext PROVE UNCHANGED client
    BY <2>5 DEF KeeperTimer, KeeperNotified, CheckQuery, CheckNext
  <2> QED
    BY <1>2, <1>12, <2>1, <2>2, <2>3, <2>4, <2>5 DEF TaskOnly
<1>13. ASSUME UNCHANGED vars \/ \E r \in Radio : TimePasses(r) PROVE KnownOf(q)'
  <2>1. UNCHANGED <<phase, rules, modem, unsure, client>>
    BY <1>13 DEF TimePasses, vars, settings, runtime
  <2> QED
    BY <1>2, <2>1 DEF Changing
<1> QED
  BY <1>3, <1>4, <1>5, <1>6, <1>7, <1>8, <1>9, <1>10, <1>11, <1>12, <1>13, StepKinds

\* While the background task waits without an end, only a request sets a
\* deadline, and that request has yet to notify it.
LEMMA StepNoLostWakeup ==
  ASSUME TypeOK, RequestsAreSound, RemovalIsDue, NoLostWakeup, [Next]_vars PROVE NoLostWakeup'
<1> USE DEF NoLostWakeup
<1>0. Types /\ client \in [Clients -> ClientState] /\ keeper \in KeeperState
  BY TypeParts DEF Types, TaskType
<1> SUFFICES ASSUME keeper'.pc = "wait", \E r \in Radio : deadline'[r] # "none"
             PROVE  permit' \/ \E c \in Clients : client'[c].pc = "notify"
  OBVIOUS
<1>1. CASE KeeperReleases
  <2>1. deadline' = deadline /\ ~ \E r \in Radio : deadline[r] # "none"
    BY <1>1 DEF KeeperReleases, NewKeeper, runtime
  <2> QED
    BY <2>1
<1>2. CASE UNCHANGED keeper
  <2>0. keeper.pc = "wait" /\ ~Restart
    BY <1>2, RestartStarts
  <2>1. ASSUME NEW c \in Clients, ApplySave(c) PROVE permit' \/ \E d \in Clients : client'[d].pc = "notify"
    <3>1. client[c].pc = "save" /\ permit' = permit
      BY <2>1 DEF ApplySave
    <3>2. CASE client' = [client EXCEPT ![c].pc = "notify"]
      BY <1>0, <3>2 DEF ClientState
    <3>3. CASE client' = [client EXCEPT ![c].pc = "rollback"] /\ UNCHANGED runtime
      BY <1>0, <2>0, <3>1, <3>3 DEF runtime
    <3> QED
      BY <1>0, <2>1, <3>2, <3>3, ApplySaveDoes
  <2>2. ASSUME NEW c \in Clients, Request(c) \/ ApplyAcquire(c) \/ ApplySend(c) \/ ApplyRollback(c)
        PROVE  permit' \/ \E d \in Clients : client'[d].pc = "notify"
    <3>1. UNCHANGED <<permit, deadline>> /\ client[c].pc # "notify"
      BY <2>2 DEF Request, ApplyAcquire, ApplySend, ApplyRollback, runtime
    <3>2. \A d \in Clients \ {c} : client'[d] = client[d]
      <4>1. CASE Request(c) \/ ApplyAcquire(c)
        BY <1>0, <4>1 DEF Request, ApplyAcquire
      <4>2. CASE ApplySend(c)
        BY <1>0, <4>2, ApplySendDoes
      <4>3. CASE ApplyRollback(c)
        BY <1>0, <4>3, ApplyRollbackDoes
      <4> QED
        BY <2>2, <4>1, <4>2, <4>3
    <3> QED
      BY <2>0, <3>1, <3>2
  <2>3. ASSUME NEW c \in Clients, ApplyNotify(c) PROVE permit'
    BY <2>3 DEF ApplyNotify, Notify
  <2>4. ASSUME UNCHANGED <<permit, client>>, \E r \in Radio : deadline[r] # "none"
        PROVE  permit' \/ \E d \in Clients : client'[d].pc = "notify"
    BY <2>0, <2>4
  <2>5. ASSUME NEW r \in Radio, TimePasses(r)
        PROVE  permit' \/ \E d \in Clients : client'[d].pc = "notify"
    BY <1>0, <2>4, <2>5, TimePassesDoes
  <2>6. CASE ModuleRestarts \/ UNCHANGED vars
    BY <2>4, <2>6 DEF ModuleRestarts, vars, runtime
  <2>7. CASE KeeperStep
    <3>1. ~(KeeperStarts \/ Restore \/ RestoreDone \/ KeeperAcquire \/ KeeperReleases \/ KeeperTimer)
      BY <2>0 DEF KeeperStarts, Restore, RestoreDone, KeeperAcquire, KeeperReleases, KeeperTimer
    <3>2. ~(CheckQuery \/ CheckConnected \/ CheckSave \/ CheckUnlock \/ CheckNext)
      BY <2>0 DEF CheckQuery, CheckConnected, CheckSave, CheckUnlock, CheckNext
    <3>3. KeeperNotified => keeper'.pc = "check_wait"
      BY <1>0 DEF KeeperNotified, KeeperState
    <3> QED
      BY <2>7, <3>1, <3>2, <3>3 DEF KeeperStep
  <2> QED
    BY <2>0, <2>1, <2>2, <2>3, <2>5, <2>6, <2>7 DEF Next, ApplyStep
<1> QED
  BY <1>1, <1>2, KeeperMoves

-----------------------------------------------------------------------------

LEMMA InitInv == Init => IndInv
<1> SUFFICES ASSUME Init PROVE IndInv
  OBVIOUS
<1>1. Types
  <2>1. [r \in Radio |-> NoRule] \in Settings
    BY DEF Settings, Rule
  <2>2. SettingsType
    BY <2>1 DEF Init, Loaded, SettingsType
  <2>3. ModuleType /\ RuntimeType
    BY DEF Init, ModuleType, RuntimeType, Phases, Deadlines
  <2>4. TaskType
    BY IdleType DEF Init, TaskType, Holders
  <2> QED
    BY <2>2, <2>3, <2>4 DEF Types
<1>2. TypeOK
  BY <1>1, TypeParts DEF Types
<1>3. \A c \in Clients : client[c].pc = "idle" /\ ~client[c].persistent /\ ~client[c].auto
  BY DEF Init, NoRequest
<1>4. keeper.pc = "starting"
  BY DEF Init, NewKeeper
<1>5. \A r \in Radio : phase[r] = "" /\ deadline[r] = "none" /\ touched[r] = FALSE
  BY DEF Init
<1>6. Holding /\ RequestsAreSound /\ RemovalIsDue /\ RestoreCovers
  BY <1>3, <1>4 DEF Holding, RequestsAreSound, RemovalIsDue, RestoreCovers, InSection, KeeperInside
<1>7. SavedIsOnFile
  BY DEF Init, Loaded, SavedIsOnFile
<1>8. TouchedIsWatched /\ DeadlinesBelong /\ Known /\ NoLostWakeup
  BY <1>3, <1>4, <1>5 DEF TouchedIsWatched, DeadlinesBelong, Known, NoLostWakeup
<1> QED
  BY <1>2, <1>6, <1>7, <1>8 DEF IndInv

\* The invariant holds over any interleaving of requests, the background task,
\* time, and restarts of program and module.
THEOREM Invariance == Spec => []IndInv
<1>1. IndInv /\ [Next]_vars => IndInv'
  BY StepTypeOK, StepHolding, StepRequestsAreSound, StepSavedIsOnFile, StepRestoreCovers,
     StepTouchedIsWatched, StepDeadlinesBelong, StepRemovalIsDue, StepKnown, StepNoLostWakeup
     DEF IndInv
<1> QED
  BY <1>1, InitInv, PTL DEF Spec

\* The two tasks and the mutex keep to their places, the rules to what a
\* settings file can hold.
THEOREM TypeCorrect == Spec => []TypeOK
<1>1. IndInv => TypeOK
  BY DEF IndInv
<1> QED
  BY <1>1, Invariance, PTL

\* Only one of apply(), restore() and check() is between its first command and
\* its last at a time, whatever the number of requests: the tokio mutex.
THEOREM OneAtATime ==
  Spec => [](/\ \A c, d \in Clients : InSection(c) /\ InSection(d) => c = d
             /\ \A c \in Clients : ~(InSection(c) /\ KeeperInside))
<1>1. IndInv => /\ \A c, d \in Clients : InSection(c) /\ InSection(d) => c = d
                /\ \A c \in Clients : ~(InSection(c) /\ KeeperInside)
  BY Exclusive DEF IndInv
<1> QED
  BY <1>1, Invariance, PTL

\* A saved lock that removes itself is watched, or was seen connected, once
\* restore() is over: for any number of radios and of requests in flight.
THEOREM LocksAreWatched == Spec => []AutoUnlockIsWatched
<1>1. IndInv => AutoUnlockIsWatched
  <2> SUFFICES ASSUME IndInv, Quiet, keeper.pc \notin {"starting", "restore_wait"},
                      NEW r \in Radio, rules[r].enabled, rules[r].auto
               PROVE  deadline[r] # "none" \/ phase[r] = "connected"
    BY DEF AutoUnlockIsWatched
  <2>1. ~KeeperInside
    BY Exclusive DEF IndInv, Quiet
  <2>2. touched[r]
    BY <2>1 DEF IndInv, RestoreCovers, Restored, KeeperInside
  <2> QED
    BY <2>2 DEF IndInv, TouchedIsWatched
<1> QED
  BY <1>1, Invariance, PTL

\* With nobody in his section no request is changing a radio.
LEMMA QuietIsSettled == ASSUME IndInv, Quiet PROVE \A r \in Radio : ~Changing(r)
BY Exclusive DEF IndInv, Quiet, InSection, Changing

\* A removed lock is gone from file and module when the mutex is free, unless
\* the answer of the last command was lost (apply(), check()).
THEOREM RemovedLocksAreGone == Spec => []RemovedIsGone
<1>1. IndInv => RemovedIsGone
  BY QuietIsSettled DEF RemovedIsGone, IndInv, Known, SavedIsOnFile
<1> QED
  BY <1>1, Invariance, PTL

\* The module holds what was saved for a radio, or nothing, when the mutex is
\* free and the last command was answered (apply() with its rollback, restore()).
THEOREM ModuleFollowsSettings == Spec => []ModuleHoldsSaved
<1>1. IndInv => ModuleHoldsSaved
  BY QuietIsSettled DEF ModuleHoldsSaved, IndInv, Known
<1> QED
  BY <1>1, Invariance, PTL

\* The background task never waits without an end while a deadline runs.
THEOREM WakeupIsNotLost == Spec => []NoLostWakeup
<1>1. IndInv => NoLostWakeup
  BY DEF IndInv
<1> QED
  BY <1>1, Invariance, PTL
=============================================================================
