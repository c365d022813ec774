--------------------------- MODULE FreqLockProofs ---------------------------
(* Proofs about FreqLock, for every set of entry lists and handlers and every bound. *)
EXTENDS FreqLock, TLAPS

\* The holders of the mutex are told apart.
LEMMA Owners ==
  /\ Free # Boot
  /\ \A c : Client(c) # Free /\ Client(c) # Boot
  /\ \A g : Watch(g) # Free /\ Watch(g) # Boot
  /\ \A c, g : Client(c) # Watch(g)
  /\ \A c, d : Client(c) = Client(d) => c = d
  /\ \A g, h : Watch(g) = Watch(h) => g = h
BY DEF Free, Boot, Client, Watch

LEMMA HoldersType ==
  /\ Free \in Holders
  /\ Boot \in Holders
  /\ \A c \in Clients : Client(c) \in Holders
  /\ \A g \in Generations : Watch(g) \in Holders
BY DEF Holders

\* The records of an idle task.
LEMMA NoRecords ==
  /\ NoRequest \in ClientState
  /\ [pc |-> "starting", entries |-> NoLock] \in BootState
  /\ [pc |-> "off", entries |-> NoLock] \in BootState
  /\ NoWatch \in WatchState
BY DEF NoRequest, NoWatch, ClientState, BootState, WatchState, Entries

LEMMA SpawnType ==
  ASSUME TypeOK, NEW g \in Generations, NEW previous \in Entries, NEW before \in Entries,
         Spawn(g, previous, before)
  PROVE  watch' \in [Generations -> WatchState]
BY DEF TypeOK, Spawn, WatchState

LEMMA StepTypeOK == IndInv /\ [Next]_vars => TypeOK'
<1> SUFFICES ASSUME IndInv, [Next]_vars PROVE TypeOK'
  OBVIOUS
<1> USE NoLockAssumption, BoundAssumption DEF IndInv
<1>1. ASSUME NEW c \in Clients, LockRequest(c) PROVE TypeOK'
  BY <1>1 DEF TypeOK, LockRequest, Entries, ClientState, ClientSections, service
<1>2. ASSUME NEW c \in Clients, LockAcquire(c) PROVE TypeOK'
  BY <1>2, HoldersType DEF TypeOK, LockAcquire, Acquire, ClientState, ClientSections, service
<1>3. ASSUME NEW c \in Clients, LockSend(c) PROVE TypeOK'
  <2>1. client[c].entries \in Entries
    BY DEF TypeOK, ClientState
  <2>2. /\ modem' \in Entries
        /\ unsure' \in BOOLEAN
    BY <1>3, <2>1 DEF TypeOK, LockSend, LockCommand
  <2>3. client' \in [Clients -> ClientState]
    BY <1>3, NoRecords DEF TypeOK, LockSend, ClientState, ClientSections
  <2> QED
    BY <1>3, <2>2, <2>3, HoldersType DEF TypeOK, LockSend, Release, service
<1>4. ASSUME NEW c \in Clients, LockSave(c) PROVE TypeOK'
  <2>1. SavedBy(c) \in Entries /\ client[c].previous \in Entries
    BY DEF TypeOK, SavedBy, ClientState, Entries
  <2>2. /\ file' \in Entries \cup {Unreadable}
        /\ saved' \in Entries
        /\ stored' \in BOOLEAN
    BY <1>4, <2>1 DEF TypeOK, LockSave, Persist
  <2>3. generation < MaxGeneration
    BY <1>4 DEF RoomKept, LockSave
  <2>4. generation + 1 \in Generations
    BY <2>3, BoundAssumption DEF TypeOK, Generations
  <2>5. watch' \in [Generations -> WatchState]
    BY <1>4, <2>1, <2>4, SpawnType DEF TypeOK, LockSave
  <2>6. /\ phase' \in Phases
        /\ guard' \in Guards
        /\ client' \in [Clients -> ClientState]
    BY <1>4, NoRecords DEF TypeOK, LockSave, Phases, Guards
  <2> QED
    BY <1>4, <2>2, <2>4, <2>5, <2>6, HoldersType
    DEF TypeOK, LockSave, NextGeneration, Release, Generations
<1>5. ASSUME NEW c \in Clients, UnlockRequest(c) PROVE TypeOK'
  BY <1>5 DEF TypeOK, UnlockRequest, ClientState, ClientSections, service
<1>6. ASSUME NEW c \in Clients, UnlockAcquire(c) PROVE TypeOK'
  <2>1. generation' \in 0..MaxGeneration
    BY <1>6, BoundAssumption DEF TypeOK, UnlockAcquire, Room, NextGeneration
  <2>2. client' \in [Clients -> ClientState]
    BY <1>6 DEF TypeOK, UnlockAcquire, ClientState, ClientSections
  <2> QED
    BY <1>6, <2>1, <2>2, HoldersType DEF TypeOK, UnlockAcquire, Acquire, Guards
<1>7. ASSUME NEW c \in Clients, UnlockSend(c) PROVE TypeOK'
  <2>1. /\ modem' \in Entries
        /\ unsure' \in BOOLEAN
    BY <1>7 DEF TypeOK, UnlockSend, UnlockCommand, Entries
  <2>2. client' \in [Clients -> ClientState]
    BY <1>7, NoRecords DEF TypeOK, UnlockSend, ClientState, ClientSections
  <2> QED
    BY <1>7, <2>1, <2>2, HoldersType DEF TypeOK, UnlockSend, Release, service
<1>8. ASSUME NEW c \in Clients, UnlockSave(c) PROVE TypeOK'
  <2>1. /\ file' \in Entries \cup {Unreadable}
        /\ saved' \in Entries
        /\ stored' \in BOOLEAN
        /\ phase' \in Phases
    BY <1>8 DEF TypeOK, UnlockSave, UnlockPhase, Persist, Entries, Phases
  <2> QED
    BY <1>8, <2>1, NoRecords, HoldersType DEF TypeOK, UnlockSave, Release
<1>9. ASSUME NEW c \in Clients, UnlockDropped(c) PROVE TypeOK'
  <2>1. /\ modem' \in Entries
        /\ unsure' \in BOOLEAN
        /\ file' \in Entries \cup {Unreadable}
    BY <1>9 DEF TypeOK, UnlockDropped, Entries
  <2> QED
    BY <1>9, <2>1, NoRecords, HoldersType DEF TypeOK, UnlockDropped, Release, service
<1>10. ASSUME BootRead PROVE TypeOK'
  BY <1>10, NoRecords DEF TypeOK, BootRead, Entries, BootState, service
<1>11. ASSUME BootAcquire PROVE TypeOK'
  BY <1>11, HoldersType DEF TypeOK, BootAcquire, Acquire, BootState, service
<1>12. ASSUME BootSend PROVE TypeOK'
  <2>1. boot.entries \in Entries /\ NoLock \in Entries
    BY DEF TypeOK, BootState, Entries
  <2>2. /\ modem' \in Entries
        /\ unsure' \in BOOLEAN
    BY <1>12, <2>1 DEF TypeOK, BootSend, LockCommand
  <2>3. generation < MaxGeneration
    BY <1>12 DEF RoomKept, BootSend
  <2>4. generation + 1 \in Generations
    BY <2>3, BoundAssumption DEF TypeOK, Generations
  <2>5. watch' \in [Generations -> WatchState]
    BY <1>12, <2>1, <2>4, SpawnType DEF TypeOK, BootSend
  <2>6. /\ phase' \in Phases
        /\ guard' \in Guards
        /\ boot' \in BootState
    BY <1>12, NoRecords DEF TypeOK, BootSend, Phases, Guards
  <2> QED
    BY <1>12, <2>2, <2>4, <2>5, <2>6, HoldersType
    DEF TypeOK, BootSend, NextGeneration, Release, Generations
<1>13. ASSUME NEW g \in Generations, WatchSuperseded(g) PROVE TypeOK'
  BY <1>13, NoRecords DEF TypeOK, WatchSuperseded, service
<1>14. ASSUME NEW g \in Generations, WatchServes(g) PROVE TypeOK'
  BY <1>14, NoRecords DEF TypeOK, WatchServes, Guards, service
<1>15. ASSUME NEW g \in Generations, WatchNoService(g) PROVE TypeOK'
  BY <1>15 DEF TypeOK, WatchNoService, WatchState, WatchSections, service
<1>16. ASSUME NEW g \in Generations, WatchBackServes(g) PROVE TypeOK'
  BY <1>16 DEF TypeOK, WatchBackServes, WatchState, WatchSections, service
<1>17. ASSUME NEW g \in Generations, WatchReplaced(g) PROVE TypeOK'
  BY <1>17, NoRecords DEF TypeOK, WatchReplaced, service
<1>18. ASSUME NEW g \in Generations, WatchAcquire(g) PROVE TypeOK'
  BY <1>18, HoldersType DEF TypeOK, WatchAcquire, WatchWaits, Current, Acquire, WatchState, WatchSections, service
<1>19. ASSUME NEW g \in Generations, WatchRevert(g) PROVE TypeOK'
  <2>1. /\ modem' \in Entries
        /\ unsure' \in BOOLEAN
    BY <1>19 DEF TypeOK, WatchRevert, LockCommand, UnlockCommand, Entries, WatchState
  <2>2. watch' \in [Generations -> WatchState]
    BY <1>19 DEF TypeOK, WatchRevert, WatchState
  <2> QED
    BY <1>19, <2>1, <2>2, HoldersType DEF TypeOK, WatchRevert, Release, service
<1>20. ASSUME NEW g \in Generations, WatchDrop(g) PROVE TypeOK'
  BY <1>20, HoldersType DEF TypeOK, WatchDrop, UnlockCommand, Release, Entries, WatchState, WatchSections, service
<1>21. ASSUME NEW g \in Generations, WatchFinal(g) PROVE TypeOK'
  <2>1. SavedBack(g) \in Entries
    BY DEF TypeOK, SavedBack, WatchState, Entries
  <2>2. /\ file' \in Entries \cup {Unreadable}
        /\ saved' \in Entries
        /\ stored' \in BOOLEAN
    BY <1>21, <2>1 DEF TypeOK, WatchFinal, Persist
  <2> QED
    BY <1>21, <2>2, NoRecords, HoldersType
    DEF TypeOK, WatchFinal, Verdict, Release, Phases, Guards
<1>22. ASSUME Restart PROVE TypeOK'
  <2>1. /\ client' \in [Clients -> ClientState]
        /\ watch' \in [Generations -> WatchState]
        /\ boot' \in BootState
    BY <1>22, NoRecords DEF Restart
  <2>2. /\ saved' \in Entries
        /\ stored' \in BOOLEAN
        /\ phase' \in Phases
        /\ guard' \in Guards
    BY <1>22 DEF TypeOK, Restart, Loaded, Entries, Phases, Guards
  <2>3. generation' \in 0..MaxGeneration
    <3>1. generation' = 0
      BY <1>22 DEF Restart
    <3> QED
      BY <3>1, BoundAssumption
  <2> QED
    BY <1>22, <2>1, <2>2, <2>3, HoldersType DEF TypeOK, Restart
<1>23. ASSUME ModuleRestarts PROVE TypeOK'
  BY <1>23 DEF TypeOK, ModuleRestarts, Entries, service, tasks
<1>24. ASSUME UNCHANGED vars PROVE TypeOK'
  BY <1>24 DEF TypeOK, vars
<1> QED
  BY <1>1, <1>2, <1>3, <1>4, <1>5, <1>6, <1>7, <1>8, <1>9, <1>10, <1>11, <1>12, <1>13, <1>14, <1>15, <1>16, <1>17, <1>18, <1>19, <1>20, <1>21, <1>22, <1>23, <1>24 DEF Next, ClientStep, BootStep, WatchStep

LEMMA StepHolding == IndInv /\ [Next]_vars => Holding'
<1> SUFFICES ASSUME IndInv, [Next]_vars PROVE Holding'
  OBVIOUS
<1> USE NoLockAssumption, BoundAssumption, Owners DEF IndInv
<1>1. ASSUME NEW c \in Clients, LockRequest(c) PROVE Holding'
  BY <1>1 DEF Holding, TypeOK, ClientState, Generations, ClientSections, WatchSections, LockRequest, service
<1>2. ASSUME NEW c \in Clients, LockAcquire(c) PROVE Holding'
  BY <1>2 DEF Holding, TypeOK, ClientState, Generations, ClientSections, WatchSections, LockAcquire, Acquire, Room, service
<1>3. ASSUME NEW c \in Clients, LockSend(c) PROVE Holding'
  BY <1>3 DEF Holding, TypeOK, ClientState, Generations, ClientSections, WatchSections, LockSend, LockCommand, Release, NoRequest, service
<1>4. ASSUME NEW c \in Clients, LockSave(c) PROVE Holding'
  BY <1>4 DEF Holding, TypeOK, ClientState, WatchState, Generations, ClientSections, WatchSections, LockSave, Persist, SavedBy, NextGeneration, Spawn, Release, NoRequest, service
<1>5. ASSUME NEW c \in Clients, UnlockRequest(c) PROVE Holding'
  BY <1>5 DEF Holding, TypeOK, ClientState, Generations, ClientSections, WatchSections, UnlockRequest, service
<1>6. ASSUME NEW c \in Clients, UnlockAcquire(c) PROVE Holding'
  BY <1>6 DEF Holding, TypeOK, ClientState, Generations, ClientSections, WatchSections, UnlockAcquire, Acquire, Room, NextGeneration, service
<1>7. ASSUME NEW c \in Clients, UnlockSend(c) PROVE Holding'
  BY <1>7 DEF Holding, TypeOK, ClientState, Generations, ClientSections, WatchSections, UnlockSend, UnlockCommand, Release, NoRequest, service
<1>8. ASSUME NEW c \in Clients, UnlockSave(c) PROVE Holding'
  BY <1>8 DEF Holding, TypeOK, ClientState, Generations, ClientSections, WatchSections, UnlockSave, Persist, UnlockPhase, Release, NoRequest, service
<1>9. ASSUME NEW c \in Clients, UnlockDropped(c) PROVE Holding'
  BY <1>9 DEF Holding, TypeOK, ClientState, Generations, ClientSections, WatchSections, UnlockDropped, UnlockCommand, Release, NoRequest, service
<1>10. ASSUME BootRead PROVE Holding'
  BY <1>10 DEF Holding, TypeOK, BootState, Generations, ClientSections, WatchSections, BootRead, service
<1>11. ASSUME BootAcquire PROVE Holding'
  BY <1>11 DEF Holding, TypeOK, BootState, Generations, ClientSections, WatchSections, BootAcquire, Acquire, Room, service
<1>12. ASSUME BootSend PROVE Holding'
  BY <1>12 DEF Holding, TypeOK, ClientState, BootState, WatchState, Entries, Generations, ClientSections, WatchSections, BootSend, LockCommand, NextGeneration, Spawn, Release, service
<1>13. ASSUME NEW g \in Generations, WatchSuperseded(g) PROVE Holding'
  BY <1>13 DEF Holding, TypeOK, WatchState, Generations, ClientSections, WatchSections, WatchSuperseded, NoWatch, service
<1>14. ASSUME NEW g \in Generations, WatchServes(g) PROVE Holding'
  BY <1>14 DEF Holding, TypeOK, WatchState, Generations, ClientSections, WatchSections, WatchServes, NoWatch, service
<1>15. ASSUME NEW g \in Generations, WatchNoService(g) PROVE Holding'
  BY <1>15 DEF Holding, TypeOK, WatchState, Generations, ClientSections, WatchSections, WatchNoService, service
<1>16. ASSUME NEW g \in Generations, WatchBackServes(g) PROVE Holding'
  BY <1>16 DEF Holding, TypeOK, WatchState, Generations, ClientSections, WatchSections, WatchBackServes, service
<1>17. ASSUME NEW g \in Generations, WatchReplaced(g) PROVE Holding'
  BY <1>17 DEF Holding, TypeOK, WatchState, Generations, ClientSections, WatchSections, WatchReplaced, WatchWaits, NoWatch, service
<1>18. ASSUME NEW g \in Generations, WatchAcquire(g) PROVE Holding'
  BY <1>18 DEF Holding, TypeOK, WatchState, Generations, ClientSections, WatchSections, WatchAcquire, WatchWaits, Current, Acquire, service
<1>19. ASSUME NEW g \in Generations, WatchRevert(g) PROVE Holding'
  BY <1>19 DEF Holding, TypeOK, WatchState, Generations, ClientSections, WatchSections, WatchRevert, LockCommand, UnlockCommand, Release, service
<1>20. ASSUME NEW g \in Generations, WatchDrop(g) PROVE Holding'
  BY <1>20 DEF Holding, TypeOK, WatchState, Generations, ClientSections, WatchSections, WatchDrop, UnlockCommand, Release, service
<1>21. ASSUME NEW g \in Generations, WatchFinal(g) PROVE Holding'
  BY <1>21 DEF Holding, TypeOK, WatchState, Generations, ClientSections, WatchSections, WatchFinal, Persist, SavedBack, Verdict, Release, NoWatch, service
<1>22. ASSUME Restart PROVE Holding'
  BY <1>22 DEF Holding, TypeOK, ClientState, BootState, WatchState, Entries, Generations, ClientSections, WatchSections, Restart, Loaded, NoRequest, NoWatch, Unreadable
<1>23. ASSUME ModuleRestarts PROVE Holding'
  BY <1>23 DEF Holding, TypeOK, ClientState, BootState, WatchState, Entries, Generations, ClientSections, WatchSections, ModuleRestarts, service, tasks
<1>24. ASSUME UNCHANGED vars PROVE Holding'
  BY <1>24 DEF Holding, TypeOK, ClientState, BootState, WatchState, Entries, Generations, ClientSections, WatchSections, vars
<1> QED
  BY <1>1, <1>2, <1>3, <1>4, <1>5, <1>6, <1>7, <1>8, <1>9, <1>10, <1>11, <1>12, <1>13, <1>14, <1>15, <1>16, <1>17, <1>18, <1>19, <1>20, <1>21, <1>22, <1>23, <1>24 DEF Next, ClientStep, BootStep, WatchStep

LEMMA StepRoomKept == IndInv /\ [Next]_vars => RoomKept'
<1> SUFFICES ASSUME IndInv, [Next]_vars PROVE RoomKept'
  OBVIOUS
<1> USE NoLockAssumption, BoundAssumption, Owners DEF IndInv
<1>1. ASSUME NEW c \in Clients, LockRequest(c) PROVE RoomKept'
  BY <1>1 DEF RoomKept, Holding, TypeOK, ClientState, Generations, ClientSections, LockRequest, service
<1>2. ASSUME NEW c \in Clients, LockAcquire(c) PROVE RoomKept'
  BY <1>2 DEF RoomKept, Holding, TypeOK, ClientState, Generations, ClientSections, LockAcquire, Acquire, Room, service
<1>3. ASSUME NEW c \in Clients, LockSend(c) PROVE RoomKept'
  BY <1>3 DEF RoomKept, Holding, TypeOK, ClientState, Generations, ClientSections, LockSend, LockCommand, Release, NoRequest, service
<1>4. ASSUME NEW c \in Clients, LockSave(c) PROVE RoomKept'
  BY <1>4 DEF RoomKept, Holding, TypeOK, ClientState, WatchState, Generations, ClientSections, LockSave, Persist, SavedBy, NextGeneration, Spawn, Release, NoRequest, service
<1>5. ASSUME NEW c \in Clients, UnlockRequest(c) PROVE RoomKept'
  BY <1>5 DEF RoomKept, Holding, TypeOK, ClientState, Generations, ClientSections, UnlockRequest, service
<1>6. ASSUME NEW c \in Clients, UnlockAcquire(c) PROVE RoomKept'
  BY <1>6 DEF RoomKept, Holding, TypeOK, ClientState, Generations, ClientSections, UnlockAcquire, Acquire, Room, NextGeneration, service
<1>7. ASSUME NEW c \in Clients, UnlockSend(c) PROVE RoomKept'
  BY <1>7 DEF RoomKept, Holding, TypeOK, ClientState, Generations, ClientSections, UnlockSend, UnlockCommand, Release, NoRequest, service
<1>8. ASSUME NEW c \in Clients, UnlockSave(c) PROVE RoomKept'
  BY <1>8 DEF RoomKept, Holding, TypeOK, ClientState, Generations, ClientSections, UnlockSave, Persist, UnlockPhase, Release, NoRequest, service
<1>9. ASSUME NEW c \in Clients, UnlockDropped(c) PROVE RoomKept'
  BY <1>9 DEF RoomKept, Holding, TypeOK, ClientState, Generations, ClientSections, UnlockDropped, UnlockCommand, Release, NoRequest, service
<1>10. ASSUME BootRead PROVE RoomKept'
  BY <1>10 DEF RoomKept, Holding, TypeOK, BootState, Generations, ClientSections, BootRead, service
<1>11. ASSUME BootAcquire PROVE RoomKept'
  BY <1>11 DEF RoomKept, Holding, TypeOK, BootState, Generations, ClientSections, BootAcquire, Acquire, Room, service
<1>12. ASSUME BootSend PROVE RoomKept'
  BY <1>12 DEF RoomKept, Holding, TypeOK, BootState, WatchState, Generations, ClientSections, BootSend, LockCommand, NextGeneration, Spawn, Release, service
<1>13. ASSUME NEW g \in Generations, WatchSuperseded(g) PROVE RoomKept'
  BY <1>13 DEF RoomKept, Holding, TypeOK, WatchState, Generations, ClientSections, WatchSuperseded, NoWatch, service
<1>14. ASSUME NEW g \in Generations, WatchServes(g) PROVE RoomKept'
  BY <1>14 DEF RoomKept, Holding, TypeOK, WatchState, Generations, ClientSections, WatchServes, NoWatch, service
<1>15. ASSUME NEW g \in Generations, WatchNoService(g) PROVE RoomKept'
  BY <1>15 DEF RoomKept, Holding, TypeOK, WatchState, Generations, ClientSections, WatchNoService, service
<1>16. ASSUME NEW g \in Generations, WatchBackServes(g) PROVE RoomKept'
  BY <1>16 DEF RoomKept, Holding, TypeOK, WatchState, Generations, ClientSections, WatchBackServes, service
<1>17. ASSUME NEW g \in Generations, WatchReplaced(g) PROVE RoomKept'
  BY <1>17 DEF RoomKept, Holding, TypeOK, WatchState, Generations, ClientSections, WatchReplaced, WatchWaits, NoWatch, service
<1>18. ASSUME NEW g \in Generations, WatchAcquire(g) PROVE RoomKept'
  BY <1>18 DEF RoomKept, Holding, TypeOK, WatchState, Generations, ClientSections, WatchAcquire, WatchWaits, Current, Acquire, service
<1>19. ASSUME NEW g \in Generations, WatchRevert(g) PROVE RoomKept'
  BY <1>19 DEF RoomKept, Holding, TypeOK, WatchState, Generations, ClientSections, WatchRevert, LockCommand, UnlockCommand, Release, service
<1>20. ASSUME NEW g \in Generations, WatchDrop(g) PROVE RoomKept'
  BY <1>20 DEF RoomKept, Holding, TypeOK, WatchState, Generations, ClientSections, WatchDrop, UnlockCommand, Release, service
<1>21. ASSUME NEW g \in Generations, WatchFinal(g) PROVE RoomKept'
  BY <1>21 DEF RoomKept, Holding, TypeOK, WatchState, Generations, ClientSections, WatchFinal, Persist, SavedBack, Verdict, Release, NoWatch, service
<1>22. ASSUME Restart PROVE RoomKept'
  BY <1>22 DEF RoomKept, Holding, TypeOK, ClientState, BootState, WatchState, Entries, Generations, ClientSections, Restart, Loaded, NoRequest, NoWatch, Unreadable
<1>23. ASSUME ModuleRestarts PROVE RoomKept'
  BY <1>23 DEF RoomKept, Holding, TypeOK, ClientState, BootState, WatchState, Entries, Generations, ClientSections, ModuleRestarts, service, tasks
<1>24. ASSUME UNCHANGED vars PROVE RoomKept'
  BY <1>24 DEF RoomKept, Holding, TypeOK, ClientState, BootState, WatchState, Entries, Generations, ClientSections, vars
<1> QED
  BY <1>1, <1>2, <1>3, <1>4, <1>5, <1>6, <1>7, <1>8, <1>9, <1>10, <1>11, <1>12, <1>13, <1>14, <1>15, <1>16, <1>17, <1>18, <1>19, <1>20, <1>21, <1>22, <1>23, <1>24 DEF Next, ClientStep, BootStep, WatchStep

LEMMA StepGuardBelongs == IndInv /\ [Next]_vars => GuardBelongs'
<1> SUFFICES ASSUME IndInv, [Next]_vars PROVE GuardBelongs'
  OBVIOUS
<1> USE NoLockAssumption, BoundAssumption, Owners DEF IndInv
<1>1. ASSUME NEW c \in Clients, LockRequest(c) PROVE GuardBelongs'
  BY <1>1 DEF GuardBelongs, Holding, TypeOK, ClientState, Generations, ClientSections, WatchSections, LockRequest, service
<1>2. ASSUME NEW c \in Clients, LockAcquire(c) PROVE GuardBelongs'
  BY <1>2 DEF GuardBelongs, Holding, TypeOK, ClientState, Generations, ClientSections, WatchSections, LockAcquire, Acquire, Room, service
<1>3. ASSUME NEW c \in Clients, LockSend(c) PROVE GuardBelongs'
  BY <1>3 DEF GuardBelongs, Holding, TypeOK, ClientState, Generations, ClientSections, WatchSections, LockSend, LockCommand, Release, NoRequest, service
<1>4. ASSUME NEW c \in Clients, LockSave(c) PROVE GuardBelongs'
  BY <1>4 DEF GuardBelongs, Holding, TypeOK, ClientState, WatchState, Generations, ClientSections, WatchSections, LockSave, Persist, SavedBy, NextGeneration, Spawn, Release, NoRequest, service
<1>5. ASSUME NEW c \in Clients, UnlockRequest(c) PROVE GuardBelongs'
  BY <1>5 DEF GuardBelongs, Holding, TypeOK, ClientState, Generations, ClientSections, WatchSections, UnlockRequest, service
<1>6. ASSUME NEW c \in Clients, UnlockAcquire(c) PROVE GuardBelongs'
  BY <1>6 DEF GuardBelongs, Holding, TypeOK, ClientState, Generations, ClientSections, WatchSections, UnlockAcquire, Acquire, Room, NextGeneration, service
<1>7. ASSUME NEW c \in Clients, UnlockSend(c) PROVE GuardBelongs'
  BY <1>7 DEF GuardBelongs, Holding, TypeOK, ClientState, Generations, ClientSections, WatchSections, UnlockSend, UnlockCommand, Release, NoRequest, service
<1>8. ASSUME NEW c \in Clients, UnlockSave(c) PROVE GuardBelongs'
  BY <1>8 DEF GuardBelongs, Holding, TypeOK, ClientState, Generations, ClientSections, WatchSections, UnlockSave, Persist, UnlockPhase, Release, NoRequest, service
<1>9. ASSUME NEW c \in Clients, UnlockDropped(c) PROVE GuardBelongs'
  BY <1>9 DEF GuardBelongs, Holding, TypeOK, ClientState, Generations, ClientSections, WatchSections, UnlockDropped, UnlockCommand, Release, NoRequest, service
<1>10. ASSUME BootRead PROVE GuardBelongs'
  BY <1>10 DEF GuardBelongs, Holding, TypeOK, BootState, Generations, ClientSections, WatchSections, BootRead, service
<1>11. ASSUME BootAcquire PROVE GuardBelongs'
  BY <1>11 DEF GuardBelongs, Holding, TypeOK, BootState, Generations, ClientSections, WatchSections, BootAcquire, Acquire, Room, service
<1>12. ASSUME BootSend PROVE GuardBelongs'
  BY <1>12 DEF GuardBelongs, Holding, TypeOK, BootState, WatchState, Generations, ClientSections, WatchSections, BootSend, LockCommand, NextGeneration, Spawn, Release, service
<1>13. ASSUME NEW g \in Generations, WatchSuperseded(g) PROVE GuardBelongs'
  BY <1>13 DEF GuardBelongs, Holding, TypeOK, WatchState, Generations, ClientSections, WatchSections, WatchSuperseded, NoWatch, service
<1>14. ASSUME NEW g \in Generations, WatchServes(g) PROVE GuardBelongs'
  BY <1>14 DEF GuardBelongs, Holding, TypeOK, WatchState, Generations, ClientSections, WatchSections, WatchServes, NoWatch, service
<1>15. ASSUME NEW g \in Generations, WatchNoService(g) PROVE GuardBelongs'
  BY <1>15 DEF GuardBelongs, Holding, TypeOK, WatchState, Generations, ClientSections, WatchSections, WatchNoService, service
<1>16. ASSUME NEW g \in Generations, WatchBackServes(g) PROVE GuardBelongs'
  BY <1>16 DEF GuardBelongs, Holding, TypeOK, WatchState, Generations, ClientSections, WatchSections, WatchBackServes, service
<1>17. ASSUME NEW g \in Generations, WatchReplaced(g) PROVE GuardBelongs'
  BY <1>17 DEF GuardBelongs, Holding, TypeOK, WatchState, Generations, ClientSections, WatchSections, WatchReplaced, WatchWaits, NoWatch, service
<1>18. ASSUME NEW g \in Generations, WatchAcquire(g) PROVE GuardBelongs'
  BY <1>18 DEF GuardBelongs, Holding, TypeOK, WatchState, Generations, ClientSections, WatchSections, WatchAcquire, WatchWaits, Current, Acquire, service
<1>19. ASSUME NEW g \in Generations, WatchRevert(g) PROVE GuardBelongs'
  BY <1>19 DEF GuardBelongs, Holding, TypeOK, WatchState, Generations, ClientSections, WatchSections, WatchRevert, LockCommand, UnlockCommand, Release, service
<1>20. ASSUME NEW g \in Generations, WatchDrop(g) PROVE GuardBelongs'
  BY <1>20 DEF GuardBelongs, Holding, TypeOK, WatchState, Generations, ClientSections, WatchSections, WatchDrop, UnlockCommand, Release, service
<1>21. ASSUME NEW g \in Generations, WatchFinal(g) PROVE GuardBelongs'
  BY <1>21 DEF GuardBelongs, Holding, TypeOK, WatchState, Generations, ClientSections, WatchSections, WatchFinal, Persist, SavedBack, Verdict, Release, NoWatch, service
<1>22. ASSUME Restart PROVE GuardBelongs'
  BY <1>22 DEF GuardBelongs, Holding, TypeOK, ClientState, BootState, WatchState, Entries, Generations, ClientSections, WatchSections, Restart, Loaded, NoRequest, NoWatch, Unreadable
<1>23. ASSUME ModuleRestarts PROVE GuardBelongs'
  BY <1>23 DEF GuardBelongs, Holding, TypeOK, ClientState, BootState, WatchState, Entries, Generations, ClientSections, WatchSections, ModuleRestarts, service, tasks
<1>24. ASSUME UNCHANGED vars PROVE GuardBelongs'
  BY <1>24 DEF GuardBelongs, Holding, TypeOK, ClientState, BootState, WatchState, Entries, Generations, ClientSections, WatchSections, vars
<1> QED
  BY <1>1, <1>2, <1>3, <1>4, <1>5, <1>6, <1>7, <1>8, <1>9, <1>10, <1>11, <1>12, <1>13, <1>14, <1>15, <1>16, <1>17, <1>18, <1>19, <1>20, <1>21, <1>22, <1>23, <1>24 DEF Next, ClientStep, BootStep, WatchStep

LEMMA StepNoForgottenLock == IndInv /\ [Next]_vars => NoForgottenLock'
<1> SUFFICES ASSUME IndInv, [Next]_vars PROVE NoForgottenLock'
  OBVIOUS
<1> USE NoLockAssumption, BoundAssumption, Owners DEF IndInv
<1>1. ASSUME NEW c \in Clients, LockRequest(c) PROVE NoForgottenLock'
  BY <1>1 DEF NoForgottenLock, TypeOK, Entries, LockRequest, service
<1>2. ASSUME NEW c \in Clients, LockAcquire(c) PROVE NoForgottenLock'
  BY <1>2 DEF NoForgottenLock, TypeOK, Entries, LockAcquire, Acquire, Room, service
<1>3. ASSUME NEW c \in Clients, LockSend(c) PROVE NoForgottenLock'
  BY <1>3 DEF NoForgottenLock, TypeOK, Entries, LockSend, LockCommand, Release, NoRequest, service
<1>4. ASSUME NEW c \in Clients, LockSave(c) PROVE NoForgottenLock'
  BY <1>4 DEF NoForgottenLock, TypeOK, Entries, LockSave, Persist, SavedBy, NextGeneration, Spawn, Release, NoRequest, service
<1>5. ASSUME NEW c \in Clients, UnlockRequest(c) PROVE NoForgottenLock'
  BY <1>5 DEF NoForgottenLock, TypeOK, Entries, UnlockRequest, service
<1>6. ASSUME NEW c \in Clients, UnlockAcquire(c) PROVE NoForgottenLock'
  BY <1>6 DEF NoForgottenLock, TypeOK, Entries, UnlockAcquire, Acquire, Room, NextGeneration, service
<1>7. ASSUME NEW c \in Clients, UnlockSend(c) PROVE NoForgottenLock'
  BY <1>7 DEF NoForgottenLock, TypeOK, Entries, UnlockSend, UnlockCommand, Release, NoRequest, service
<1>8. ASSUME NEW c \in Clients, UnlockSave(c) PROVE NoForgottenLock'
  BY <1>8 DEF NoForgottenLock, TypeOK, Entries, UnlockSave, Persist, UnlockPhase, Release, NoRequest, service
<1>9. ASSUME NEW c \in Clients, UnlockDropped(c) PROVE NoForgottenLock'
  BY <1>9 DEF NoForgottenLock, TypeOK, Entries, UnlockDropped, UnlockCommand, Release, NoRequest, service
<1>10. ASSUME BootRead PROVE NoForgottenLock'
  BY <1>10 DEF NoForgottenLock, TypeOK, Entries, BootRead, service
<1>11. ASSUME BootAcquire PROVE NoForgottenLock'
  BY <1>11 DEF NoForgottenLock, TypeOK, Entries, BootAcquire, Acquire, Room, service
<1>12. ASSUME BootSend PROVE NoForgottenLock'
  BY <1>12 DEF NoForgottenLock, TypeOK, Entries, BootSend, LockCommand, NextGeneration, Spawn, Release, service
<1>13. ASSUME NEW g \in Generations, WatchSuperseded(g) PROVE NoForgottenLock'
  BY <1>13 DEF NoForgottenLock, TypeOK, Entries, WatchSuperseded, NoWatch, service
<1>14. ASSUME NEW g \in Generations, WatchServes(g) PROVE NoForgottenLock'
  BY <1>14 DEF NoForgottenLock, TypeOK, Entries, WatchServes, NoWatch, service
<1>15. ASSUME NEW g \in Generations, WatchNoService(g) PROVE NoForgottenLock'
  BY <1>15 DEF NoForgottenLock, TypeOK, Entries, WatchNoService, service
<1>16. ASSUME NEW g \in Generations, WatchBackServes(g) PROVE NoForgottenLock'
  BY <1>16 DEF NoForgottenLock, TypeOK, Entries, WatchBackServes, service
<1>17. ASSUME NEW g \in Generations, WatchReplaced(g) PROVE NoForgottenLock'
  BY <1>17 DEF NoForgottenLock, TypeOK, Entries, WatchReplaced, WatchWaits, NoWatch, service
<1>18. ASSUME NEW g \in Generations, WatchAcquire(g) PROVE NoForgottenLock'
  BY <1>18 DEF NoForgottenLock, TypeOK, Entries, WatchAcquire, WatchWaits, Current, Acquire, service
<1>19. ASSUME NEW g \in Generations, WatchRevert(g) PROVE NoForgottenLock'
  BY <1>19 DEF NoForgottenLock, TypeOK, Entries, WatchRevert, LockCommand, UnlockCommand, Release, service
<1>20. ASSUME NEW g \in Generations, WatchDrop(g) PROVE NoForgottenLock'
  BY <1>20 DEF NoForgottenLock, TypeOK, Entries, WatchDrop, UnlockCommand, Release, service
<1>21. ASSUME NEW g \in Generations, WatchFinal(g) PROVE NoForgottenLock'
  BY <1>21 DEF NoForgottenLock, TypeOK, Entries, WatchFinal, Persist, SavedBack, Verdict, Release, NoWatch, service
<1>22. ASSUME Restart PROVE NoForgottenLock'
  BY <1>22 DEF NoForgottenLock, TypeOK, Entries, Restart, Loaded, NoRequest, NoWatch, Unreadable
<1>23. ASSUME ModuleRestarts PROVE NoForgottenLock'
  BY <1>23 DEF NoForgottenLock, TypeOK, Entries, ModuleRestarts, service, tasks
<1>24. ASSUME UNCHANGED vars PROVE NoForgottenLock'
  BY <1>24 DEF NoForgottenLock, TypeOK, Entries, vars
<1> QED
  BY <1>1, <1>2, <1>3, <1>4, <1>5, <1>6, <1>7, <1>8, <1>9, <1>10, <1>11, <1>12, <1>13, <1>14, <1>15, <1>16, <1>17, <1>18, <1>19, <1>20, <1>21, <1>22, <1>23, <1>24 DEF Next, ClientStep, BootStep, WatchStep

LEMMA StepKnown == IndInv /\ [Next]_vars => Known'
<1> SUFFICES ASSUME IndInv, [Next]_vars PROVE Known'
  OBVIOUS
<1> USE NoLockAssumption, BoundAssumption, Owners DEF IndInv
<1>1. ASSUME NEW c \in Clients, LockRequest(c) PROVE Known'
  BY <1>1 DEF Known, LockBeingSaved, GuardBelongs, NoForgottenLock, Holding, TypeOK, ClientState, Entries, Generations, ClientSections, WatchSections, LockRequest, service
<1>2. ASSUME NEW c \in Clients, LockAcquire(c) PROVE Known'
  BY <1>2 DEF Known, LockBeingSaved, GuardBelongs, NoForgottenLock, Holding, TypeOK, ClientState, Entries, Generations, ClientSections, WatchSections, LockAcquire, Acquire, Room, service
<1>3. ASSUME NEW c \in Clients, LockSend(c) PROVE Known'
  BY <1>3 DEF Known, LockBeingSaved, GuardBelongs, NoForgottenLock, Holding, TypeOK, ClientState, Entries, Generations, ClientSections, WatchSections, LockSend, LockCommand, Release, NoRequest, service
<1>4. ASSUME NEW c \in Clients, LockSave(c) PROVE Known'
  BY <1>4 DEF Known, LockBeingSaved, GuardBelongs, NoForgottenLock, Holding, TypeOK, ClientState, WatchState, Entries, Generations, ClientSections, WatchSections, LockSave, Persist, SavedBy, NextGeneration, Spawn, Release, NoRequest, service
<1>5. ASSUME NEW c \in Clients, UnlockRequest(c) PROVE Known'
  BY <1>5 DEF Known, LockBeingSaved, GuardBelongs, NoForgottenLock, Holding, TypeOK, ClientState, Entries, Generations, ClientSections, WatchSections, UnlockRequest, service
<1>6. ASSUME NEW c \in Clients, UnlockAcquire(c) PROVE Known'
  BY <1>6 DEF Known, LockBeingSaved, GuardBelongs, NoForgottenLock, Holding, TypeOK, ClientState, Entries, Generations, ClientSections, WatchSections, UnlockAcquire, Acquire, Room, NextGeneration, service
<1>7. ASSUME NEW c \in Clients, UnlockSend(c) PROVE Known'
  BY <1>7 DEF Known, LockBeingSaved, GuardBelongs, NoForgottenLock, Holding, TypeOK, ClientState, Entries, Generations, ClientSections, WatchSections, UnlockSend, UnlockCommand, Release, NoRequest, service
<1>8. ASSUME NEW c \in Clients, UnlockSave(c) PROVE Known'
  BY <1>8 DEF Known, LockBeingSaved, GuardBelongs, NoForgottenLock, Holding, TypeOK, ClientState, Entries, Generations, ClientSections, WatchSections, UnlockSave, Persist, UnlockPhase, Release, NoRequest, service
<1>9. ASSUME NEW c \in Clients, UnlockDropped(c) PROVE Known'
  BY <1>9 DEF Known, LockBeingSaved, GuardBelongs, NoForgottenLock, Holding, TypeOK, ClientState, Entries, Generations, ClientSections, WatchSections, UnlockDropped, UnlockCommand, Release, NoRequest, service
<1>10. ASSUME BootRead PROVE Known'
  BY <1>10 DEF Known, LockBeingSaved, GuardBelongs, NoForgottenLock, Holding, TypeOK, BootState, Entries, Generations, ClientSections, WatchSections, BootRead, service
<1>11. ASSUME BootAcquire PROVE Known'
  BY <1>11 DEF Known, LockBeingSaved, GuardBelongs, NoForgottenLock, Holding, TypeOK, BootState, Entries, Generations, ClientSections, WatchSections, BootAcquire, Acquire, Room, service
<1>12. ASSUME BootSend PROVE Known'
  BY <1>12 DEF Known, LockBeingSaved, GuardBelongs, NoForgottenLock, Holding, TypeOK, BootState, WatchState, Entries, Generations, ClientSections, WatchSections, BootSend, LockCommand, NextGeneration, Spawn, Release, service
<1>13. ASSUME NEW g \in Generations, WatchSuperseded(g) PROVE Known'
  BY <1>13 DEF Known, LockBeingSaved, GuardBelongs, NoForgottenLock, Holding, TypeOK, WatchState, Entries, Generations, ClientSections, WatchSections, WatchSuperseded, NoWatch, service
<1>14. ASSUME NEW g \in Generations, WatchServes(g) PROVE Known'
  BY <1>14 DEF Known, LockBeingSaved, GuardBelongs, NoForgottenLock, Holding, TypeOK, WatchState, Entries, Generations, ClientSections, WatchSections, WatchServes, NoWatch, service
<1>15. ASSUME NEW g \in Generations, WatchNoService(g) PROVE Known'
  BY <1>15 DEF Known, LockBeingSaved, GuardBelongs, NoForgottenLock, Holding, TypeOK, WatchState, Entries, Generations, ClientSections, WatchSections, WatchNoService, service
<1>16. ASSUME NEW g \in Generations, WatchBackServes(g) PROVE Known'
  BY <1>16 DEF Known, LockBeingSaved, GuardBelongs, NoForgottenLock, Holding, TypeOK, WatchState, Entries, Generations, ClientSections, WatchSections, WatchBackServes, service
<1>17. ASSUME NEW g \in Generations, WatchReplaced(g) PROVE Known'
  BY <1>17 DEF Known, LockBeingSaved, GuardBelongs, NoForgottenLock, Holding, TypeOK, WatchState, Entries, Generations, ClientSections, WatchSections, WatchReplaced, WatchWaits, NoWatch, service
<1>18. ASSUME NEW g \in Generations, WatchAcquire(g) PROVE Known'
  BY <1>18 DEF Known, LockBeingSaved, GuardBelongs, NoForgottenLock, Holding, TypeOK, WatchState, Entries, Generations, ClientSections, WatchSections, WatchAcquire, WatchWaits, Current, Acquire, service
<1>19. ASSUME NEW g \in Generations, WatchRevert(g) PROVE Known'
  BY <1>19 DEF Known, LockBeingSaved, GuardBelongs, NoForgottenLock, Holding, TypeOK, WatchState, Entries, Generations, ClientSections, WatchSections, WatchRevert, LockCommand, UnlockCommand, Release, service
<1>20. ASSUME NEW g \in Generations, WatchDrop(g) PROVE Known'
  BY <1>20 DEF Known, LockBeingSaved, GuardBelongs, NoForgottenLock, Holding, TypeOK, WatchState, Entries, Generations, ClientSections, WatchSections, WatchDrop, UnlockCommand, Release, service
<1>21. ASSUME NEW g \in Generations, WatchFinal(g) PROVE Known'
  BY <1>21 DEF Known, LockBeingSaved, GuardBelongs, NoForgottenLock, Holding, TypeOK, WatchState, Entries, Generations, ClientSections, WatchSections, WatchFinal, Persist, SavedBack, Verdict, Release, NoWatch, service
<1>22. ASSUME Restart PROVE Known'
  BY <1>22 DEF Known, LockBeingSaved, GuardBelongs, NoForgottenLock, Holding, TypeOK, ClientState, BootState, WatchState, Entries, Generations, ClientSections, WatchSections, Restart, Loaded, NoRequest, NoWatch, Unreadable
<1>23. ASSUME ModuleRestarts PROVE Known'
  BY <1>23 DEF Known, LockBeingSaved, GuardBelongs, NoForgottenLock, Holding, TypeOK, ClientState, BootState, WatchState, Entries, Generations, ClientSections, WatchSections, ModuleRestarts, service, tasks
<1>24. ASSUME UNCHANGED vars PROVE Known'
  BY <1>24 DEF Known, LockBeingSaved, GuardBelongs, NoForgottenLock, Holding, TypeOK, ClientState, BootState, WatchState, Entries, Generations, ClientSections, WatchSections, vars
<1> QED
  BY <1>1, <1>2, <1>3, <1>4, <1>5, <1>6, <1>7, <1>8, <1>9, <1>10, <1>11, <1>12, <1>13, <1>14, <1>15, <1>16, <1>17, <1>18, <1>19, <1>20, <1>21, <1>22, <1>23, <1>24 DEF Next, ClientStep, BootStep, WatchStep

-----------------------------------------------------------------------------

\* Every initial state satisfies the inductive invariant.
LEMMA InitInv == Init => IndInv
<1> SUFFICES ASSUME Init PROVE IndInv
  OBVIOUS
<1>1. TypeOK
  <2>1. /\ saved \in Entries
        /\ stored \in BOOLEAN
    BY DEF Init, Loaded, Entries
  <2>2. /\ client \in [Clients -> ClientState]
        /\ boot \in BootState
        /\ watch \in [Generations -> WatchState]
    BY NoRecords DEF Init
  <2>3. generation \in 0..MaxGeneration
    <3>1. generation = 0
      BY DEF Init
    <3> QED
      BY <3>1, BoundAssumption
  <2> QED
    BY <2>1, <2>2, <2>3, HoldersType DEF Init, TypeOK, Phases, Guards
<1>2. Holding /\ RoomKept /\ GuardBelongs
  BY DEF Init, Holding, RoomKept, GuardBelongs, NoRequest, NoWatch, ClientSections,
         WatchSections
<1>3. NoForgottenLock /\ Known
  BY DEF Init, Loaded, NoForgottenLock, Known, NoRequest, NoWatch
<1> QED
  BY <1>1, <1>2, <1>3 DEF IndInv

\* The inductive invariant holds in every reachable state.
THEOREM Invariance == Spec => []IndInv
<1>1. IndInv /\ [Next]_vars => IndInv'
  BY StepTypeOK, StepHolding, StepRoomKept, StepGuardBelongs, StepNoForgottenLock,
     StepKnown
  DEF IndInv
<1> QED
  BY InitInv, <1>1, PTL DEF Spec

\* Every variable keeps to its type, and `generation' to its bound.
THEOREM TypeCorrect == Spec => []TypeOK
BY Invariance, PTL DEF IndInv

\* The file never holds a lock that memory does not know of.
THEOREM NothingForgotten == Spec => []NoForgottenLock
BY Invariance, PTL DEF IndInv

\* A lock reported as gone is gone from the module, from the file and from memory.
THEOREM GoneIsGone == Spec => []UnlockedIsGone
<1>1. IndInv => UnlockedIsGone
  <2> SUFFICES ASSUME IndInv, phase = "unlocked", guard # "failed", mutation = Free, ~unsure
               PROVE  modem = NoLock /\ saved = NoLock /\ file = NoLock
    BY DEF UnlockedIsGone
  <2>1. ~LockBeingSaved
    BY Owners DEF IndInv, Holding, LockBeingSaved, ClientSections
  <2> QED
    BY <2>1 DEF IndInv, Known
<1> QED
  BY Invariance, <1>1, PTL

\* A guard that was replaced changes neither the module nor the file nor the saved lock.
THEOREM ReplacedGuardIsHarmless == Spec => ReplacedGuardNeverActs
<1>1. IndInv /\ [Next]_vars =>
        [\A g \in Generations :
           WatchStep(g) /\ <<modem, file, saved>> # <<modem', file', saved'>>
             => g = generation]_vars
  <2> SUFFICES ASSUME IndInv, NEW g \in Generations, WatchStep(g),
                      <<modem, file, saved>> # <<modem', file', saved'>>
               PROVE  g = generation
    OBVIOUS
  <2>1. watch[g].pc \in WatchSections
    BY DEF WatchStep, WatchSuperseded, WatchServes, WatchNoService, WatchBackServes,
           WatchReplaced, WatchAcquire, Current, WatchRevert, WatchDrop, WatchFinal,
           WatchSections, service
  <2> QED
    BY <2>1 DEF IndInv, Holding
<1> QED
  BY Invariance, <1>1, PTL DEF Spec, ReplacedGuardNeverActs

\* What the guard reports as reverted is what the module holds.
THEOREM RevertsAreReal == Spec => RevertIsReal
<1>1. IndInv /\ [Next]_vars =>
        [guard # "reverted" /\ guard' = "reverted" /\ ~unsure'
           => modem' \in {NoLock, IF phase' = "unlocked" THEN NoLock
                                  ELSE watch[generation].back}]_vars
  <2> SUFFICES ASSUME IndInv, Next, guard # "reverted", guard' = "reverted", ~unsure'
               PROVE  modem' \in {NoLock, IF phase' = "unlocked" THEN NoLock
                                          ELSE watch[generation].back}
    OBVIOUS
  <2>1. PICK g \in Generations : WatchFinal(g)
    <3>1. \A c \in Clients : ~ClientStep(c)
      BY DEF ClientStep, LockRequest, LockAcquire, LockSend, LockSave, UnlockRequest,
             UnlockAcquire, UnlockSend, UnlockSave, UnlockDropped, service
    <3>2. ~BootStep /\ ~Restart /\ ~ModuleRestarts
      BY DEF BootStep, BootRead, BootAcquire, BootSend, Restart, ModuleRestarts, service
    <3> QED
      BY <3>1, <3>2 DEF Next, WatchStep, WatchSuperseded, WatchServes, WatchNoService,
             WatchBackServes, WatchReplaced, WatchAcquire, Current, WatchRevert,
             WatchDrop, service
  <2>2. watch[g].pc = "final" /\ generation = g /\ mutation = Watch(g)
    BY <2>1 DEF WatchFinal, IndInv, Holding, WatchSections
  <2>3. watch[g].restored /\ UNCHANGED <<modem, unsure>>
    BY <2>1 DEF WatchFinal, Verdict
  <2>4. ~LockBeingSaved
    BY <2>2, Owners DEF IndInv, Holding, LockBeingSaved, ClientSections
  <2>5. modem' \in {NoLock, watch[generation].back}
    BY <2>2, <2>3, <2>4 DEF IndInv, Known
  <2>6. phase' = "unlocked" => watch[generation].back = NoLock
    BY <2>1, <2>2 DEF WatchFinal
  <2> QED
    BY <2>5, <2>6
<1> QED
  BY Invariance, <1>1, PTL DEF Spec, RevertIsReal

-----------------------------------------------------------------------------
(* The service implements GuardedLock. *)

\* Every record is blank when the program starts.
LEMMA InitBlank == Init => Blank
<1> SUFFICES ASSUME Init PROVE Blank
  OBVIOUS
<1>1. \A c \in Clients : client[c] = NoRequest
  BY DEF Init
<1>2. \A g \in Generations : watch[g] = NoWatch
  BY DEF Init
<1>3. boot = [pc |-> "starting", entries |-> NoLock]
  BY DEF Init
<1> HIDE DEF Init
<1> QED
  BY <1>1, <1>2, <1>3 DEF Blank, NoRequest, NoWatch

\* Requests and the restore name locks, and what is over is blank again.
LEMMA StepBlank == IndInv /\ Blank /\ [Next]_vars => Blank'
<1> SUFFICES ASSUME IndInv, Blank, [Next]_vars PROVE Blank'
  OBVIOUS
<1> USE DEF IndInv
<1>1. ASSUME NEW c \in Clients, ClientStep(c) PROVE Blank'
  <2>1. /\ boot' = boot
        /\ \/ watch' = watch
           \/ \E back \in Entries, before \in Entries :
                generation + 1 \in Generations /\ Spawn(generation + 1, back, before)
    <3>1. CASE LockSave(c)
      <4>1. client[c].previous \in Entries /\ saved \in Entries
        BY DEF TypeOK, ClientState
      <4>2. generation + 1 \in Generations
        BY <3>1, BoundAssumption DEF LockSave, RoomKept, TypeOK, Generations
      <4> QED
        BY <3>1, <4>1, <4>2 DEF LockSave
    <3>2. CASE ~LockSave(c)
      BY <1>1, <3>2 DEF ClientStep, LockRequest, LockAcquire, LockSend, UnlockRequest,
         UnlockAcquire, UnlockSend, UnlockSave, UnlockDropped
    <3> QED
      BY <3>1, <3>2
  <2>2. \A g \in Generations : watch'[g].pc = "off" =>
          watch'[g].back = NoLock /\ watch'[g].before = NoLock /\ watch'[g].restored = FALSE
    <3> DEFINE made(back, before) == [pc |-> "confirm", back |-> back, before |-> before,
                                     restored |-> FALSE]
    <3>1. CASE watch' = watch
      BY <3>1 DEF Blank
    <3>2. CASE \E back \in Entries, before \in Entries :
                 generation + 1 \in Generations /\ Spawn(generation + 1, back, before)
      <4>1. PICK back \in Entries, before \in Entries :
              watch' = [watch EXCEPT ![generation + 1] = made(back, before)]
        BY <3>2 DEF Spawn
      <4>2. made(back, before).pc # "off"
        OBVIOUS
      <4> HIDE DEF made
      <4>3. \A g \in Generations :
              watch'[g] = watch[g] \/ watch'[g] = made(back, before)
        BY <4>1 DEF TypeOK
      <4> QED
        BY <4>2, <4>3 DEF Blank
    <3> QED
      BY <2>1, <3>1, <3>2
  <2>3. \A d \in Clients :
          IF client'[d].pc \in {"lock_wait", "lock_send", "lock_save"}
          THEN client'[d].entries \in Locks
          ELSE /\ client'[d].entries = NoLock /\ client'[d].previous = NoLock
               /\ client'[d].persistent = FALSE /\ client'[d].guarded = FALSE
    <3> SUFFICES ASSUME NEW d \in Clients
                 PROVE  IF client'[d].pc \in {"lock_wait", "lock_send", "lock_save"}
                        THEN client'[d].entries \in Locks
                        ELSE /\ client'[d].entries = NoLock /\ client'[d].previous = NoLock
                             /\ client'[d].persistent = FALSE /\ client'[d].guarded = FALSE
      OBVIOUS
    <3>1. CASE d # c
      <4>1. client'[d] = client[d]
        BY <1>1, <3>1 DEF TypeOK, ClientStep, LockRequest, LockAcquire, LockSend, LockSave,
           UnlockRequest, UnlockAcquire, UnlockSend, UnlockSave, UnlockDropped
      <4> QED
        BY <4>1 DEF Blank
    <3>2. CASE d = c
      BY <1>1, <3>2 DEF Blank, TypeOK, ClientState, NoRequest, ClientStep, LockRequest,
         LockAcquire, LockSend, LockSave, UnlockRequest, UnlockAcquire, UnlockSend,
         UnlockSave, UnlockDropped
    <3> QED
      BY <3>1, <3>2
  <2> QED
    BY <2>1, <2>2, <2>3 DEF Blank
<1>2. ASSUME BootStep PROVE Blank'
  <2>1. /\ client' = client
        /\ IF boot'.pc \in {"lock_wait", "send"} THEN boot'.entries \in Locks
                                                ELSE boot'.entries = NoLock
    BY <1>2 DEF BootStep, BootRead, BootAcquire, BootSend, Blank, TypeOK, BootState, Entries
  <2>2. \/ watch' = watch
        \/ generation + 1 \in Generations /\ Spawn(generation + 1, NoLock, NoLock)
    BY <1>2, BoundAssumption
    DEF BootStep, BootRead, BootAcquire, BootSend, RoomKept, TypeOK, Generations
  <2>3. \A g \in Generations : watch'[g].pc = "off" =>
          watch'[g].back = NoLock /\ watch'[g].before = NoLock /\ watch'[g].restored = FALSE
    BY <2>2 DEF Blank, Spawn, TypeOK
  <2> QED
    BY <2>1, <2>3 DEF Blank
<1>3. ASSUME NEW g \in Generations, WatchStep(g) PROVE Blank'
  <2>1. client' = client /\ boot' = boot
    BY <1>3 DEF WatchStep, WatchSuperseded, WatchServes, WatchNoService, WatchBackServes,
       WatchReplaced, WatchAcquire, WatchRevert, WatchDrop, WatchFinal
  <2>2. \A h \in Generations : h # g => watch'[h] = watch[h]
    BY <1>3 DEF TypeOK, WatchStep, WatchSuperseded, WatchServes, WatchNoService,
       WatchBackServes, WatchReplaced, WatchAcquire, WatchRevert, WatchDrop, WatchFinal
  <2>3. watch'[g].pc = "off" =>
          watch'[g].back = NoLock /\ watch'[g].before = NoLock /\ watch'[g].restored = FALSE
    <3>1. CASE WatchSuperseded(g) \/ WatchServes(g) \/ WatchReplaced(g) \/ WatchFinal(g)
      <4>1. watch'[g] = NoWatch
        BY <3>1 DEF TypeOK, WatchSuperseded, WatchServes, WatchReplaced, WatchFinal
      <4> QED
        BY <4>1 DEF NoWatch
    <3>2. CASE WatchNoService(g) \/ WatchBackServes(g) \/ WatchAcquire(g)
      <4>1. watch'[g].pc # "off"
        BY <3>2 DEF TypeOK, WatchState, WatchNoService, WatchBackServes, WatchAcquire,
           WatchWaits
      <4> QED
        BY <4>1
    <3>3. CASE WatchRevert(g) \/ WatchDrop(g)
      <4>1. watch'[g].pc # "off"
        BY <3>3 DEF TypeOK, WatchState, WatchRevert, WatchDrop
      <4> QED
        BY <4>1
    <3> QED
      BY <1>3, <3>1, <3>2, <3>3 DEF WatchStep
  <2> QED
    BY <2>1, <2>2, <2>3 DEF Blank
<1>4. ASSUME Restart PROVE Blank'
  BY <1>4 DEF Blank, Restart, NoRequest, NoWatch
<1>5. ASSUME ModuleRestarts \/ UNCHANGED vars PROVE Blank'
  BY <1>5 DEF Blank, ModuleRestarts, vars, tasks
<1> QED
  BY <1>1, <1>2, <1>3, <1>4, <1>5 DEF Next

LEMMA BlankAlways == Spec => []Blank
BY InitBlank, StepBlank, Invariance, PTL DEF Spec

\* Only the handler that holds the mutex is seen, and only between command and end.
LEMMA BusyIs ==
  ASSUME NEW requests, NEW holder, NEW c \in Clients, holder = Client(c),
         \A d \in Clients : Sending(requests[d]) => holder = Client(d)
  PROVE  /\ Sending(requests[c]) => Busy(requests) = Operation(requests[c])
         /\ ~Sending(requests[c]) => Busy(requests) = Promise!Nothing
<1>1. \A d \in Clients : Sending(requests[d]) => d = c
  BY Owners
<1>2. ASSUME Sending(requests[c]) PROVE Busy(requests) = Operation(requests[c])
  <2>1. (CHOOSE d \in Clients : Sending(requests[d])) = c
    BY <1>1, <1>2
  <2> QED
    BY <1>2, <2>1 DEF Busy
<1>3. ASSUME ~Sending(requests[c]) PROVE Busy(requests) = Promise!Nothing
  BY <1>1, <1>3 DEF Busy, Promise!Nothing, Promise!Only
<1> QED
  BY <1>2, <1>3

LEMMA BusyNot ==
  ASSUME NEW requests, NEW holder, \A d \in Clients : holder # Client(d),
         \A d \in Clients : Sending(requests[d]) => holder = Client(d)
  PROVE  Busy(requests) = Promise!Nothing
BY DEF Busy, Promise!Nothing, Promise!Only

\* The mutex decides: who sends holds it.
LEMMA SendersHold == IndInv => \A d \in Clients : Sending(client[d]) => mutation = Client(d)
BY DEF IndInv, Holding, Sending, ClientSections

\* A request that does not send looks like no request.
LEMMA BusyKept ==
  ASSUME IndInv, NEW c \in Clients, NEW requests,
         \A d \in Clients : d # c => requests[d] = client[d],
         ~Sending(client[c]), ~Sending(requests[c])
  PROVE  Busy(requests) = Busy(client)
<1>1. \A d \in Clients : Sending(requests[d]) => mutation = Client(d)
  BY SendersHold
<1>2. CASE \E d \in Clients : mutation = Client(d)
  <2>1. PICK d \in Clients : mutation = Client(d)
    BY <1>2
  <2>2. Sending(requests[d]) <=> Sending(client[d])
    BY DEF Sending
  <2>3. Sending(client[d]) => requests[d] = client[d]
    OBVIOUS
  <2>4. CASE Sending(client[d])
    <3>1. Busy(requests) = Operation(requests[d])
      BY <1>1, <2>1, <2>2, <2>4, BusyIs
    <3>2. Busy(client) = Operation(client[d])
      BY <2>1, <2>4, SendersHold, BusyIs
    <3> QED
      BY <2>3, <2>4, <3>1, <3>2
  <2>5. CASE ~Sending(client[d])
    <3>1. Busy(requests) = Promise!Nothing
      BY <1>1, <2>1, <2>2, <2>5, BusyIs
    <3>2. Busy(client) = Promise!Nothing
      BY <2>1, <2>5, SendersHold, BusyIs
    <3> QED
      BY <3>1, <3>2
  <2> QED
    BY <2>4, <2>5
<1>3. CASE \A d \in Clients : mutation # Client(d)
  <2>1. Busy(requests) = Promise!Nothing
    BY <1>1, <1>3, BusyNot
  <2>2. Busy(client) = Promise!Nothing
    BY <1>3, SendersHold, BusyNot
  <2> QED
    BY <2>1, <2>2
<1> QED
  BY <1>2, <1>3

\* What the promise shows of a guard is what the guard of the current generation is.
Shown(w) == [stage |-> Stage(w.pc), back |-> w.back, before |-> w.before,
             restored |-> w.restored]

LEMMA TrialIs ==
  ASSUME NEW g \in Generations, NEW guards
  PROVE  Trial(g, guards) = Shown(guards[g])
BY DEF Trial, Shown

LEMMA BlankTrial == Shown(NoWatch) = Promise!NoTrial
BY DEF Shown, NoWatch, Stage, Promise!NoTrial

\* Before the next generation has a guard there is no trial of it.
LEMMA NoGuardYet ==
  ASSUME IndInv, Blank, NEW n \in Nat, n > generation
  PROVE  Trial(n, watch) = Promise!NoTrial
<1>1. CASE n \in Generations
  <2>1. watch[n].pc = "off"
    BY <1>1 DEF IndInv, GuardBelongs, TypeOK, Generations
  <2>2. watch[n].back = NoLock /\ watch[n].before = NoLock /\ watch[n].restored = FALSE
    BY <1>1, <2>1 DEF Blank
  <2> QED
    BY <1>1, <2>1, <2>2 DEF Trial, Stage, Promise!NoTrial
<1>2. CASE n \notin Generations
  BY <1>2 DEF Trial, Promise!NoTrial
<1> QED
  BY <1>1, <1>2

\* A step of a guard left over from an earlier generation is not seen.
LEMMA OldGuardUnseen ==
  ASSUME IndInv, NEW g \in Generations, g # generation, NEW guards,
         \A h \in Generations : h # g => guards[h] = watch[h]
  PROVE  Trial(generation, guards) = Trial(generation, watch)
BY DEF Trial

\* Asking for a lock or an unlock, and getting the mutex for a lock, is not seen.
LEMMA RequestsUnseen ==
  ASSUME IndInv, NEW c \in Clients, LockRequest(c) \/ LockAcquire(c) \/ UnlockRequest(c)
  PROVE  UNCHANGED Promise!vars
<1>1. /\ UNCHANGED <<modem, file, saved, phase, guard, generation, boot, watch>>
      /\ \A d \in Clients : d # c => client'[d] = client[d]
      /\ ~Sending(client[c])
      /\ ~Sending(client'[c])
  BY DEF IndInv, TypeOK, ClientState, LockRequest, LockAcquire, UnlockRequest, service,
         Sending
<1>2. Busy(client') = Busy(client)
  BY <1>1, BusyKept
<1> QED
  BY <1>1, <1>2 DEF Promise!vars

\* Who has the mutex is the one that sends, before a step and after it.
LEMMA Alone ==
  ASSUME IndInv, NEW c \in Clients, mutation = Client(c), NEW requests,
         \A d \in Clients : d # c => requests[d] = client[d]
  PROVE  /\ Sending(requests[c]) => Busy(requests) = Operation(requests[c])
         /\ ~Sending(requests[c]) => Busy(requests) = Promise!Nothing
<1>1. \A d \in Clients : Sending(requests[d]) => Client(c) = Client(d)
  BY SendersHold, Owners
<1> QED
  BY <1>1, BusyIs

LEMMA LockSendSeen ==
  ASSUME IndInv, Blank, NEW c \in Clients, LockSend(c)
  PROVE  Promise!Lock
<1> USE DEF IndInv
<1>1. /\ mutation = Client(c)
      /\ client \in [Clients -> ClientState]
      /\ client[c] \in ClientState
      /\ client[c].pc = "lock_send"
      /\ client[c].entries \in Locks
  BY DEF LockSend, Holding, ClientSections, Blank, TypeOK
<1>2. Busy(client) = Promise!Nothing
  BY <1>1, Alone DEF Sending
<1>3. UNCHANGED <<file, saved, phase, guard, Trial(generation, watch), Restoring(boot)>>
  BY DEF LockSend, service
<1>4. PICK ok \in BOOLEAN :
        /\ LockCommand(client[c].entries, ok)
        /\ ok => client' = [client EXCEPT ![c].pc = "lock_save"]
        /\ ~ok => client' = [client EXCEPT ![c] = NoRequest]
  BY DEF LockSend
<1>5. Promise!Send(client[c].entries, ok)
  BY <1>4 DEF LockCommand, Promise!Send
<1>6. \A d \in Clients : d # c => client'[d] = client[d]
  BY <1>1, <1>4
<1>7. CASE ok
  <2>1. /\ client'[c].pc = "lock_save"
        /\ client'[c].entries = client[c].entries
        /\ client'[c].previous = client[c].previous
        /\ client'[c].persistent = client[c].persistent
        /\ client'[c].guarded = client[c].guarded
    BY <1>1, <1>4, <1>7 DEF ClientState
  <2>2. Busy(client') = Operation(client'[c])
    BY <1>1, <1>6, <2>1, Alone DEF Sending
  <2>3. Operation(client'[c]) =
          [op |-> "lock", entries |-> client[c].entries, before |-> client[c].previous,
           kept |-> client[c].persistent, tried |-> client[c].guarded]
    BY <2>1 DEF Operation
  <2>4. /\ client[c].previous \in Entries
        /\ client[c].persistent \in BOOLEAN
        /\ client[c].guarded \in BOOLEAN
    BY <1>1 DEF ClientState
  <2> QED
    BY <1>1, <1>2, <1>3, <1>5, <1>7, <2>2, <2>3, <2>4
    DEF Promise!Lock, Promise!Entries, Entries
<1>8. CASE ~ok
  <2>1. client'[c] = NoRequest
    BY <1>1, <1>4, <1>8
  <2>2. Busy(client') = Promise!Nothing
    BY <1>1, <1>6, <2>1, Alone DEF Sending, NoRequest
  <2>3. NoLock \in Promise!Entries
    BY DEF Promise!Entries
  <2> QED
    BY <1>1, <1>2, <1>3, <1>5, <1>8, <2>2, <2>3 DEF Promise!Lock
<1> QED
  BY <1>7, <1>8

\* What a save leaves on disk and in memory.
LEMMA PersistSeen ==
  ASSUME NEW next, NEW ok \in BOOLEAN, Persist(next, ok)
  PROVE  Promise!Record(next, ok)
BY DEF Persist, Promise!Record

LEMMA LockSaveSeen ==
  ASSUME IndInv, IndInv', Blank, NEW c \in Clients, LockSave(c)
  PROVE  Promise!LockRecorded
<1> USE DEF IndInv
<1>1. /\ mutation = Client(c)
      /\ client \in [Clients -> ClientState]
      /\ client[c] \in ClientState
      /\ client[c].pc = "lock_save"
  BY DEF LockSave, Holding, ClientSections, TypeOK
<1>2. Busy(client) =
        [op |-> "lock", entries |-> client[c].entries, before |-> client[c].previous,
         kept |-> client[c].persistent, tried |-> client[c].guarded]
  BY <1>1, Alone DEF Sending, Operation
<1>3. UNCHANGED <<modem, Restoring(boot)>>
  BY DEF LockSave
<1>4. client' = [client EXCEPT ![c] = NoRequest]
  BY DEF LockSave
<1>5. Busy(client') = Promise!Nothing
  <2>1. client'[c] = NoRequest /\ \A d \in Clients : d # c => client'[d] = client[d]
    BY <1>1, <1>4
  <2> QED
    BY <1>1, <2>1, Alone DEF Sending, NoRequest
<1>6. \E ok \in BOOLEAN :
        Promise!Record(IF client[c].persistent THEN client[c].entries ELSE NoLock, ok)
  BY PersistSeen DEF LockSave, SavedBy
<1>7. /\ generation \in Nat
      /\ generation' = generation + 1
      /\ generation + 1 \in Generations
  BY <1>1, BoundAssumption DEF LockSave, NextGeneration, RoomKept, TypeOK, Generations
<1>8. CASE client[c].guarded
  <2>1. /\ guard' = "checking"
        /\ watch' = [watch EXCEPT ![generation + 1] =
             [pc |-> "confirm", back |-> client[c].previous, before |-> saved,
              restored |-> FALSE]]
    BY <1>8 DEF LockSave, Spawn
  <2>2. watch'[generation + 1] =
          [pc |-> "confirm", back |-> client[c].previous, before |-> saved,
           restored |-> FALSE]
    BY <1>7, <2>1 DEF TypeOK
  <2>3. Trial(generation', watch') = Shown(watch'[generation + 1])
    BY <1>7, TrialIs
  <2>4. Trial(generation', watch') = Promise!TrialOf(client[c].previous, saved)
    BY <2>2, <2>3 DEF Shown, Stage, Promise!TrialOf
  <2> QED
    BY <1>2, <1>3, <1>5, <1>6, <1>8, <2>1, <2>4 DEF LockSave, Promise!LockRecorded
<1>9. CASE ~client[c].guarded
  <2>1. guard' = "idle" /\ watch' = watch
    BY <1>9 DEF LockSave
  <2>2. Trial(generation', watch') = Promise!NoTrial
    <3>1. generation + 1 \in Nat /\ generation + 1 > generation
      BY <1>7
    <3> QED
      BY <1>7, <2>1, <3>1, NoGuardYet
  <2> QED
    BY <1>2, <1>3, <1>5, <1>6, <1>9, <2>1, <2>2 DEF LockSave, Promise!LockRecorded
<1> QED
  BY <1>8, <1>9

\* What an unlock under way looks like.
LEMMA UnlockOperation ==
  ASSUME NEW r, r.entries = NoLock, r.previous = NoLock, r.persistent = FALSE,
         r.guarded = FALSE
  PROVE  /\ r.pc = "unlock_send" => Operation(r) = Promise!Only("unlock")
         /\ r.pc = "unlock_save" => Operation(r) = Promise!Only("unlocked")
BY DEF Operation, Promise!Only

LEMMA UnlockAcquireSeen ==
  ASSUME IndInv, Blank, NEW c \in Clients, UnlockAcquire(c)
  PROVE  Promise!Unlock
<1> USE DEF IndInv
<1>1. /\ client \in [Clients -> ClientState]
      /\ client[c] \in ClientState
      /\ client[c].pc = "unlock_wait"
      /\ mutation = Free
      /\ client' = [client EXCEPT ![c].pc = "unlock_send"]
      /\ UNCHANGED <<modem, file, saved, phase, Restoring(boot)>>
      /\ watch' = watch
  BY DEF UnlockAcquire, Acquire, TypeOK
<1>2. \A d \in Clients : ~Sending(client[d])
  BY <1>1, SendersHold, Owners
<1>3. Busy(client) = Promise!Nothing
  BY <1>2 DEF Busy, Promise!Nothing, Promise!Only
<1>4. /\ client'[c].pc = "unlock_send"
      /\ client'[c].entries = NoLock
      /\ client'[c].previous = NoLock
      /\ client'[c].persistent = FALSE
      /\ client'[c].guarded = FALSE
  BY <1>1 DEF ClientState, Blank
<1>5. Busy(client') = Operation(client'[c])
  <2>1. \A d \in Clients : Sending(client'[d]) => Client(c) = Client(d)
    BY <1>1, <1>2
  <2> QED
    BY <1>4, <2>1, BusyIs DEF Sending
<1>6. Operation(client'[c]) = Promise!Only("unlock")
  BY <1>4, UnlockOperation
<1>7. Trial(generation', watch') = Promise!NoTrial
  <2>1. generation' \in Nat /\ generation' > generation
    BY BoundAssumption DEF UnlockAcquire, NextGeneration, TypeOK
  <2> QED
    BY <1>1, <2>1, NoGuardYet
<1> QED
  BY <1>1, <1>3, <1>5, <1>6, <1>7 DEF UnlockAcquire, Promise!Unlock

\* What the handler that sends shows as long as it unlocks.
LEMMA Unlocking ==
  ASSUME IndInv, Blank, NEW c \in Clients,
         client[c].pc \in {"unlock_send", "unlock_save"}
  PROVE  /\ mutation = Client(c)
         /\ client \in [Clients -> ClientState]
         /\ client[c] \in ClientState
         /\ client[c].pc = "unlock_send" => Busy(client).op = "unlock"
         /\ client[c].pc = "unlock_save" => Busy(client).op = "unlocked"
         /\ client[c].entries = NoLock
         /\ client[c].previous = NoLock
         /\ client[c].persistent = FALSE
         /\ client[c].guarded = FALSE
<1>1. mutation = Client(c)
  BY DEF IndInv, Holding, ClientSections
<1>2. Busy(client) = Operation(client[c])
  BY <1>1, Alone DEF Sending
<1>3. /\ client[c].pc = "unlock_send" => Operation(client[c]).op = "unlock"
      /\ client[c].pc = "unlock_save" => Operation(client[c]).op = "unlocked"
  BY DEF Operation
<1> QED
  BY <1>1, <1>2, <1>3 DEF IndInv, TypeOK, Blank

\* A handler that is done shows nothing.
LEMMA Finished ==
  ASSUME IndInv, NEW c \in Clients, mutation = Client(c),
         client' = [client EXCEPT ![c] = NoRequest]
  PROVE  Busy(client') = Promise!Nothing
<1>1. client'[c] = NoRequest /\ \A d \in Clients : d # c => client'[d] = client[d]
  BY DEF IndInv, TypeOK
<1>2. ~Sending(client'[c])
  BY <1>1 DEF Sending, NoRequest
<1> QED
  BY <1>1, <1>2, Alone

LEMMA UnlockSendSeen ==
  ASSUME IndInv, Blank, NEW c \in Clients, UnlockSend(c)
  PROVE  Promise!UnlockSent
<1>1. /\ client[c].pc = "unlock_send"
      /\ mutation = Client(c)
      /\ client \in [Clients -> ClientState]
      /\ client[c] \in ClientState
      /\ Busy(client).op = "unlock"
  BY Unlocking DEF UnlockSend
<1>2. UNCHANGED <<file, saved, phase, guard, Trial(generation, watch), Restoring(boot)>>
  BY DEF UnlockSend, service
<1>3. PICK ok \in BOOLEAN :
        /\ UnlockCommand(ok)
        /\ ok => client' = [client EXCEPT ![c].pc = "unlock_save"]
        /\ ~ok => client' = [client EXCEPT ![c] = NoRequest]
  BY DEF UnlockSend
<1>4. Promise!Send(NoLock, ok)
  BY <1>3 DEF UnlockCommand, Promise!Send
<1>5. CASE ok
  <2>1. /\ client'[c].pc = "unlock_save"
        /\ client'[c].entries = NoLock
        /\ client'[c].previous = NoLock
        /\ client'[c].persistent = FALSE
        /\ client'[c].guarded = FALSE
        /\ \A d \in Clients : d # c => client'[d] = client[d]
    <3>1. /\ client[c].entries = NoLock
          /\ client[c].previous = NoLock
          /\ client[c].persistent = FALSE
          /\ client[c].guarded = FALSE
      BY <1>1, Unlocking
    <3> QED
      BY <1>1, <1>3, <1>5, <3>1 DEF ClientState
  <2>2. Busy(client') = Operation(client'[c])
    BY <1>1, <2>1, Alone DEF Sending
  <2>3. Operation(client'[c]) = Promise!Only("unlocked")
    BY <2>1, UnlockOperation
  <2> QED
    BY <1>1, <1>2, <1>4, <1>5, <2>2, <2>3 DEF Promise!UnlockSent
<1>6. CASE ~ok
  <2>1. Busy(client') = Promise!Nothing
    BY <1>1, <1>3, <1>6, Finished
  <2> QED
    BY <1>1, <1>2, <1>4, <1>6, <2>1 DEF Promise!UnlockSent
<1> QED
  BY <1>5, <1>6

LEMMA UnlockSaveSeen ==
  ASSUME IndInv, Blank, NEW c \in Clients, UnlockSave(c)
  PROVE  Promise!UnlockRecorded
<1>1. /\ mutation = Client(c)
      /\ Busy(client).op = "unlocked"
  BY Unlocking DEF UnlockSave
<1>2. UNCHANGED <<modem, guard, Trial(generation, watch), Restoring(boot)>>
  BY DEF UnlockSave
<1>3. Busy(client') = Promise!Nothing
  BY <1>1, Finished DEF UnlockSave
<1>4. PICK ok \in BOOLEAN : Persist(NoLock, ok) /\ phase' = UnlockPhase(ok)
  BY DEF UnlockSave
<1>5. CASE ok
  <2>1. Promise!Record(NoLock, TRUE) /\ phase' = "unlocked"
    BY <1>4, <1>5 DEF UnlockPhase, Persist, Promise!Record
  <2> QED
    BY <1>1, <1>2, <1>3, <2>1 DEF Promise!UnlockRecorded
<1>6. CASE ~ok
  <2>1. UNCHANGED <<file, saved, phase>>
    BY <1>4, <1>6 DEF UnlockPhase, Persist
  <2> QED
    BY <1>1, <1>2, <1>3, <2>1 DEF Promise!UnlockRecorded
<1> QED
  BY <1>5, <1>6

LEMMA UnlockDroppedSeen ==
  ASSUME IndInv, Blank, NEW c \in Clients, UnlockDropped(c)
  PROVE  Promise!UnlockSent \/ Promise!UnlockRecorded \/ UNCHANGED Promise!vars
<1>1. /\ UNCHANGED <<saved, phase, guard, Trial(generation, watch), Restoring(boot)>>
      /\ client' = [client EXCEPT ![c] = NoRequest]
  BY DEF UnlockDropped, service
<1>2. CASE client[c].pc = "unlock_wait"
  <2>1. UNCHANGED <<modem, file>>
    BY <1>2 DEF UnlockDropped
  <2>2. /\ \A d \in Clients : d # c => client'[d] = client[d]
        /\ ~Sending(client[c])
        /\ ~Sending(client'[c])
    BY <1>1, <1>2 DEF IndInv, TypeOK, Sending, NoRequest
  <2>3. Busy(client') = Busy(client)
    BY <2>2, BusyKept
  <2> QED
    BY <1>1, <2>1, <2>3 DEF Promise!vars
<1>3. CASE client[c].pc = "unlock_send"
  <2>1. mutation = Client(c) /\ Busy(client).op = "unlock"
    BY <1>3, Unlocking
  <2>2. Busy(client') = Promise!Nothing
    BY <1>1, <2>1, Finished
  <2>3. Promise!Send(NoLock, FALSE) /\ file' = file
    BY <1>3 DEF UnlockDropped, Promise!Send
  <2> QED
    BY <1>1, <2>1, <2>2, <2>3 DEF Promise!UnlockSent
<1>4. CASE client[c].pc = "unlock_save"
  <2>1. mutation = Client(c) /\ Busy(client).op = "unlocked"
    BY <1>4, Unlocking
  <2>2. Busy(client') = Promise!Nothing
    BY <1>1, <2>1, Finished
  <2>3. modem' = modem /\ file' \in {file, NoLock}
    BY <1>4 DEF UnlockDropped
  <2> QED
    BY <1>1, <2>1, <2>2, <2>3 DEF Promise!UnlockRecorded
<1> QED
  BY <1>2, <1>3, <1>4 DEF UnlockDropped

\* While nobody that sends holds the mutex, no operation is under way.
LEMMA NobodySends ==
  ASSUME IndInv, \A d \in Clients : mutation # Client(d)
  PROVE  Busy(client) = Promise!Nothing
BY SendersHold, BusyNot

LEMMA BootReadSeen == ASSUME BootRead PROVE Promise!RestoreRead
<1>1. Restoring(boot) = [known |-> FALSE, entries |-> boot.entries]
  BY DEF BootRead, Restoring
<1>2. Restoring(boot') = [known |-> TRUE, entries |-> saved]
  BY DEF BootRead, Restoring
<1> QED
  BY <1>1, <1>2 DEF BootRead, service, Promise!RestoreRead

LEMMA BootAcquireUnseen == ASSUME IndInv, BootAcquire PROVE UNCHANGED Promise!vars
<1>1. Restoring(boot') = Restoring(boot)
  BY DEF BootAcquire, Restoring, IndInv, TypeOK, BootState
<1> QED
  BY <1>1 DEF BootAcquire, service, Promise!vars

LEMMA BootSendSeen ==
  ASSUME IndInv, Blank, BootSend
  PROVE  Promise!Restore
<1> USE DEF IndInv
<1>1. boot.pc = "send" /\ boot.entries \in Locks /\ mutation = Boot
  BY DEF BootSend, Holding, Blank
<1>2. Busy(client) = Promise!Nothing
  BY <1>1, NobodySends, Owners
<1>3. UNCHANGED <<file, saved>> /\ client' = client
  BY DEF BootSend
<1>4. /\ Restoring(boot).entries = boot.entries
      /\ Restoring(boot') = [known |-> TRUE, entries |-> NoLock]
  BY DEF BootSend, Restoring
<1>5. /\ generation + 1 \in Generations
      /\ generation' = generation + 1
      /\ generation + 1 \in Nat
      /\ generation + 1 > generation
  BY <1>1, BoundAssumption DEF BootSend, NextGeneration, RoomKept, TypeOK, Generations
<1>6. PICK ok \in BOOLEAN :
        /\ LockCommand(boot.entries, ok)
        /\ ok => /\ phase' = "persistent"
                 /\ guard' = "checking"
                 /\ Spawn(generation + 1, NoLock, NoLock)
        /\ ~ok => phase' = "restore_failed" /\ UNCHANGED <<guard, watch>>
  BY DEF BootSend
<1>7. CASE ok
  <2>1. watch'[generation + 1] =
          [pc |-> "confirm", back |-> NoLock, before |-> NoLock, restored |-> FALSE]
    BY <1>5, <1>6, <1>7 DEF Spawn, TypeOK
  <2>2. Trial(generation', watch') = Shown(watch'[generation + 1])
    BY <1>5, TrialIs
  <2>3. Trial(generation', watch') = Promise!TrialOf(NoLock, NoLock)
    BY <2>1, <2>2 DEF Shown, Stage, Promise!TrialOf
  <2>4. Promise!Send(boot.entries, TRUE)
    BY <1>6, <1>7 DEF LockCommand, Promise!Send
  <2> QED
    BY <1>1, <1>2, <1>3, <1>4, <1>6, <1>7, <2>3, <2>4, NoLockAssumption DEF Promise!Restore
<1>8. CASE ~ok
  <2>1. Trial(generation', watch') = Promise!NoTrial
    BY <1>5, <1>6, <1>8, NoGuardYet
  <2>2. Promise!Send(boot.entries, FALSE)
    BY <1>6, <1>8 DEF LockCommand, Promise!Send
  <2> QED
    BY <1>1, <1>2, <1>3, <1>4, <1>6, <1>8, <2>1, <2>2, NoLockAssumption DEF Promise!Restore
<1> QED
  BY <1>7, <1>8

\* A guard that decides nothing about the current lock is not seen.
LEMMA WatchUnseen ==
  ASSUME IndInv, NEW g \in Generations, g # generation,
         \/ WatchSuperseded(g) \/ WatchServes(g) \/ WatchNoService(g)
         \/ WatchBackServes(g) \/ WatchReplaced(g)
  PROVE  UNCHANGED Promise!vars
<1>1. /\ UNCHANGED <<modem, file, saved, phase, guard, generation, client, boot>>
      /\ \A h \in Generations : h # g => watch'[h] = watch[h]
  BY DEF IndInv, TypeOK, WatchSuperseded, WatchServes, WatchNoService, WatchBackServes,
         WatchReplaced, service
<1>2. Trial(generation, watch') = Trial(generation, watch)
  BY <1>1, OldGuardUnseen
<1> QED
  BY <1>1, <1>2 DEF Promise!vars

\* A guard that may act is the one on trial, and nobody else has the mutex.
LEMMA GuardActs ==
  ASSUME IndInv, NEW g \in Generations, watch[g].pc \in WatchSections
  PROVE  /\ g = generation
         /\ Busy(client) = Promise!Nothing
         /\ Trial(generation, watch) = Shown(watch[g])
<1>1. g = generation /\ mutation = Watch(g)
  BY DEF IndInv, Holding
<1> QED
  BY <1>1, NobodySends, Owners, TrialIs

\* The five checks, of the lock on trial and of the one put back.
LEMMA WatchChecksSeen ==
  ASSUME IndInv, NEW g \in Generations, g = generation,
         WatchServes(g) \/ WatchNoService(g) \/ WatchBackServes(g)
  PROVE  Promise!Serves \/ Promise!NoService \/ Promise!BackServes
<1> USE DEF IndInv
<1>1. /\ watch \in [Generations -> WatchState]
      /\ watch[g] \in WatchState
      /\ Trial(generation, watch) = Shown(watch[g])
      /\ UNCHANGED <<modem, file, saved, phase, generation, client, boot>>
  BY TrialIs DEF TypeOK, WatchServes, WatchNoService, WatchBackServes, service
<1>2. Trial(generation, watch') = Shown(watch'[g])
  BY TrialIs
<1>3. CASE WatchServes(g)
  <2>1. watch'[g] = NoWatch /\ guard' = "ok" /\ watch[g].pc = "confirm"
    BY <1>1, <1>3 DEF WatchServes
  <2>2. Trial(generation, watch').stage = "none" /\ Trial(generation, watch') = Promise!NoTrial
    BY <1>2, <2>1, BlankTrial DEF Promise!NoTrial
  <2>3. Trial(generation, watch).stage = "trying"
    BY <1>1, <2>1 DEF Shown, Stage
  <2> QED
    BY <1>1, <2>1, <2>2, <2>3 DEF Promise!Serves, Promise!At
<1>4. CASE WatchNoService(g)
  <2>1. /\ watch'[g] = [watch[g] EXCEPT !.pc =
                          IF @ = "confirm" THEN "revert_wait" ELSE "drop_wait"]
        /\ watch[g].pc \in {"confirm", "confirm_back"}
        /\ guard' = guard
    BY <1>1, <1>4 DEF WatchNoService, service
  <2>2. CASE watch[g].pc = "confirm"
    <3>1. /\ watch'[g].pc = "revert_wait" /\ watch'[g].back = watch[g].back
          /\ watch'[g].before = watch[g].before /\ watch'[g].restored = watch[g].restored
      BY <1>1, <2>1, <2>2 DEF WatchState
    <3>2. /\ Trial(generation, watch).stage = "trying"
          /\ Trial(generation, watch') = [Trial(generation, watch) EXCEPT !.stage = "failed"]
      BY <1>1, <1>2, <2>2, <3>1 DEF Shown, Stage
    <3> QED
      BY <1>1, <2>1, <3>2 DEF Promise!NoService, Promise!At, Promise!Goes
  <2>3. CASE watch[g].pc = "confirm_back"
    <3>1. /\ watch'[g].pc = "drop_wait" /\ watch'[g].back = watch[g].back
          /\ watch'[g].before = watch[g].before /\ watch'[g].restored = watch[g].restored
      BY <1>1, <2>1, <2>3 DEF WatchState
    <3>2. /\ Trial(generation, watch).stage = "back"
          /\ Trial(generation, watch') = [Trial(generation, watch) EXCEPT !.stage = "hopeless"]
      BY <1>1, <1>2, <2>3, <3>1 DEF Shown, Stage
    <3> QED
      BY <1>1, <2>1, <3>2 DEF Promise!NoService, Promise!At, Promise!Goes
  <2> QED
    BY <2>1, <2>2, <2>3
<1>5. CASE WatchBackServes(g)
  <2>1. /\ watch[g].pc = "confirm_back" /\ watch'[g].pc = "final_wait"
        /\ watch'[g].back = watch[g].back /\ watch'[g].before = watch[g].before
        /\ watch'[g].restored = watch[g].restored /\ guard' = guard
    BY <1>1, <1>5 DEF WatchBackServes, WatchState, service
  <2>2. /\ Trial(generation, watch).stage = "back"
        /\ Trial(generation, watch') = [Trial(generation, watch) EXCEPT !.stage = "ending"]
    BY <1>1, <1>2, <2>1 DEF Shown, Stage
  <2> QED
    BY <1>1, <2>1, <2>2 DEF Promise!BackServes, Promise!At, Promise!Goes
<1> QED
  BY <1>3, <1>4, <1>5

LEMMA WatchAcquireUnseen ==
  ASSUME IndInv, NEW g \in Generations, WatchAcquire(g)
  PROVE  UNCHANGED Promise!vars
<1> USE DEF IndInv
<1>1. /\ watch \in [Generations -> WatchState]
      /\ watch[g] \in WatchState
      /\ g = generation
      /\ UNCHANGED <<modem, file, saved, phase, guard, generation, client, boot>>
  BY DEF TypeOK, WatchAcquire, Current, service
<1>2. /\ watch'[g].back = watch[g].back
      /\ watch'[g].before = watch[g].before
      /\ watch'[g].restored = watch[g].restored
      /\ \/ watch[g].pc = "revert_wait" /\ watch'[g].pc = "revert"
         \/ watch[g].pc = "drop_wait" /\ watch'[g].pc = "drop"
         \/ watch[g].pc = "final_wait" /\ watch'[g].pc = "final"
  BY <1>1 DEF WatchAcquire, WatchWaits, WatchState
<1>3. Shown(watch'[g]) = Shown(watch[g])
  <2>1. Stage(watch'[g].pc) = Stage(watch[g].pc)
    BY <1>2 DEF Stage
  <2> QED
    BY <1>2, <2>1 DEF Shown
<1> QED
  BY <1>1, <1>3, TrialIs DEF Promise!vars

LEMMA WatchRevertSeen ==
  ASSUME IndInv, NEW g \in Generations, WatchRevert(g)
  PROVE  Promise!PutBack
<1> USE DEF IndInv
<1>1. /\ watch \in [Generations -> WatchState]
      /\ watch[g] \in WatchState
      /\ watch[g].pc = "revert"
      /\ UNCHANGED <<file, saved, phase, guard, generation, client, boot>>
  BY DEF TypeOK, WatchRevert, service
<1>2. /\ g = generation
      /\ Busy(client) = Promise!Nothing
      /\ Trial(generation, watch) = Shown(watch[g])
      /\ Trial(generation, watch') = Shown(watch'[g])
  BY <1>1, GuardActs, TrialIs DEF WatchSections
<1>3. PICK ok \in BOOLEAN :
        /\ IF watch[g].back = NoLock THEN UnlockCommand(ok)
                                     ELSE LockCommand(watch[g].back, ok)
        /\ watch' = [watch EXCEPT
             ![g].restored = ok,
             ![g].pc = IF ok /\ watch[g].back # NoLock THEN "confirm_back"
                                                        ELSE "final_wait"]
  BY DEF WatchRevert
<1>4. Promise!Send(watch[g].back, ok)
  BY <1>3 DEF UnlockCommand, LockCommand, Promise!Send
<1>5. /\ watch'[g].back = watch[g].back
      /\ watch'[g].before = watch[g].before
      /\ watch'[g].restored = ok
      /\ watch'[g].pc = IF ok /\ watch[g].back # NoLock THEN "confirm_back"
                                                         ELSE "final_wait"
  BY <1>1, <1>3 DEF WatchState
<1>6. /\ Trial(generation, watch).stage = "failed"
      /\ Trial(generation, watch).back = watch[g].back
      /\ Trial(generation, watch).before = watch[g].before
  BY <1>1, <1>2 DEF Shown, Stage
<1>7. Trial(generation, watch') =
        [stage |-> IF ok /\ watch[g].back # NoLock THEN "back" ELSE "ending",
         back |-> watch[g].back, before |-> watch[g].before, restored |-> ok]
  <2>1. CASE ok /\ watch[g].back # NoLock
    BY <1>2, <1>5, <2>1 DEF Shown, Stage
  <2>2. CASE ~(ok /\ watch[g].back # NoLock)
    BY <1>2, <1>5, <2>2 DEF Shown, Stage
  <2> QED
    BY <2>1, <2>2
<1> QED
  BY <1>1, <1>2, <1>4, <1>6, <1>7 DEF Promise!PutBack, Promise!At

LEMMA WatchDropSeen ==
  ASSUME IndInv, NEW g \in Generations, WatchDrop(g)
  PROVE  Promise!Clear
<1> USE DEF IndInv
<1>1. /\ watch \in [Generations -> WatchState]
      /\ watch[g] \in WatchState
      /\ watch[g].pc = "drop"
      /\ UNCHANGED <<file, saved, phase, guard, generation, client, boot>>
  BY DEF TypeOK, WatchDrop, service
<1>2. /\ g = generation
      /\ Busy(client) = Promise!Nothing
      /\ Trial(generation, watch) = Shown(watch[g])
      /\ Trial(generation, watch') = Shown(watch'[g])
  BY <1>1, GuardActs, TrialIs DEF WatchSections
<1>3. PICK ok \in BOOLEAN :
        /\ UnlockCommand(ok)
        /\ watch' = [watch EXCEPT ![g].restored = ok, ![g].back = NoLock,
                                  ![g].pc = "final_wait"]
  BY DEF WatchDrop
<1>4. Promise!Send(NoLock, ok)
  BY <1>3 DEF UnlockCommand, Promise!Send
<1>5. /\ watch'[g].back = NoLock
      /\ watch'[g].before = watch[g].before
      /\ watch'[g].restored = ok
      /\ watch'[g].pc = "final_wait"
  BY <1>1, <1>3 DEF WatchState
<1>6. /\ Trial(generation, watch).stage = "hopeless"
      /\ Trial(generation, watch).before = watch[g].before
      /\ Trial(generation, watch') =
           [stage |-> "ending", back |-> NoLock, before |-> watch[g].before,
            restored |-> ok]
  BY <1>1, <1>2, <1>5 DEF Shown, Stage
<1> QED
  BY <1>1, <1>2, <1>4, <1>6 DEF Promise!Clear, Promise!At

LEMMA WatchFinalSeen ==
  ASSUME IndInv, NEW g \in Generations, WatchFinal(g)
  PROVE  Promise!End
<1> USE DEF IndInv
<1>1. /\ watch \in [Generations -> WatchState]
      /\ watch[g] \in WatchState
      /\ watch[g].pc = "final"
      /\ UNCHANGED <<modem, generation, client, boot>>
      /\ watch' = [watch EXCEPT ![g] = NoWatch]
      /\ phase' = IF watch[g].back = NoLock THEN "unlocked" ELSE "temporary"
  BY DEF TypeOK, WatchFinal
<1>2. /\ g = generation
      /\ Busy(client) = Promise!Nothing
      /\ Trial(generation, watch) = Shown(watch[g])
      /\ Trial(generation, watch') = Shown(watch'[g])
  BY <1>1, GuardActs, TrialIs DEF WatchSections
<1>3. PICK ok \in BOOLEAN : Persist(SavedBack(g), ok) /\ guard' = Verdict(g, ok)
  BY DEF WatchFinal
<1>4. /\ Trial(generation, watch).stage = "ending"
      /\ Trial(generation, watch).back = watch[g].back
      /\ Trial(generation, watch).before = watch[g].before
      /\ Trial(generation, watch).restored = watch[g].restored
  BY <1>1, <1>2 DEF Shown, Stage
<1>5. Trial(generation, watch') = Promise!NoTrial
  <2>1. watch'[g] = NoWatch
    BY <1>1
  <2> QED
    BY <1>2, <2>1, BlankTrial
<1>6. Promise!Record(IF watch[g].back = NoLock THEN NoLock ELSE watch[g].before, ok)
  BY <1>3, PersistSeen DEF SavedBack
<1>7. guard' = IF watch[g].restored /\ ok THEN "reverted" ELSE "failed"
  BY <1>3 DEF Verdict
<1> QED
  BY <1>1, <1>2, <1>4, <1>5, <1>6, <1>7 DEF Promise!End, Promise!At

\* A start of the program: no task is left.
LEMMA Blanks ==
  ASSUME NEW requests, NEW guards,
         \A c \in Clients : requests[c] = NoRequest
  PROVE  Busy(requests) = Promise!Nothing /\ Trial(0, guards) = Promise!NoTrial
<1>1. \A c \in Clients : ~Sending(requests[c])
  BY DEF Sending, NoRequest
<1>2. 0 \notin Generations
  BY DEF Generations
<1> QED
  BY <1>1, <1>2 DEF Busy, Promise!Nothing, Promise!Only, Trial, Promise!NoTrial

LEMMA RestartSeen == ASSUME Restart PROVE Promise!Start
<1>1. Busy(client') = Promise!Nothing /\ Trial(generation', watch') = Promise!NoTrial
  <2>1. \A c \in Clients : client'[c] = NoRequest
    BY DEF Restart
  <2>2. generation' = 0
    BY DEF Restart
  <2> QED
    BY <2>1, <2>2, Blanks
<1>2. Restoring(boot') = [known |-> FALSE, entries |-> NoLock]
  BY DEF Restart, Restoring
<1> QED
  BY <1>1, <1>2 DEF Restart, Loaded, Promise!Start, Promise!Loaded

LEMMA StepSeen == IndInv /\ IndInv' /\ Blank /\ [Next]_vars => [Promise!Next]_Promise!vars
<1> SUFFICES ASSUME IndInv, IndInv', Blank, [Next]_vars
             PROVE  Promise!Next \/ UNCHANGED Promise!vars
  OBVIOUS
<1>1. ASSUME NEW c \in Clients, ClientStep(c) PROVE Promise!Next \/ UNCHANGED Promise!vars
  BY <1>1, RequestsUnseen, LockSendSeen, LockSaveSeen, UnlockAcquireSeen, UnlockSendSeen,
     UnlockSaveSeen, UnlockDroppedSeen DEF ClientStep, Promise!Next
<1>2. ASSUME BootStep PROVE Promise!Next \/ UNCHANGED Promise!vars
  BY <1>2, BootReadSeen, BootAcquireUnseen, BootSendSeen DEF BootStep, Promise!Next
<1>3. ASSUME NEW g \in Generations, WatchStep(g)
      PROVE  Promise!Next \/ UNCHANGED Promise!vars
  <2>1. CASE WatchSuperseded(g) \/ WatchServes(g) \/ WatchNoService(g)
             \/ WatchBackServes(g) \/ WatchReplaced(g)
    <3>1. CASE g # generation
      BY <2>1, <3>1, WatchUnseen
    <3>2. CASE g = generation
      <4>1. WatchServes(g) \/ WatchNoService(g) \/ WatchBackServes(g)
        BY <2>1, <3>2 DEF WatchSuperseded, WatchReplaced
      <4> QED
        BY <3>2, <4>1, WatchChecksSeen DEF Promise!Next
    <3> QED
      BY <3>1, <3>2
  <2>2. CASE WatchAcquire(g) \/ WatchRevert(g) \/ WatchDrop(g) \/ WatchFinal(g)
    BY <2>2, WatchAcquireUnseen, WatchRevertSeen, WatchDropSeen, WatchFinalSeen
    DEF Promise!Next
  <2> QED
    BY <1>3, <2>1, <2>2 DEF WatchStep
<1>4. ASSUME Restart PROVE Promise!Next
  BY <1>4, RestartSeen DEF Promise!Next
<1>5. ASSUME ModuleRestarts PROVE Promise!Next
  BY <1>5 DEF ModuleRestarts, service, tasks, Promise!ModuleRestarts, Promise!Next
<1>6. ASSUME UNCHANGED vars PROVE UNCHANGED Promise!vars
  BY <1>6 DEF vars, Promise!vars
<1> QED
  BY <1>1, <1>2, <1>3, <1>4, <1>5, <1>6 DEF Next

LEMMA InitSeen == Init => Promise!Init
<1> SUFFICES ASSUME Init PROVE Promise!Init
  OBVIOUS
<1>1. Busy(client) = Promise!Nothing /\ Trial(generation, watch) = Promise!NoTrial
  <2>1. \A c \in Clients : client[c] = NoRequest
    BY DEF Init
  <2>2. generation = 0
    BY DEF Init
  <2> QED
    BY <2>1, <2>2, Blanks
<1>2. Restoring(boot) = [known |-> FALSE, entries |-> NoLock]
  BY DEF Init, Restoring
<1> QED
  BY <1>1, <1>2 DEF Init, Loaded, Entries, Promise!Init, Promise!Loaded, Promise!Entries

\* The frequency lock implements GuardedLock for any number of handlers and guards: one
\* operation at a time, one lock on trial, and every report about the last of them.
THEOREM PromiseIsKept == Spec => KeepsPromise
<1>1. Init => Promise!Init
  BY InitSeen
<1>2. IndInv /\ IndInv' /\ Blank /\ [Next]_vars => [Promise!Next]_Promise!vars
  BY StepSeen
<1> QED
  BY <1>1, <1>2, Invariance, BlankAlways, PTL DEF Spec, KeepsPromise, Promise!Spec
=============================================================================
