--------------------------- MODULE SupervisorProofs ----------------------------
(***************************************************************************)
(* Safety of Supervisor for any settings, any number of followers, and any *)
(* number of faults, connections and updates.                              *)
(***************************************************************************)
EXTENDS Supervisor, FiniteSetTheorems, TLAPS

-------------------------------------------------------------------------------
(***************************************************************************)
(* Parts of the invariant whose variables a step leaves alone.             *)
(***************************************************************************)
LEMMA LockedKept ==
    ASSUME SupervisorInv, UNCHANGED <<restart, monitor, stopper>>
    PROVE  Locked'
BY DEF SupervisorInv, Locked

LEMMA OwnedKept ==
    ASSUME SupervisorInv, UNCHANGED <<target, child, alive, monitor, previous, fresh, stopper, taken>>
    PROVE  Owned'
BY DEF SupervisorInv, Owned

LEMMA InformedKept ==
    ASSUME SupervisorInv, UNCHANGED <<monitor, told, client>>
    PROVE  Informed'
BY DEF SupervisorInv, Informed

LEMMA PersistingKept ==
    ASSUME SupervisorInv, UNCHANGED <<settings, persisted, queued, writer, asked, stored, editor, dropped>>
    PROVE  Persisting'
BY DEF SupervisorInv, Persisting

LEMMA InitInv == ASSUME SupervisorConstants, Init PROVE SupervisorInv
<1>1. TypeOK
  <2>1. 1 \in Ids
    BY DEF SupervisorConstants, Ids
  <2>2. told \in [Followers -> Ids \cup {None}]
    BY DEF Init
  <2>3. running \in BOOLEAN /\ queued \in BOOLEAN /\ dropped \in BOOLEAN
    BY DEF Init
  <2> QED BY <2>1, <2>2, <2>3 DEF Init, TypeOK
<1>2. Locked /\ Owned /\ Informed /\ Persisting
  BY DEF Init, Locked, Recovering, Owned, Informed, Persisting
<1> QED BY <1>1, <1>2 DEF SupervisorInv

\* Processes and clients have numbers of connections already made.
LEMMA EndsTyped ==
    ASSUME SupervisorConstants, SupervisorInv, NEW p \in Ids, Ends(p)
    PROVE  alive' \subseteq Ids /\ lost' \subseteq Ids
BY DEF SupervisorConstants, SupervisorInv, TypeOK, Ids, Ends

-------------------------------------------------------------------------------
(***************************************************************************)
(* Faults, and the monitor thread.                                         *)
(***************************************************************************)
LEMMA CrashKeeps ==
    ASSUME SupervisorConstants, SupervisorInv, Crash
    PROVE  SupervisorInv'
<1> USE DEF targetVars, monitorVars, stopVars, settingVars
<1> PICK p \in alive : Ends(p)
  BY DEF Crash
<1>1. TypeOK'
  BY EndsTyped DEF Crash, SupervisorInv, TypeOK
<1>2. Owned'
  BY DEF Crash, SupervisorInv, Owned, Ends
<1>3. Locked' /\ Informed' /\ Persisting'
  BY LockedKept, InformedKept, PersistingKept DEF Crash
<1> QED BY <1>1, <1>2, <1>3 DEF SupervisorInv

LEMMA DisconnectKeeps ==
    ASSUME SupervisorConstants, SupervisorInv, Disconnect
    PROVE  SupervisorInv'
<1> USE DEF Disconnect, targetVars, worldVars, monitorVars, stopVars, settingVars
<1>1. TypeOK'
  BY DEF SupervisorConstants, SupervisorInv, TypeOK
<1>2. Locked' /\ Owned' /\ Informed' /\ Persisting'
  BY LockedKept, OwnedKept, InformedKept, PersistingKept
<1> QED BY <1>1, <1>2 DEF SupervisorInv

LEMMA WakeKeeps ==
    ASSUME SupervisorConstants, SupervisorInv, Wake
    PROVE  SupervisorInv'
<1> USE DEF Wake, targetVars, worldVars, monitorVars, stopVars, settingVars
<1>1. TypeOK'
  BY DEF SupervisorConstants, SupervisorInv, TypeOK
<1>2. Locked'
  BY DEF SupervisorInv, Locked, Recovering
<1>3. Owned'
  BY DEF SupervisorInv, TypeOK, Locked, Recovering, Owned
<1>4. Informed'
  BY DEF SupervisorInv, TypeOK, Informed
<1>5. Persisting'
  BY PersistingKept
<1> QED BY <1>1, <1>2, <1>3, <1>4, <1>5 DEF SupervisorInv

LEMMA InspectKeeps ==
    ASSUME SupervisorConstants, SupervisorInv, Inspect
    PROVE  SupervisorInv'
<1> USE DEF Inspect, targetVars, worldVars, monitorVars, stopVars, settingVars
<1>1. TypeOK'
  BY DEF SupervisorConstants, SupervisorInv, TypeOK
<1>2. Locked'
  BY DEF SupervisorInv, Locked, Recovering
<1>3. Owned'
  BY DEF SupervisorInv, TypeOK, Locked, Recovering, Owned
<1>4. Informed'
  BY DEF SupervisorInv, TypeOK, Informed
<1>5. Persisting'
  BY PersistingKept
<1> QED BY <1>1, <1>2, <1>3, <1>4, <1>5 DEF SupervisorInv

LEMMA InspectRebuiltKeeps ==
    ASSUME SupervisorConstants, SupervisorInv, InspectRebuilt
    PROVE  SupervisorInv'
<1> USE DEF InspectRebuilt, targetVars, worldVars, monitorVars, stopVars, settingVars
<1>1. TypeOK'
  BY DEF SupervisorConstants, SupervisorInv, TypeOK
<1>2. Locked'
  BY DEF SupervisorInv, Locked, Recovering
<1>3. Owned'
  BY DEF SupervisorInv, TypeOK, Locked, Recovering, Owned
<1>4. Informed'
  BY DEF SupervisorInv, TypeOK, Informed
<1>5. Persisting'
  BY PersistingKept
<1> QED BY <1>1, <1>2, <1>3, <1>4, <1>5 DEF SupervisorInv

LEMMA MonitorLocksKeeps ==
    ASSUME SupervisorConstants, SupervisorInv, MonitorLocks
    PROVE  SupervisorInv'
<1> USE DEF MonitorLocks, targetVars, worldVars, monitorVars, stopVars, settingVars
<1>1. TypeOK'
  BY DEF SupervisorConstants, SupervisorInv, TypeOK
<1>2. Locked'
  BY DEF SupervisorInv, Locked, Recovering
<1>3. Owned'
  BY DEF SupervisorInv, TypeOK, Locked, Recovering, Owned
<1>4. Informed'
  BY DEF SupervisorInv, TypeOK, Informed
<1>5. Persisting'
  BY PersistingKept
<1> QED BY <1>1, <1>2, <1>3, <1>4, <1>5 DEF SupervisorInv

LEMMA NothingToRecoverKeeps ==
    ASSUME SupervisorConstants, SupervisorInv, NothingToRecover
    PROVE  SupervisorInv'
<1> USE DEF NothingToRecover, Sleep, targetVars, worldVars, monitorVars, stopVars, settingVars
<1>1. TypeOK'
  BY DEF SupervisorConstants, SupervisorInv, TypeOK
<1>2. Locked'
  BY DEF SupervisorInv, Locked, Recovering
<1>3. Owned'
  BY DEF SupervisorInv, TypeOK, Locked, Recovering, Owned
<1>4. Informed'
  BY DEF SupervisorInv, TypeOK, Informed
<1>5. Persisting'
  BY PersistingKept
<1> QED BY <1>1, <1>2, <1>3, <1>4, <1>5 DEF SupervisorInv

LEMMA ReconnectKeeps ==
    ASSUME SupervisorConstants, SupervisorInv, Reconnect
    PROVE  SupervisorInv'
<1> USE DEF Reconnect, targetVars, worldVars, monitorVars, stopVars, settingVars
<1>1. TypeOK'
  BY DEF SupervisorConstants, SupervisorInv, TypeOK, Ids
<1>2. Locked'
  BY DEF SupervisorInv, Locked, Recovering
<1>3. Owned'
  BY DEF SupervisorConstants, SupervisorInv, TypeOK, Locked, Recovering, Owned, Reconnectable, Ids
<1>4. Informed'
  BY DEF SupervisorInv, TypeOK, Informed
<1>5. Persisting'
  BY PersistingKept
<1> QED BY <1>1, <1>2, <1>3, <1>4, <1>5 DEF SupervisorInv

LEMMA InstallReconnectedKeeps ==
    ASSUME SupervisorConstants, SupervisorInv, InstallReconnected
    PROVE  SupervisorInv'
<1> USE DEF InstallReconnected, targetVars, worldVars, monitorVars, stopVars, settingVars
<1>1. TypeOK'
  BY DEF SupervisorInv, TypeOK, Owned
<1>2. Locked'
  BY DEF SupervisorInv, Locked, Recovering
<1>3. Owned'
  BY DEF SupervisorInv, TypeOK, Locked, Recovering, Owned
<1>4. Informed'
  BY DEF SupervisorInv, TypeOK, Informed
<1>5. Persisting'
  BY PersistingKept
<1> QED BY <1>1, <1>2, <1>3, <1>4, <1>5 DEF SupervisorInv

LEMMA TakePreviousKeeps ==
    ASSUME SupervisorConstants, SupervisorInv, TakePrevious
    PROVE  SupervisorInv'
<1> USE DEF TakePrevious, targetVars, worldVars, monitorVars, stopVars, settingVars
<1>1. TypeOK'
  BY DEF SupervisorConstants, SupervisorInv, TypeOK
<1>2. Locked'
  BY DEF SupervisorInv, Locked, Recovering
<1>3. Owned'
  <2>1. CASE target = "local"
    BY <2>1 DEF SupervisorConstants, SupervisorInv, TypeOK, Locked, Recovering, Owned
  <2>2. CASE target = "restarting"
    <3>1. alive = {}
      BY <2>2 DEF SupervisorInv, Locked, Recovering, Owned
    <3> QED BY <2>2, <3>1 DEF SupervisorInv, Locked, Recovering, Owned
  <2> QED BY <2>1, <2>2 DEF SupervisorInv, TypeOK
<1>4. Informed'
  BY DEF SupervisorInv, TypeOK, Informed
<1>5. Persisting'
  BY PersistingKept
<1> QED BY <1>1, <1>2, <1>3, <1>4, <1>5 DEF SupervisorInv

LEMMA DropPreviousKeeps ==
    ASSUME SupervisorConstants, SupervisorInv, DropPrevious
    PROVE  SupervisorInv'
<1> USE DEF DropPrevious, targetVars, stopVars, settingVars
<1>1. CASE previous = None
  <2>1. TypeOK'
    BY <1>1 DEF SupervisorInv, TypeOK
  <2>2. Owned'
    BY <1>1 DEF SupervisorInv, Locked, Recovering, Owned
  <2>3. Locked' /\ Informed' /\ Persisting'
    BY PersistingKept DEF SupervisorInv, Locked, Recovering, Informed
  <2> QED BY <2>1, <2>2, <2>3 DEF SupervisorInv
<1>2. CASE previous # None
  <2>0. previous \in Ids /\ Ends(previous)
    BY <1>2 DEF SupervisorInv, TypeOK
  <2>1. TypeOK'
    BY <2>0, EndsTyped DEF SupervisorInv, TypeOK
  <2>2. Owned'
    BY <2>0 DEF SupervisorInv, Locked, Recovering, Owned, Ends
  <2>3. Locked' /\ Informed' /\ Persisting'
    BY PersistingKept DEF SupervisorInv, Locked, Recovering, Informed
  <2> QED BY <2>1, <2>2, <2>3 DEF SupervisorInv
<1> QED BY <1>1, <1>2

LEMMA SpawnKeeps ==
    ASSUME SupervisorConstants, SupervisorInv, Spawn
    PROVE  SupervisorInv'
<1> USE DEF Spawn, targetVars, worldVars, monitorVars, stopVars, settingVars
<1>1. TypeOK'
  BY DEF SupervisorConstants, SupervisorInv, TypeOK, Ids
<1>2. Locked'
  BY DEF SupervisorInv, Locked, Recovering
<1>3. Owned'
  BY DEF SupervisorConstants, SupervisorInv, TypeOK, Locked, Recovering, Owned, Ids
<1>4. Informed'
  BY DEF SupervisorInv, TypeOK, Informed
<1>5. Persisting'
  BY PersistingKept
<1> QED BY <1>1, <1>2, <1>3, <1>4, <1>5 DEF SupervisorInv

LEMMA SpawnFailsKeeps ==
    ASSUME SupervisorConstants, SupervisorInv, SpawnFails
    PROVE  SupervisorInv'
<1> USE DEF SpawnFails, Sleep, targetVars, worldVars, monitorVars, stopVars, settingVars
<1>1. TypeOK'
  BY DEF SupervisorConstants, SupervisorInv, TypeOK
<1>2. Locked'
  BY DEF SupervisorInv, Locked, Recovering
<1>3. Owned'
  BY DEF SupervisorInv, TypeOK, Locked, Recovering, Owned
<1>4. Informed'
  BY DEF SupervisorInv, TypeOK, Informed
<1>5. Persisting'
  BY PersistingKept
<1> QED BY <1>1, <1>2, <1>3, <1>4, <1>5 DEF SupervisorInv

LEMMA InstallSpawnedKeeps ==
    ASSUME SupervisorConstants, SupervisorInv, InstallSpawned
    PROVE  SupervisorInv'
<1> USE DEF InstallSpawned, targetVars, worldVars, monitorVars, stopVars, settingVars
<1>1. TypeOK'
  BY DEF SupervisorInv, TypeOK, Owned
<1>2. Locked'
  BY DEF SupervisorInv, Locked, Recovering
<1>3. Owned'
  BY DEF SupervisorInv, TypeOK, Locked, Recovering, Owned
<1>4. Informed'
  BY DEF SupervisorInv, TypeOK, Informed
<1>5. Persisting'
  BY PersistingKept
<1> QED BY <1>1, <1>2, <1>3, <1>4, <1>5 DEF SupervisorInv

LEMMA NotifyKeeps ==
    ASSUME SupervisorConstants, SupervisorInv, Notify
    PROVE  SupervisorInv'
<1> USE DEF Notify, Sleep, targetVars, worldVars, monitorVars, stopVars, settingVars
<1>1. TypeOK'
  <2>1. told' \in [Followers -> Ids \cup {None}] /\ persisted' \in Settings \cup {None}
    BY DEF SupervisorInv, TypeOK
  <2>2. queued' \in BOOLEAN
    BY DEF SupervisorInv, TypeOK
  <2> QED BY <2>1, <2>2 DEF SupervisorInv, TypeOK
<1>2. Locked'
  BY DEF SupervisorInv, Locked, Recovering
<1>3. Owned'
  BY DEF SupervisorInv, TypeOK, Locked, Recovering, Owned
<1>4. Informed'
  BY DEF SupervisorInv, TypeOK, Informed
<1>5. Persisting'
  BY DEF SupervisorInv, TypeOK, Persisting
<1> QED BY <1>1, <1>2, <1>3, <1>4, <1>5 DEF SupervisorInv

-------------------------------------------------------------------------------
(***************************************************************************)
(* The thread that stops the daemon, and the followers.                    *)
(***************************************************************************)
LEMMA ShutdownKeeps ==
    ASSUME SupervisorConstants, SupervisorInv, Shutdown
    PROVE  SupervisorInv'
<1> USE DEF Shutdown, targetVars, worldVars, monitorVars, stopVars, settingVars
<1>1. TypeOK'
  <2>1. running' \in BOOLEAN
    OBVIOUS
  <2> QED BY <2>1 DEF SupervisorInv, TypeOK
<1>2. Locked'
  BY DEF SupervisorInv, Locked, Recovering
<1>3. Owned'
  BY DEF SupervisorInv, TypeOK, Locked, Recovering, Owned
<1>4. Informed' /\ Persisting'
  BY InformedKept, PersistingKept
<1> QED BY <1>1, <1>2, <1>3, <1>4 DEF SupervisorInv

LEMMA StopperLocksKeeps ==
    ASSUME SupervisorConstants, SupervisorInv, StopperLocks
    PROVE  SupervisorInv'
<1> USE DEF StopperLocks, targetVars, worldVars, monitorVars, stopVars, settingVars
<1>1. TypeOK'
  BY DEF SupervisorConstants, SupervisorInv, TypeOK
<1>2. Locked'
  BY DEF SupervisorInv, Locked, Recovering
<1>3. Owned'
  BY DEF SupervisorInv, TypeOK, Locked, Recovering, Owned
<1>4. Informed' /\ Persisting'
  BY InformedKept, PersistingKept
<1> QED BY <1>1, <1>2, <1>3, <1>4 DEF SupervisorInv

LEMMA StopperTakesKeeps ==
    ASSUME SupervisorConstants, SupervisorInv, StopperTakes
    PROVE  SupervisorInv'
<1> USE DEF StopperTakes, targetVars, worldVars, monitorVars, stopVars, settingVars
<1>1. TypeOK'
  BY DEF SupervisorConstants, SupervisorInv, TypeOK
<1>2. Locked'
  BY DEF SupervisorInv, Locked, Recovering
<1>3. Owned'
  <2>1. CASE target = "local"
    BY <2>1 DEF SupervisorConstants, SupervisorInv, TypeOK, Locked, Recovering, Owned
  <2>2. CASE target = "restarting"
    <3>1. alive = {}
      BY <2>2 DEF SupervisorInv, Locked, Recovering, Owned
    <3> QED BY <2>2, <3>1 DEF SupervisorInv, Locked, Recovering, Owned
  <2> QED BY <2>1, <2>2 DEF SupervisorInv, TypeOK
<1>4. Informed' /\ Persisting'
  BY InformedKept, PersistingKept
<1> QED BY <1>1, <1>2, <1>3, <1>4 DEF SupervisorInv

LEMMA StopperDropsKeeps ==
    ASSUME SupervisorConstants, SupervisorInv, StopperDrops
    PROVE  SupervisorInv'
<1> USE DEF StopperDrops, targetVars, monitorVars, settingVars
<1>1. Locked' /\ Informed' /\ Persisting'
  BY InformedKept, PersistingKept DEF SupervisorInv, Locked, Recovering
<1>2. CASE taken = None
  <2>1. TypeOK'
    BY <1>2 DEF SupervisorInv, TypeOK
  <2>2. Owned'
    BY <1>2 DEF SupervisorInv, Locked, Recovering, Owned
  <2> QED BY <1>1, <2>1, <2>2 DEF SupervisorInv
<1>3. CASE taken # None
  <2>0. taken \in Ids /\ Ends(taken)
    BY <1>3 DEF SupervisorInv, TypeOK
  <2>1. TypeOK'
    BY <2>0, EndsTyped DEF SupervisorInv, TypeOK
  <2>2. Owned'
    BY <2>0 DEF SupervisorInv, Locked, Recovering, Owned, Ends
  <2> QED BY <1>1, <2>1, <2>2 DEF SupervisorInv
<1> QED BY <1>2, <1>3

LEMMA FollowKeeps ==
    ASSUME SupervisorConstants, SupervisorInv, NEW f \in Followers, Follow(f)
    PROVE  SupervisorInv'
<1> USE DEF Follow, targetVars, worldVars, monitorVars, stopVars, settingVars
<1>1. TypeOK'
  BY DEF SupervisorConstants, SupervisorInv, TypeOK
<1>2. Informed'
  BY DEF SupervisorInv, TypeOK, Informed
<1>3. Locked' /\ Owned' /\ Persisting'
  BY LockedKept, OwnedKept, PersistingKept
<1> QED BY <1>1, <1>2, <1>3 DEF SupervisorInv

-------------------------------------------------------------------------------
(***************************************************************************)
(* The settings.                                                           *)
(***************************************************************************)
LEMMA UpdateKeeps ==
    ASSUME SupervisorConstants, SupervisorInv, NEW s \in Settings, Update(s)
    PROVE  SupervisorInv'
<1> USE DEF Update, OtherThanSettings, targetVars, worldVars, monitorVars, stopVars
<1>1. TypeOK'
  BY DEF SupervisorConstants, SupervisorInv, TypeOK
<1>2. Persisting'
  BY DEF SupervisorConstants, SupervisorInv, TypeOK, Persisting
<1>3. Locked' /\ Owned' /\ Informed'
  BY LockedKept, OwnedKept, InformedKept
<1> QED BY <1>1, <1>2, <1>3 DEF SupervisorInv

LEMMA QueueKeeps ==
    ASSUME SupervisorConstants, SupervisorInv, Queue
    PROVE  SupervisorInv'
<1> USE DEF Queue, OtherThanSettings, targetVars, worldVars, monitorVars, stopVars
<1>1. TypeOK'
  BY DEF SupervisorConstants, SupervisorInv, TypeOK
<1>2. Persisting'
  BY DEF SupervisorInv, TypeOK, Persisting
<1>3. Locked' /\ Owned' /\ Informed'
  BY LockedKept, OwnedKept, InformedKept
<1> QED BY <1>1, <1>2, <1>3 DEF SupervisorInv

LEMMA ReceiveKeeps ==
    ASSUME SupervisorConstants, SupervisorInv, Receive
    PROVE  SupervisorInv'
<1> USE DEF Receive, OtherThanSettings, targetVars, worldVars, monitorVars, stopVars
<1>1. TypeOK'
  <2>1. queued' \in BOOLEAN
    OBVIOUS
  <2> QED BY <2>1 DEF SupervisorInv, TypeOK
<1>2. Persisting'
  BY DEF SupervisorInv, TypeOK, Persisting
<1>3. Locked' /\ Owned' /\ Informed'
  BY LockedKept, OwnedKept, InformedKept
<1> QED BY <1>1, <1>2, <1>3 DEF SupervisorInv

LEMMA AskKeeps ==
    ASSUME SupervisorConstants, SupervisorInv, Ask
    PROVE  SupervisorInv'
<1> USE DEF Ask, OtherThanSettings, targetVars, worldVars, monitorVars, stopVars
<1>1. TypeOK'
  BY DEF SupervisorConstants, SupervisorInv, TypeOK
<1>2. Persisting'
  BY DEF SupervisorConstants, SupervisorInv, TypeOK, Persisting
<1>3. Locked' /\ Owned' /\ Informed'
  BY LockedKept, OwnedKept, InformedKept
<1> QED BY <1>1, <1>2, <1>3 DEF SupervisorInv

LEMMA ServeKeeps ==
    ASSUME SupervisorConstants, SupervisorInv, Serve
    PROVE  SupervisorInv'
<1> USE DEF Serve, OtherThanSettings, targetVars, worldVars, monitorVars, stopVars
<1>1. TypeOK'
  BY DEF SupervisorInv, TypeOK, Persisting
<1>2. Persisting'
  BY DEF SupervisorInv, TypeOK, Persisting
<1>3. Locked' /\ Owned' /\ Informed'
  BY LockedKept, OwnedKept, InformedKept
<1> QED BY <1>1, <1>2, <1>3 DEF SupervisorInv

LEMMA RecordKeeps ==
    ASSUME SupervisorConstants, SupervisorInv, Record
    PROVE  SupervisorInv'
<1> USE DEF Record, OtherThanSettings, targetVars, worldVars, monitorVars, stopVars
<1>1. TypeOK'
  BY DEF SupervisorInv, TypeOK, Persisting
<1>2. Persisting'
  BY DEF SupervisorInv, TypeOK, Persisting
<1>3. Locked' /\ Owned' /\ Informed'
  BY LockedKept, OwnedKept, InformedKept
<1> QED BY <1>1, <1>2, <1>3 DEF SupervisorInv

LEMMA AskFailsKeeps ==
    ASSUME SupervisorConstants, SupervisorInv, AskFails
    PROVE  SupervisorInv'
<1> USE DEF AskFails, OtherThanSettings, targetVars, worldVars, monitorVars, stopVars
<1>1. TypeOK'
  BY DEF SupervisorConstants, SupervisorInv, TypeOK
<1>2. Persisting'
  BY DEF SupervisorInv, TypeOK, Persisting
<1>3. Locked' /\ Owned' /\ Informed'
  BY LockedKept, OwnedKept, InformedKept
<1> QED BY <1>1, <1>2, <1>3 DEF SupervisorInv

-------------------------------------------------------------------------------
LEMMA NextKeeps ==
    ASSUME SupervisorConstants, SupervisorInv, [Next]_vars
    PROVE  SupervisorInv'
<1>1. CASE Crash \/ Disconnect
  BY <1>1, CrashKeeps, DisconnectKeeps
<1>2. CASE Monitor
  BY <1>2, WakeKeeps, InspectKeeps, InspectRebuiltKeeps, MonitorLocksKeeps, NothingToRecoverKeeps, ReconnectKeeps, InstallReconnectedKeeps, TakePreviousKeeps, DropPreviousKeeps, SpawnKeeps, SpawnFailsKeeps, InstallSpawnedKeeps, NotifyKeeps DEF Monitor
<1>3. CASE Shutdown \/ Stopper \/ \E f \in Followers : Follow(f)
  BY <1>3, ShutdownKeeps, StopperLocksKeeps, StopperTakesKeeps, StopperDropsKeeps, FollowKeeps DEF Stopper
<1>4. CASE (\E s \in Settings : Update(s)) \/ Writer
  BY <1>4, UpdateKeeps, QueueKeeps, ReceiveKeeps, AskKeeps, ServeKeeps, RecordKeeps, AskFailsKeeps DEF Writer
<1>5. CASE UNCHANGED vars
  BY <1>5 DEF vars, targetVars, worldVars, monitorVars, stopVars, settingVars, SupervisorInv, TypeOK, Locked, Owned, Informed, Persisting
<1> QED BY <1>1, <1>2, <1>3, <1>4, <1>5 DEF Next

\* Locks, processes, clients and settings are where the threads think they are.
THEOREM SupervisorSafety == SupervisorConstants => (Spec => []SupervisorInv)
<1> SUFFICES ASSUME SupervisorConstants PROVE Spec => []SupervisorInv
  OBVIOUS
<1>1. Init => SupervisorInv
  BY InitInv
<1>2. SupervisorInv /\ [Next]_vars => SupervisorInv'
  BY NextKeeps
<1> QED BY <1>1, <1>2, PTL DEF Spec

\* A replacement starts only after the daemon it replaces has ended, whatever
\* faults, rebuilds and shutdowns overlap.
THEOREM OneDaemonAtWork == SupervisorConstants => (Spec => []OneDaemon)
<1> SUFFICES ASSUME SupervisorConstants PROVE Spec => []OneDaemon
  OBVIOUS
<1>1. ASSUME SupervisorInv PROVE OneDaemon
  <2>1. PICK p : alive \subseteq {p}
    BY <1>1 DEF SupervisorInv, Owned
  <2>2. IsFiniteSet({p}) /\ Cardinality({p}) = 1
    BY FS_Singleton
  <2>3. Cardinality(alive) <= Cardinality({p})
    BY <2>1, <2>2, FS_Subset
  <2> QED BY <2>2, <2>3 DEF OneDaemon
<1>2. SupervisorInv => OneDaemon
  BY <1>1
<1> QED BY <1>2, SupervisorSafety, PTL

\* Nobody keeps a client that a recovery has replaced.
THEOREM FollowersAreInformed == SupervisorConstants => (Spec => []Informed)
<1> SUFFICES ASSUME SupervisorConstants PROVE Spec => []Informed
  OBVIOUS
<1>1. SupervisorInv => Informed
  BY DEF SupervisorInv
<1> QED BY <1>1, SupervisorSafety, PTL

\* The daemon has the desired settings when the writer rests, but for the
\* update that `dropped` records.
THEOREM SettingsReachDaemon == SupervisorConstants => (Spec => []SettingsReach)
<1> SUFFICES ASSUME SupervisorConstants PROVE Spec => []SettingsReach
  OBVIOUS
<1>1. SupervisorInv => SettingsReach
  BY DEF SupervisorInv, Persisting, SettingsReach
<1> QED BY <1>1, SupervisorSafety, PTL
===============================================================================
