--------------------------- MODULE OpenCodePoolProofs ---------------------------
(***************************************************************************)
(* Safety of OpenCodePool for every number of threads, binaries and        *)
(* servers: PoolInv is inductive, and the properties of the pool follow.   *)
(***************************************************************************)
EXTENDS OpenCodePool, TLAPS

\* The values of a slot are told apart.
LEMMA SlotValues ==
    /\ \A g, h \in Servers : Running(g) = Running(h) => g = h
    /\ \A g \in Servers : Running(g) \notin {Vacant, Starting, Stopping}
    /\ Vacant # Starting /\ Vacant # Stopping /\ Starting # Stopping
    /\ Vacant \in PoolStates /\ Starting \in PoolStates /\ Stopping \in PoolStates
    /\ \A g \in Servers : Running(g) \in PoolStates
BY DEF Running, Vacant, Starting, Stopping, PoolStates

LEMMA InitInv == Init => PoolInv
<1> SUFFICES ASSUME Init PROVE PoolInv
  OBVIOUS
<1> USE SlotValues, NamesAssumption DEF Init, Actors
<1>1. TypeOK
  BY DEF TypeOK, Steps
<1>2. Located
  BY DEF Located, MainSteps, ThreadSteps, Referring
<1>3. Owned
  BY DEF Owned, Referring
<1>4. OneWorker
  BY DEF OneWorker, Works
<1>5. NoneForgotten
  BY DEF NoneForgotten
<1> QED BY <1>1, <1>2, <1>3, <1>4, <1>5 DEF PoolInv

LEMMA EnterKeeps ==
    ASSUME PoolInv, NEW t \in Threads, NEW b \in Binaries, Enter(t, b)
    PROVE  PoolInv'
<1> USE SlotValues, NamesAssumption DEF PoolInv, Enter, Actors, Alive, BeingStopped, Kept, Notified, Release
<1>1. TypeOK'
  BY DEF TypeOK, Steps, Located
<1>2. Located'
  BY DEF TypeOK, Located, Owned, ThreadSteps, MainSteps, Referring
<1>3. Owned'
  BY DEF TypeOK, Located, Owned, ThreadSteps, MainSteps, Referring, OneWorker, Works
<1>4. OneWorker'
  BY DEF TypeOK, Located, OneWorker, Works, ThreadSteps, MainSteps, Referring
<1>5. NoneForgotten'
  BY DEF TypeOK, Located, Owned, NoneForgotten, Serves, Works, OneWorker, Referring, ThreadSteps, MainSteps
<1> QED BY <1>1, <1>2, <1>3, <1>4, <1>5

LEMMA ShareKeeps ==
    ASSUME PoolInv, NEW t \in Threads, Share(t)
    PROVE  PoolInv'
<1> USE SlotValues, NamesAssumption DEF PoolInv, Share, Actors, Alive, BeingStopped, Kept, Notified, Release
<1>1. TypeOK'
  BY DEF TypeOK, Steps, Located
<1>2. Located'
  BY DEF TypeOK, Located, Owned, ThreadSteps, MainSteps, Referring
<1>3. Owned'
  BY DEF TypeOK, Located, Owned, ThreadSteps, MainSteps, Referring, OneWorker, Works
<1>4. OneWorker'
  BY DEF TypeOK, Located, OneWorker, Works, ThreadSteps, MainSteps, Referring
<1>5. NoneForgotten'
  BY DEF TypeOK, Located, Owned, NoneForgotten, Serves, Works, OneWorker, Referring, ThreadSteps, MainSteps
<1> QED BY <1>1, <1>2, <1>3, <1>4, <1>5

LEMMA SupersedeKeeps ==
    ASSUME PoolInv, NEW t \in Threads, Supersede(t)
    PROVE  PoolInv'
<1> USE SlotValues, NamesAssumption DEF PoolInv, Supersede, Actors, Alive, BeingStopped, Kept, Notified, Release
<1>1. TypeOK'
  BY DEF TypeOK, Steps, Located
<1>2. Located'
  BY DEF TypeOK, Located, Owned, ThreadSteps, MainSteps, Referring
<1>3. Owned'
  BY DEF TypeOK, Located, Owned, ThreadSteps, MainSteps, Referring, OneWorker, Works
<1>4. OneWorker'
  BY DEF TypeOK, Located, OneWorker, Works, ThreadSteps, MainSteps, Referring
<1>5. NoneForgotten'
  BY DEF TypeOK, Located, Owned, NoneForgotten, Serves, Works, OneWorker, Referring, ThreadSteps, MainSteps
<1> QED BY <1>1, <1>2, <1>3, <1>4, <1>5

LEMMA ClaimVacantKeeps ==
    ASSUME PoolInv, NEW t \in Threads, ClaimVacant(t)
    PROVE  PoolInv'
<1> USE SlotValues, NamesAssumption DEF PoolInv, ClaimVacant, Actors, Alive, BeingStopped, Kept, Notified, Release
<1>1. TypeOK'
  BY DEF TypeOK, Steps, Located
<1>2. Located'
  BY DEF TypeOK, Located, Owned, ThreadSteps, MainSteps, Referring
<1>3. Owned'
  BY DEF TypeOK, Located, Owned, ThreadSteps, MainSteps, Referring, OneWorker, Works
<1>4. OneWorker'
  BY DEF TypeOK, Located, OneWorker, Works, ThreadSteps, MainSteps, Referring
<1>5. NoneForgotten'
  BY DEF TypeOK, Located, Owned, NoneForgotten, Serves, Works, OneWorker, Referring, ThreadSteps, MainSteps
<1> QED BY <1>1, <1>2, <1>3, <1>4, <1>5

LEMMA WaitKeeps ==
    ASSUME PoolInv, NEW t \in Actors, Wait(t)
    PROVE  PoolInv'
<1> USE SlotValues, NamesAssumption DEF PoolInv, Wait, Actors, Alive, BeingStopped, Kept, Notified, Release
<1>1. TypeOK'
  BY DEF TypeOK, Steps, Located
<1>2. Located'
  BY DEF TypeOK, Located, Owned, ThreadSteps, MainSteps, Referring
<1>3. Owned'
  BY DEF TypeOK, Located, Owned, ThreadSteps, MainSteps, Referring, OneWorker, Works
<1>4. OneWorker'
  BY DEF TypeOK, Located, OneWorker, Works, ThreadSteps, MainSteps, Referring
<1>5. NoneForgotten'
  BY DEF TypeOK, Located, Owned, NoneForgotten, Serves, Works, OneWorker, Referring, ThreadSteps, MainSteps
<1> QED BY <1>1, <1>2, <1>3, <1>4, <1>5

LEMMA SpawnKeeps ==
    ASSUME PoolInv, NEW t \in Threads, Spawn(t)
    PROVE  PoolInv'
<1> USE SlotValues, NamesAssumption DEF PoolInv, Spawn, Actors, Alive, BeingStopped, Kept, Notified, Release
<1>1. TypeOK'
  BY DEF TypeOK, Steps, Located
<1>2. Located'
  BY DEF TypeOK, Located, Owned, ThreadSteps, MainSteps, Referring
<1>3. Owned'
  BY DEF TypeOK, Located, Owned, ThreadSteps, MainSteps, Referring, OneWorker, Works
<1>4. OneWorker'
  BY DEF TypeOK, Located, OneWorker, Works, ThreadSteps, MainSteps, Referring
<1>5. NoneForgotten'
  BY DEF TypeOK, Located, Owned, NoneForgotten, Serves, Works, OneWorker, Referring, ThreadSteps, MainSteps
<1> QED BY <1>1, <1>2, <1>3, <1>4, <1>5

LEMMA StartSucceedsKeeps ==
    ASSUME PoolInv, NEW t \in Threads, StartSucceeds(t)
    PROVE  PoolInv'
<1> USE SlotValues, NamesAssumption DEF PoolInv, StartSucceeds, Actors, Alive, BeingStopped, Kept, Notified, Release
<1>1. TypeOK'
  <2>1. t \in Actors /\ at[t] \in Binaries /\ ref[t] \in Servers
    BY DEF Located, Referring
  <2>2. pc' \in [Actors -> Steps]
    BY <2>1 DEF TypeOK, Steps
  <2>3. slot' \in [Binaries -> PoolStates]
    BY <2>1 DEF TypeOK
  <2> QED BY <2>2, <2>3 DEF TypeOK
<1>2. Located'
  BY DEF TypeOK, Located, Owned, ThreadSteps, MainSteps, Referring
<1>3. Owned'
  BY DEF TypeOK, Located, Owned, ThreadSteps, MainSteps, Referring, OneWorker, Works
<1>4. OneWorker'
  <2>1. /\ at[t] \in Binaries /\ Works(t, at[t])
        /\ \A q \in Actors : Works(q, at[t]) => q = t
        /\ slot' = [slot EXCEPT ![at[t]] = slot'[at[t]]]
        /\ slot'[at[t]] \notin {Starting, Stopping}
    <3>1. at[t] \in Binaries /\ Works(t, at[t]) /\ ref[t] \in Servers
      BY DEF Works, Located, Referring
    <3>2. \A q \in Actors : Works(q, at[t]) => q = t
      BY <3>1 DEF OneWorker
    <3>3. slot'[at[t]] = Running(ref[t])
      BY <3>1 DEF TypeOK
    <3> QED BY <3>1, <3>2, <3>3
  <2>2. \A q \in Actors, b \in Binaries : Works(q, b)' <=> Works(q, b) /\ q # t
    BY <2>1 DEF Works, TypeOK
  <2>3. \A b \in Binaries : Works(t, b) => b = at[t]
    BY DEF Works
  <2>4. ASSUME NEW b \in Binaries
        PROVE  slot'[b] \in {Starting, Stopping} <=> \E q \in Actors : Works(q, b)'
    <3>1. CASE b = at[t]
      BY <2>1, <2>2, <3>1
    <3>2. CASE b # at[t]
      <4>1. slot'[b] = slot[b]
        BY <2>1, <3>2 DEF TypeOK
      <4> QED BY <2>2, <2>3, <3>2, <4>1 DEF OneWorker
    <3> QED BY <3>1, <3>2
  <2> QED BY <2>2, <2>4 DEF OneWorker
<1>5. NoneForgotten'
  BY DEF TypeOK, Located, Owned, NoneForgotten, Serves, Works, OneWorker, Referring, ThreadSteps, MainSteps
<1> QED BY <1>1, <1>2, <1>3, <1>4, <1>5

LEMMA StartFailsKeeps ==
    ASSUME PoolInv, NEW t \in Threads, StartFails(t)
    PROVE  PoolInv'
<1> USE SlotValues, NamesAssumption DEF PoolInv, StartFails, Actors, Alive, BeingStopped, Kept, Notified, Release
<1>1. TypeOK'
  BY DEF TypeOK, Steps, Located
<1>2. Located'
  BY DEF TypeOK, Located, Owned, ThreadSteps, MainSteps, Referring
<1>3. Owned'
  BY DEF TypeOK, Located, Owned, ThreadSteps, MainSteps, Referring, OneWorker, Works
<1>4. OneWorker'
  <2>1. /\ at[t] \in Binaries /\ Works(t, at[t])
        /\ \A q \in Actors : Works(q, at[t]) => q = t
        /\ slot' = [slot EXCEPT ![at[t]] = slot'[at[t]]]
        /\ slot'[at[t]] \notin {Starting, Stopping}
    BY DEF Works, OneWorker, Located, TypeOK
  <2>2. \A q \in Actors, b \in Binaries : Works(q, b)' <=> Works(q, b) /\ q # t
    BY <2>1 DEF Works, TypeOK
  <2>3. \A b \in Binaries : Works(t, b) => b = at[t]
    BY DEF Works
  <2>4. ASSUME NEW b \in Binaries
        PROVE  slot'[b] \in {Starting, Stopping} <=> \E q \in Actors : Works(q, b)'
    <3>1. CASE b = at[t]
      BY <2>1, <2>2, <3>1
    <3>2. CASE b # at[t]
      <4>1. slot'[b] = slot[b]
        BY <2>1, <3>2 DEF TypeOK
      <4> QED BY <2>2, <2>3, <3>2, <4>1 DEF OneWorker
    <3> QED BY <3>1, <3>2
  <2> QED BY <2>2, <2>4 DEF OneWorker
<1>5. NoneForgotten'
  <2> SUFFICES ASSUME NEW g \in Servers, proc'[g] = "up"
               PROVE  \E b \in Binaries : Serves(g, b)'
    BY DEF NoneForgotten
  <2>1. proc[g] = "up" /\ ref[t] # g
    BY DEF TypeOK, Located, Referring
  <2>2. PICK b \in Binaries : Serves(g, b)
    BY <2>1 DEF NoneForgotten
  <2>3. at[t] \in Binaries /\ slot[at[t]] \in {Starting, Stopping}
    <3>1. at[t] \in Binaries /\ Works(t, at[t])
      BY DEF Located, Works
    <3> QED BY <3>1 DEF OneWorker
  <2>4. CASE slot[b] = Running(g)
    BY <2>3, <2>4 DEF Serves, TypeOK
  <2>5. CASE \E q \in Actors : Works(q, b) /\ ref[q] = g
    BY <2>1, <2>5 DEF Serves, Works, TypeOK
  <2> QED BY <2>2, <2>4, <2>5 DEF Serves
<1> QED BY <1>1, <1>2, <1>3, <1>4, <1>5

LEMMA UpgradeKeeps ==
    ASSUME PoolInv, NEW t \in Threads, NEW g \in Servers, Upgrade(t, g)
    PROVE  PoolInv'
<1> USE SlotValues, NamesAssumption DEF PoolInv, Upgrade, Actors, Alive, BeingStopped, Kept, Notified, Release
<1>1. TypeOK'
  BY DEF TypeOK, Steps, Located
<1>2. Located'
  BY DEF TypeOK, Located, Owned, ThreadSteps, MainSteps, Referring
<1>3. Owned'
  BY DEF TypeOK, Located, Owned, ThreadSteps, MainSteps, Referring, OneWorker, Works
<1>4. OneWorker'
  BY DEF TypeOK, Located, OneWorker, Works, ThreadSteps, MainSteps, Referring
<1>5. NoneForgotten'
  BY DEF TypeOK, Located, Owned, NoneForgotten, Serves, Works, OneWorker, Referring, ThreadSteps, MainSteps
<1> QED BY <1>1, <1>2, <1>3, <1>4, <1>5

LEMMA DropHandleKeeps ==
    ASSUME PoolInv, NEW t \in Threads, DropHandle(t)
    PROVE  PoolInv'
<1> USE SlotValues, NamesAssumption DEF PoolInv, DropHandle, Actors, Alive, BeingStopped, Kept, Notified, Release
<1>1. TypeOK'
  BY DEF TypeOK, Steps, Located
<1>2. Located'
  BY DEF TypeOK, Located, Owned, ThreadSteps, MainSteps, Referring
<1>3. Owned'
  BY DEF TypeOK, Located, Owned, ThreadSteps, MainSteps, Referring, OneWorker, Works
<1>4. OneWorker'
  BY DEF TypeOK, Located, OneWorker, Works, ThreadSteps, MainSteps, Referring
<1>5. NoneForgotten'
  BY DEF TypeOK, Located, Owned, NoneForgotten, Serves, Works, OneWorker, Referring, ThreadSteps, MainSteps
<1> QED BY <1>1, <1>2, <1>3, <1>4, <1>5

LEMMA DropSupersededKeeps ==
    ASSUME PoolInv, NEW t \in Threads, DropSuperseded(t)
    PROVE  PoolInv'
<1> USE SlotValues, NamesAssumption DEF PoolInv, DropSuperseded, Actors, Alive, BeingStopped, Kept, Notified, Release
<1>1. TypeOK'
  BY DEF TypeOK, Steps, Located
<1>2. Located'
  BY DEF TypeOK, Located, Owned, ThreadSteps, MainSteps, Referring
<1>3. Owned'
  BY DEF TypeOK, Located, Owned, ThreadSteps, MainSteps, Referring, OneWorker, Works
<1>4. OneWorker'
  BY DEF TypeOK, Located, OneWorker, Works, ThreadSteps, MainSteps, Referring
<1>5. NoneForgotten'
  BY DEF TypeOK, Located, Owned, NoneForgotten, Serves, Works, OneWorker, Referring, ThreadSteps, MainSteps
<1> QED BY <1>1, <1>2, <1>3, <1>4, <1>5

LEMMA ShutdownKeeps ==
    ASSUME PoolInv, Shutdown
    PROVE  PoolInv'
<1> USE SlotValues, NamesAssumption DEF PoolInv, Shutdown, Actors, Alive, BeingStopped, Kept, Notified, Release
<1>1. TypeOK'
  BY DEF TypeOK, Steps, Located
<1>2. Located'
  BY DEF TypeOK, Located, Owned, ThreadSteps, MainSteps, Referring
<1>3. Owned'
  BY DEF TypeOK, Located, Owned, ThreadSteps, MainSteps, Referring, OneWorker, Works
<1>4. OneWorker'
  BY DEF TypeOK, Located, OneWorker, Works, ThreadSteps, MainSteps, Referring
<1>5. NoneForgotten'
  BY DEF TypeOK, Located, Owned, NoneForgotten, Serves, Works, OneWorker, Referring, ThreadSteps, MainSteps
<1> QED BY <1>1, <1>2, <1>3, <1>4, <1>5

LEMMA VisitSlotKeeps ==
    ASSUME PoolInv, NEW b \in Binaries, VisitSlot(b)
    PROVE  PoolInv'
<1> USE SlotValues, NamesAssumption DEF PoolInv, VisitSlot, Actors, Alive, BeingStopped, Kept, Notified, Release
<1>1. TypeOK'
  BY DEF TypeOK, Steps, Located
<1>2. Located'
  BY DEF TypeOK, Located, Owned, ThreadSteps, MainSteps, Referring
<1>3. Owned'
  BY DEF TypeOK, Located, Owned, ThreadSteps, MainSteps, Referring, OneWorker, Works
<1>4. OneWorker'
  BY DEF TypeOK, Located, OneWorker, Works, ThreadSteps, MainSteps, Referring
<1>5. NoneForgotten'
  BY DEF TypeOK, Located, Owned, NoneForgotten, Serves, Works, OneWorker, Referring, ThreadSteps, MainSteps
<1> QED BY <1>1, <1>2, <1>3, <1>4, <1>5

LEMMA SkipVacantKeeps ==
    ASSUME PoolInv, SkipVacant
    PROVE  PoolInv'
<1> USE SlotValues, NamesAssumption DEF PoolInv, SkipVacant, Actors, Alive, BeingStopped, Kept, Notified, Release
<1>1. TypeOK'
  BY DEF TypeOK, Steps, Located
<1>2. Located'
  BY DEF TypeOK, Located, Owned, ThreadSteps, MainSteps, Referring
<1>3. Owned'
  BY DEF TypeOK, Located, Owned, ThreadSteps, MainSteps, Referring, OneWorker, Works
<1>4. OneWorker'
  BY DEF TypeOK, Located, OneWorker, Works, ThreadSteps, MainSteps, Referring
<1>5. NoneForgotten'
  BY DEF TypeOK, Located, Owned, NoneForgotten, Serves, Works, OneWorker, Referring, ThreadSteps, MainSteps
<1> QED BY <1>1, <1>2, <1>3, <1>4, <1>5

LEMMA StopRunningKeeps ==
    ASSUME PoolInv, StopRunning
    PROVE  PoolInv'
<1> USE SlotValues, NamesAssumption DEF PoolInv, StopRunning, Actors, Alive, BeingStopped, Kept, Notified, Release
<1>1. TypeOK'
  BY DEF TypeOK, Steps, Located
<1>2. Located'
  BY DEF TypeOK, Located, Owned, ThreadSteps, MainSteps, Referring
<1>3. Owned'
  BY DEF TypeOK, Located, Owned, ThreadSteps, MainSteps, Referring, OneWorker, Works
<1>4. OneWorker'
  BY DEF TypeOK, Located, OneWorker, Works, ThreadSteps, MainSteps, Referring
<1>5. NoneForgotten'
  BY DEF TypeOK, Located, Owned, NoneForgotten, Serves, Works, OneWorker, Referring, ThreadSteps, MainSteps
<1> QED BY <1>1, <1>2, <1>3, <1>4, <1>5

LEMMA StoppedKeeps ==
    ASSUME PoolInv, Stopped
    PROVE  PoolInv'
<1> USE SlotValues, NamesAssumption DEF PoolInv, Stopped, Actors, Alive, BeingStopped, Kept, Notified, Release
<1>1. TypeOK'
  BY DEF TypeOK, Steps, Located
<1>2. Located'
  BY DEF TypeOK, Located, Owned, ThreadSteps, MainSteps, Referring
<1>3. Owned'
  BY DEF TypeOK, Located, Owned, ThreadSteps, MainSteps, Referring, OneWorker, Works
<1>4. OneWorker'
  <2>1. /\ at[Main] \in Binaries /\ Works(Main, at[Main])
        /\ \A q \in Actors : Works(q, at[Main]) => q = Main
        /\ slot' = [slot EXCEPT ![at[Main]] = slot'[at[Main]]]
        /\ slot'[at[Main]] \notin {Starting, Stopping}
    BY DEF Works, OneWorker, Located, TypeOK
  <2>2. \A q \in Actors, b \in Binaries : Works(q, b)' <=> Works(q, b) /\ q # Main
    BY <2>1 DEF Works, TypeOK
  <2>3. \A b \in Binaries : Works(Main, b) => b = at[Main]
    BY DEF Works
  <2>4. ASSUME NEW b \in Binaries
        PROVE  slot'[b] \in {Starting, Stopping} <=> \E q \in Actors : Works(q, b)'
    <3>1. CASE b = at[Main]
      BY <2>1, <2>2, <3>1
    <3>2. CASE b # at[Main]
      <4>1. slot'[b] = slot[b]
        BY <2>1, <3>2 DEF TypeOK
      <4> QED BY <2>2, <2>3, <3>2, <4>1 DEF OneWorker
    <3> QED BY <3>1, <3>2
  <2> QED BY <2>2, <2>4 DEF OneWorker
<1>5. NoneForgotten'
  BY DEF TypeOK, Located, Owned, NoneForgotten, Serves, Works, OneWorker, Referring, ThreadSteps, MainSteps
<1> QED BY <1>1, <1>2, <1>3, <1>4, <1>5

LEMMA ShutdownReturnsKeeps ==
    ASSUME PoolInv, ShutdownReturns
    PROVE  PoolInv'
<1> USE SlotValues, NamesAssumption DEF PoolInv, ShutdownReturns, Actors, Alive, BeingStopped, Kept, Notified, Release
<1>1. TypeOK'
  BY DEF TypeOK, Steps, Located
<1>2. Located'
  BY DEF TypeOK, Located, Owned, ThreadSteps, MainSteps, Referring
<1>3. Owned'
  BY DEF TypeOK, Located, Owned, ThreadSteps, MainSteps, Referring, OneWorker, Works
<1>4. OneWorker'
  BY DEF TypeOK, Located, OneWorker, Works, ThreadSteps, MainSteps, Referring
<1>5. NoneForgotten'
  BY DEF TypeOK, Located, Owned, NoneForgotten, Serves, Works, OneWorker, Referring, ThreadSteps, MainSteps
<1> QED BY <1>1, <1>2, <1>3, <1>4, <1>5

LEMMA ProcessExitsKeeps ==
    ASSUME PoolInv, ProcessExits
    PROVE  PoolInv'
<1> USE SlotValues, NamesAssumption DEF PoolInv, ProcessExits, Actors, Alive, BeingStopped, Kept, Notified, Release
<1>1. TypeOK'
  BY DEF TypeOK, Steps, Located
<1>2. Located'
  BY DEF TypeOK, Located, Owned, ThreadSteps, MainSteps, Referring
<1>3. Owned'
  BY DEF TypeOK, Located, Owned, ThreadSteps, MainSteps, Referring, OneWorker, Works
<1>4. OneWorker'
  BY DEF TypeOK, Located, OneWorker, Works, ThreadSteps, MainSteps, Referring
<1>5. NoneForgotten'
  BY DEF TypeOK, Located, Owned, NoneForgotten, Serves, Works, OneWorker, Referring, ThreadSteps, MainSteps
<1> QED BY <1>1, <1>2, <1>3, <1>4, <1>5

LEMMA ServerExitsKeeps ==
    ASSUME PoolInv, NEW g \in Servers, ServerExits(g)
    PROVE  PoolInv'
<1> USE SlotValues, NamesAssumption DEF PoolInv, ServerExits, Actors, Alive, BeingStopped, Kept, Notified, Release
<1>1. TypeOK'
  BY DEF TypeOK, Steps, Located
<1>2. Located'
  BY DEF TypeOK, Located, Owned, ThreadSteps, MainSteps, Referring
<1>3. Owned'
  BY DEF TypeOK, Located, Owned, ThreadSteps, MainSteps, Referring, OneWorker, Works
<1>4. OneWorker'
  BY DEF TypeOK, Located, OneWorker, Works, ThreadSteps, MainSteps, Referring
<1>5. NoneForgotten'
  BY DEF TypeOK, Located, Owned, NoneForgotten, Serves, Works, OneWorker, Referring, ThreadSteps, MainSteps
<1> QED BY <1>1, <1>2, <1>3, <1>4, <1>5

LEMMA OverdueKeeps ==
    ASSUME PoolInv, NEW g \in Servers, Overdue(g)
    PROVE  PoolInv'
<1> USE SlotValues, NamesAssumption DEF PoolInv, Overdue, Actors, Alive, BeingStopped, Kept, Notified, Release
<1>1. TypeOK'
  BY DEF TypeOK, Steps, Located
<1>2. Located'
  BY DEF TypeOK, Located, Owned, ThreadSteps, MainSteps, Referring
<1>3. Owned'
  BY DEF TypeOK, Located, Owned, ThreadSteps, MainSteps, Referring, OneWorker, Works
<1>4. OneWorker'
  BY DEF TypeOK, Located, OneWorker, Works, ThreadSteps, MainSteps, Referring
<1>5. NoneForgotten'
  BY DEF TypeOK, Located, Owned, NoneForgotten, Serves, Works, OneWorker, Referring, ThreadSteps, MainSteps
<1> QED BY <1>1, <1>2, <1>3, <1>4, <1>5

LEMMA StutterKeeps == ASSUME PoolInv, UNCHANGED vars PROVE PoolInv'
BY DEF vars, PoolInv, TypeOK, Located, Owned, OneWorker, NoneForgotten, Works, Serves

LEMMA StepInv == PoolInv /\ [Next]_vars => PoolInv'
<1> SUFFICES ASSUME PoolInv, [Next]_vars PROVE PoolInv'
  OBVIOUS
<1>1. ASSUME NEW t \in Threads, Acquire(t) PROVE PoolInv'
  BY <1>1, ShareKeeps, SupersedeKeeps, DropSupersededKeeps, ClaimVacantKeeps, WaitKeeps,
     SpawnKeeps, StartSucceedsKeeps, StartFailsKeeps DEF Acquire, Actors
<1>2. CASE ShutdownAll
  BY <1>2, VisitSlotKeeps, WaitKeeps, SkipVacantKeeps, StopRunningKeeps, StoppedKeeps,
     ShutdownReturnsKeeps DEF ShutdownAll, Actors
<1>3. ASSUME NEW g \in Servers, ServerExits(g) \/ KillTree(g) \/ Overdue(g) PROVE PoolInv'
  BY <1>3, ServerExitsKeeps, OverdueKeeps DEF KillTree
<1>4. CASE UNCHANGED vars \/ Halted
  BY <1>4, StutterKeeps DEF Halted
<1> QED
  BY <1>1, <1>2, <1>3, <1>4, EnterKeeps, DropHandleKeeps, UpgradeKeeps, ShutdownKeeps,
     ProcessExitsKeeps DEF Next

\* PoolInv holds of every reachable state of the pool.
THEOREM Safe == Spec => []PoolInv
BY InitInv, StepInv, PTL DEF Spec

\* A binary never has two servers up, whatever starts, exits, fails or stops.
THEOREM ServesOne == Spec => []OneServer
<1>1. PoolInv => OneServer
  <2> SUFFICES ASSUME PoolInv, NEW g \in Servers, NEW h \in Servers, NEW b \in Binaries,
                      Serves(g, b), Serves(h, b)
               PROVE  g = h
    BY DEF OneServer
  <2>1. \A p \in Actors : Works(p, b) => slot[b] \notin {Running(g), Running(h)}
    BY SlotValues DEF PoolInv, OneWorker
  <2>2. \A p, q \in Actors : Works(p, b) /\ Works(q, b) => p = q
    BY DEF PoolInv, OneWorker
  <2> QED BY <2>1, <2>2, SlotValues DEF Serves
<1> QED BY <1>1, Safe, PTL

\* Every server that is up can still be found and stopped by the pool.
THEOREM ForgetsNone == Spec => []NoneForgotten
BY Safe, PTL DEF PoolInv

\* A slot under way has exactly one thread at work on it.
THEOREM WorksAlone == Spec => []OneWorker
BY Safe, PTL DEF PoolInv

\* Dropping a handle or a superseded generation never stops a live server.
THEOREM DropsAreHarmless == Spec => []HandlesStopNothing
<1>1. PoolInv => HandlesStopNothing
  <2> SUFFICES ASSUME PoolInv, NEW t \in Threads,
                      pc[t] \in {"holding", "superseding"}, ~Kept(t, ref[t]),
                      proc[ref[t]] # "exited"
               PROVE  FALSE
    BY DEF HandlesStopNothing
  <2>1. t \in Actors /\ ref[t] \in Servers /\ proc[ref[t]] = "up"
    BY DEF PoolInv, Located, Referring, TypeOK, Actors
  <2>2. PICK b \in Binaries : Serves(ref[t], b)
    BY <2>1 DEF PoolInv, NoneForgotten
  <2>3. PICK q \in Actors : Works(q, b) /\ ref[q] = ref[t]
    BY <2>2 DEF Serves, Kept
  <2>4. pc[q] \in {"superseding", "probing", "stopping"}
    BY <2>1, <2>3, NamesAssumption DEF Works, PoolInv, Located, Referring
  <2> QED BY <2>1, <2>3, <2>4 DEF PoolInv, Located, Owned, Referring, Kept
<1> QED BY <1>1, Safe, PTL

===============================================================================
