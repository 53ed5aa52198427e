------------------------- MODULE ScheduledTasksProofs -------------------------
(***************************************************************************)
(* Safety of ScheduledTasks for any number of tasks and schedules, windows *)
(* of any size, and any number of edits, restarts and clock changes.       *)
(***************************************************************************)
EXTENDS ScheduledTasks, FiniteSetTheorems, TLAPS

-------------------------------------------------------------------------------
(***************************************************************************)
(* Occurrences and due times.                                              *)
(***************************************************************************)
LEMMA OccurrencePair ==
    ASSUME NEW o \in Occurrences
    PROVE  o[1] \in Tasks /\ o[2] \in Nat /\ o # None
BY ScheduleAssumption, NoOccurrenceAssumption DEF Occurrences

LEMMA SamePair ==
    ASSUME NEW o \in Occurrences, NEW p \in Occurrences, o[1] = p[1], o[2] = p[2]
    PROVE  o = p
BY DEF Occurrences

LEMMA FiniteOccurrences == IsFiniteSet(Occurrences)
<1>1. IsFiniteSet(1..MaxRuns)
  BY FS_Interval, ScheduleAssumption
<1>2. IsFiniteSet(Tasks)
  BY ScheduleAssumption
<1> QED BY <1>1, <1>2, FS_Product DEF Occurrences

\* A next due time lies in the future.
LEMMA NextDueLater ==
    ASSUME NEW s \in Schedules, NEW after \in Nat
    PROVE  /\ NextDue(s, after) \in Nat
           /\ HasNext(s, after) => after < NextDue(s, after)
<1>1. s.at \in Nat \ {0} /\ s.kind \in {"Every", "AtTime", "Once"}
  BY ScheduleAssumption
<1>2. after % Day \in 0..(Day - 1) /\ after % Day <= after
  <2>1. Day \in Nat \ {0}
    BY ScheduleAssumption
  <2>2. after % Day \in 0..(Day - 1)
    BY <2>1
  <2>3. CASE after < Day
    BY <2>1, <2>3
  <2>4. CASE after >= Day
    BY <2>1, <2>2, <2>4
  <2> QED BY <2>1, <2>2, <2>3, <2>4
<1> QED BY <1>1, <1>2, ScheduleAssumption DEF NextDue, HasNext, IsOnce

\* What the ticker has in hand is an occurrence.
LEMMA CurrentOccurrence ==
    ASSUME TasksInv, step \in {"admit", "settle"} \/ Held
    PROVE  current \in Occurrences /\ current[1] \in Tasks
<1>1. current \in Occurrences
  BY DEF TasksInv, TypeOK, InHand
<1> QED BY <1>1, OccurrencePair

-------------------------------------------------------------------------------
(***************************************************************************)
(* Parts of the invariant whose variables a step leaves alone.             *)
(***************************************************************************)
LEMMA HandKept ==
    ASSUME TasksInv, UNCHANGED <<step, current, verdict, state, receipt>>
    PROVE  InHand'
BY DEF TasksInv, InHand, Held, Submitted, Unsent

LEMMA WindowKept ==
    ASSUME TasksInv, UNCHANGED <<queue, total, step, current, receipt, state>>
    PROVE  InWindow'
BY DEF TasksInv, InWindow, Held, Submitted

LEMMA OpenKept ==
    ASSUME TasksInv, UNCHANGED state
    PROVE  OneOpen'
BY DEF TasksInv, OneOpen, Open, IsOpen

LEMMA SubmissionsKept ==
    ASSUME TasksInv, UNCHANGED <<state, receipt, row, manual, input, told>>
    PROVE  Submissions'
BY DEF TasksInv, Submissions, Submitted, Unsent

LEMMA EachKept ==
    ASSUME TasksInv, UNCHANGED <<state, receipt, manual, dueAt>>
    PROVE  OneEach'
BY DEF TasksInv, OneEach, Kept, Submitted

\* The clock, the tasks and the rows stand still; the ticker may move on, and
\* may look at the clock again.
LEMMA TimelyKept ==
    ASSUME TasksInv, UNCHANGED <<now, setBacks, row, due, state, manual, dueAt>>,
           \/ read' = now
           \/ read' = read /\ step # "idle"
           \/ read' = read /\ step' = "idle"
           \/ read' = 0 /\ step' = "idle"
    PROVE  Timely'
BY DEF TasksInv, TypeOK, Timely, Automatic

\* Rest leaves no window behind.
LEMMA AtRest ==
    ASSUME TasksInv, Rest
    PROVE  InHand' /\ InWindow'
BY DEF TasksInv, Rest, InHand, InWindow, Held

-------------------------------------------------------------------------------
LEMMA InitInv == Init => TasksInv
<1> SUFFICES ASSUME Init PROVE TasksInv
  OBVIOUS
<1>1. TypeOK
  <2>1. now \in Nat /\ read \in Nat /\ cursor \in Nat /\ total \in Nat /\ working \in Nat
        /\ edits \in Nat /\ restarts \in Nat /\ setBacks \in Nat
    BY DEF Init
  <2>2. due \in [Tasks -> Nat]
    BY NextDueLater DEF Init
  <2>3. queue \in Seq(Occurrences)
    BY DEF Init
  <2> QED BY <2>1, <2>2, <2>3 DEF Init, TypeOK, Receipts, Steps, Outcomes
<1>2. InHand /\ InWindow
  BY DEF Init, InHand, InWindow, Held
<1>3. OneOpen /\ Submissions /\ OneEach /\ Timely
  BY OccurrencePair DEF Init, OneOpen, Open, IsOpen, Submissions, Submitted, Unsent, OneEach, Kept,
     Timely, Automatic
<1> QED BY <1>1, <1>2, <1>3 DEF TasksInv

-------------------------------------------------------------------------------
(***************************************************************************)
(* Commands of users.                                                      *)
(***************************************************************************)
LEMMA CreateKeeps ==
    ASSUME TasksInv, NEW t \in Tasks, NEW s \in Schedules, NEW on \in BOOLEAN, Create(t, s, on)
    PROVE  TasksInv'
<1> USE DEF Create, Edit, occVars, subVars, runVars, windowVars
<1>a. now \in Nat /\ NextDue(s, now) \in Nat /\ (HasNext(s, now) => now < NextDue(s, now))
  BY NextDueLater DEF TasksInv, TypeOK
<1>1. TypeOK'
  BY <1>a DEF TasksInv, TypeOK
<1>2. InHand'
  BY HandKept
<1>3. InWindow'
  BY WindowKept
<1>4. OneOpen'
  BY OpenKept
<1>5. Submissions'
  BY OccurrencePair DEF TasksInv, TypeOK, Submissions, Submitted, Unsent
<1>6. OneEach'
  BY EachKept
<1>7. Timely'
  BY OccurrencePair DEF TasksInv, TypeOK, Submissions, Timely, Automatic
<1> QED BY <1>1, <1>2, <1>3, <1>4, <1>5, <1>6, <1>7 DEF TasksInv

LEMMA UpdateKeeps ==
    ASSUME TasksInv, NEW t \in Tasks, NEW s \in Schedules, NEW on \in BOOLEAN, Update(t, s, on)
    PROVE  TasksInv'
<1> USE DEF Update, Edit, Exists, subVars, runVars, windowVars
<1>a. now \in Nat /\ NextDue(s, now) \in Nat /\ (HasNext(s, now) => now < NextDue(s, now))
  BY NextDueLater DEF TasksInv, TypeOK
<1>1. TypeOK'
  BY <1>a DEF TasksInv, TypeOK
<1>2. InHand'
  BY <1>a DEF TasksInv, TypeOK, InHand, Held, Submitted, Unsent
<1>3. InWindow'
  BY <1>a DEF TasksInv, TypeOK, InWindow, Held, Submitted
<1>4. OneOpen'
  BY <1>a DEF TasksInv, TypeOK, OneOpen, Open, IsOpen
<1>5. Submissions'
  BY OccurrencePair DEF TasksInv, TypeOK, Submissions, Submitted, Unsent
<1>6. OneEach'
  BY <1>a DEF TasksInv, TypeOK, OneEach, Kept, Submitted
<1>7. Timely'
  BY <1>a, OccurrencePair DEF TasksInv, TypeOK, Timely, Automatic
<1> QED BY <1>1, <1>2, <1>3, <1>4, <1>5, <1>6, <1>7 DEF TasksInv

LEMMA DeleteKeeps ==
    ASSUME TasksInv, NEW t \in Tasks, Delete(t)
    PROVE  TasksInv'
<1> USE DEF Delete, Edit, Exists, subVars, runVars, windowVars
<1>1. TypeOK'
  BY DEF TasksInv, TypeOK
<1>2. InHand'
  BY DEF TasksInv, TypeOK, InHand, Held, Submitted, Unsent
<1>3. InWindow'
  BY DEF TasksInv, TypeOK, InWindow, Held, Submitted
<1>4. OneOpen'
  BY DEF TasksInv, TypeOK, OneOpen, Open, IsOpen
<1>5. Submissions'
  BY OccurrencePair DEF TasksInv, TypeOK, Submissions, Submitted, Unsent
<1>6. OneEach'
  BY DEF TasksInv, TypeOK, OneEach, Kept, Submitted
<1>7. Timely'
  BY OccurrencePair DEF TasksInv, TypeOK, Timely, Automatic
<1> QED BY <1>1, <1>2, <1>3, <1>4, <1>5, <1>6, <1>7 DEF TasksInv

LEMMA RunNowKeeps ==
    ASSUME TasksInv, NEW t \in Tasks, RunNow(t)
    PROVE  TasksInv'
<1> PICK o \in Occurrences :
        /\ Edit
        /\ o[1] = t /\ IsNext(o)
        /\ Exists(t) /\ Insertable(t, now, TRUE)
        /\ state' = [state EXCEPT ![o] = "queued"]
        /\ dueAt' = [dueAt EXCEPT ![o] = now]
        /\ manual' = [manual EXCEPT ![o] = TRUE]
        /\ fixed' = [fixed EXCEPT ![o] = schedule[t].kind # "Every"]
        /\ UNCHANGED <<now, taskVars, told, subVars, runVars>>
  BY DEF RunNow
<1>0. state[o] = "unused"
  BY DEF IsNext
<1> USE DEF Edit, taskVars, subVars, runVars, windowVars
<1>1. TypeOK'
  BY DEF TasksInv, TypeOK
<1>2. InHand'
  BY <1>0 DEF TasksInv, TypeOK, InHand, Held, Submitted, Unsent
<1>3. InWindow'
  BY <1>0 DEF TasksInv, TypeOK, InWindow, Held, Submitted
<1>4. OneOpen'
  BY DEF TasksInv, TypeOK, OneOpen, Open, IsOpen, Insertable, HasOpen
<1>5. Submissions'
  BY <1>0 DEF TasksInv, TypeOK, Submissions, Submitted, Unsent, Exists
<1>6. OneEach'
  BY DEF TasksInv, TypeOK, OneEach, Kept, Submitted
<1>7. Timely'
  BY DEF TasksInv, TypeOK, Timely, Automatic
<1> QED BY <1>1, <1>2, <1>3, <1>4, <1>5, <1>6, <1>7 DEF TasksInv

-------------------------------------------------------------------------------
(***************************************************************************)
(* The ticker: reconcile and claim.                                        *)
(***************************************************************************)
LEMMA TickKeeps ==
    ASSUME TasksInv, Tick
    PROVE  TasksInv'
<1> USE DEF Tick, taskVars, occVars, subVars, windowVars, daemonVars, boundVars
<1>1. TypeOK'
  BY DEF TasksInv, TypeOK, Open, Steps
<1>2. InHand'
  BY DEF TasksInv, TypeOK, InHand, Held, Submitted, Unsent
<1>3. InWindow'
  BY DEF TasksInv, TypeOK, InWindow, Held, Submitted
<1>4. OneOpen'
  BY OpenKept
<1>5. Submissions'
  BY SubmissionsKept
<1>6. OneEach'
  BY EachKept
<1>7. Timely'
  BY TimelyKept
<1> QED BY <1>1, <1>2, <1>3, <1>4, <1>5, <1>6, <1>7 DEF TasksInv

LEMMA TickBlindKeeps ==
    ASSUME TasksInv, TickBlind
    PROVE  TasksInv'
<1> USE DEF TickBlind, taskVars, occVars, subVars, windowVars, daemonVars, boundVars
<1>1. TypeOK'
  BY DEF TasksInv, TypeOK, Steps
<1>2. InHand'
  BY DEF TasksInv, TypeOK, InHand, Held, Submitted, Unsent
<1>3. InWindow'
  BY DEF TasksInv, TypeOK, InWindow, Held, Submitted
<1>4. OneOpen'
  BY OpenKept
<1>5. Submissions'
  BY SubmissionsKept
<1>6. OneEach'
  BY EachKept
<1>7. Timely'
  BY TimelyKept
<1> QED BY <1>1, <1>2, <1>3, <1>4, <1>5, <1>6, <1>7 DEF TasksInv

LEMMA ReconcileKeepsKeeps ==
    ASSUME TasksInv, NEW o \in Occurrences, ReconcileKeeps(o)
    PROVE  TasksInv'
<1> USE DEF ReconcileKeeps, Reconciling, taskVars, occVars, subVars, windowVars, daemonVars, boundVars
<1>1. TypeOK'
  BY DEF TasksInv, TypeOK
<1>2. InHand'
  BY HandKept
<1>3. InWindow'
  BY WindowKept
<1>4. OneOpen'
  BY OpenKept
<1>5. Submissions'
  BY SubmissionsKept
<1>6. OneEach'
  BY EachKept
<1>7. Timely'
  BY DEF TasksInv, Timely, Automatic
<1> QED BY <1>1, <1>2, <1>3, <1>4, <1>5, <1>6, <1>7 DEF TasksInv

LEMMA ReconcileCancelsKeeps ==
    ASSUME TasksInv, NEW o \in Occurrences, ReconcileCancels(o)
    PROVE  TasksInv'
<1> USE DEF ReconcileCancels, Reconciling, Conclude, taskVars, occVars, subVars, windowVars, daemonVars, boundVars
<1>1. TypeOK'
  BY DEF TasksInv, TypeOK, Steps, Outcomes
<1>2. InHand'
  BY OccurrencePair DEF TasksInv, TypeOK, InHand, Held, Submissions, Submitted, Unsent
<1>3. InWindow'
  BY DEF TasksInv, TypeOK, InWindow, Held, Submitted
<1>4. OneOpen'
  BY OpenKept
<1>5. Submissions'
  BY SubmissionsKept
<1>6. OneEach'
  BY EachKept
<1>7. Timely'
  BY TimelyKept
<1> QED BY <1>1, <1>2, <1>3, <1>4, <1>5, <1>6, <1>7 DEF TasksInv

LEMMA ReconcileResolvesKeeps ==
    ASSUME TasksInv, NEW o \in Occurrences, ReconcileResolves(o)
    PROVE  TasksInv'
<1> USE DEF ReconcileResolves, Reconciling, Conclude, taskVars, occVars, subVars, windowVars, daemonVars, boundVars
<1>1. TypeOK'
  BY DEF TasksInv, TypeOK, Steps, Outcomes, Verdict
<1>2. InHand'
  BY OccurrencePair DEF TasksInv, TypeOK, InHand, Held, Submitted, Unsent, Verdict
<1>3. InWindow'
  BY DEF TasksInv, TypeOK, InWindow, Held, Submitted
<1>4. OneOpen'
  BY OpenKept
<1>5. Submissions'
  BY DEF TasksInv, TypeOK, Submissions, Submitted, Unsent
<1>6. OneEach'
  BY DEF TasksInv, TypeOK, OneEach, Kept, Submitted
<1>7. Timely'
  BY TimelyKept
<1> QED BY <1>1, <1>2, <1>3, <1>4, <1>5, <1>6, <1>7 DEF TasksInv

LEMMA ReconcileDoneKeeps ==
    ASSUME TasksInv, ReconcileDone
    PROVE  TasksInv'
<1> USE DEF ReconcileDone, Rest, taskVars, occVars, subVars, windowVars, daemonVars, boundVars
<1>1. TypeOK'
  <2>1. CASE booted /\ ~stopping
    BY <2>1 DEF TasksInv, TypeOK, Steps
  <2>2. CASE ~(booted /\ ~stopping)
    <3>1. queue' = <<>> /\ total' = 0 /\ working' = 0 /\ read' = 0 /\ step' = "idle"
      BY <2>2
    <3> QED BY <3>1 DEF TasksInv, TypeOK, Steps
  <2> QED BY <2>1, <2>2
<1>2. InHand'
  BY DEF TasksInv, TypeOK, InHand, Held, Submitted, Unsent
<1>3. InWindow'
  BY DEF TasksInv, TypeOK, InWindow, Held, Submitted
<1>4. OneOpen'
  BY OpenKept
<1>5. Submissions'
  BY SubmissionsKept
<1>6. OneEach'
  BY EachKept
<1>7. Timely'
  BY TimelyKept
<1> QED BY <1>1, <1>2, <1>3, <1>4, <1>5, <1>6, <1>7 DEF TasksInv

\* A new row of claim_due is the only one of its task.
LEMMA NewRows ==
    ASSUME TasksInv, NEW o \in Occurrences, NEW p \in Occurrences, o[1] = p[1],
           IsNext(o), IsNext(p)
    PROVE  o = p
<1>1. o[2] = p[2]
  BY OccurrencePair DEF IsNext
<1> QED BY <1>1, SamePair

LEMMA ClaimKeeps ==
    ASSUME TasksInv, Claim
    PROVE  TasksInv'
<1> DEFINE Passed(P) == {t \in Overdue : Cardinality(P) < Batch \/ \E p \in P : due[t] <= due[p]}
           New(P) == {o \in Occurrences : o[1] \in P /\ IsNext(o)}
<1> PICK P \in Firsts(Claimable) :
        /\ step = "claim"
        /\ \A t \in P : Insertable(t, due[t], FALSE)
        /\ row' = [t \in Tasks |-> IF t \in Passed(P) /\ IsOnce(schedule[t]) THEN "paused"
                                   ELSE row[t]]
        /\ due' = [t \in Tasks |-> IF t \notin Passed(P) THEN due[t]
                                   ELSE IF IsOnce(schedule[t]) THEN 0
                                   ELSE NextDue(schedule[t], read)]
        /\ state' = [o \in Occurrences |-> IF o \in New(P) THEN "queued" ELSE state[o]]
        /\ dueAt' = [o \in Occurrences |-> IF o \in New(P) THEN due[o[1]] ELSE dueAt[o]]
        /\ fixed' = [o \in Occurrences |-> IF o \in New(P) THEN schedule[o[1]].kind # "Every"
                                           ELSE fixed[o]]
        /\ step' = "read"
        /\ UNCHANGED <<now, schedule, manual, told, subVars, read, pending, windowVars,
                       current, verdict, daemonVars>>
  BY DEF Claim
<1>1. \A t \in P : t \in Tasks /\ row[t] = "enabled" /\ due[t] <= read /\ ~HasOpen(t) /\ ~Late(t)
  BY DEF Firsts, Claimable, DueAt
<1>2. \A t \in Passed(P) : t \in Tasks /\ ~HasOpen(t) /\ Late(t) /\ row[t] = "enabled"
  BY DEF Overdue, DueAt
<1>3. \A o \in New(P) : o \in Occurrences /\ o[1] \in P /\ state[o] = "unused"
  BY DEF IsNext
<1>4. \A o, p \in New(P) : o[1] = p[1] => o = p
  BY NewRows
<1>5. \A t \in Passed(P) : t \notin P
  BY <1>1, <1>2
<1>6. \A t \in Tasks : ~IsOnce(schedule[t]) =>
          NextDue(schedule[t], read) \in Nat /\ read < NextDue(schedule[t], read)
  BY NextDueLater DEF TasksInv, TypeOK, HasNext
<1> HIDE DEF Passed, New
<1> USE DEF subVars, windowVars, daemonVars, boundVars
<1>7. TypeOK'
  <2>1. row' \in [Tasks -> {"unborn", "enabled", "paused", "deleted"}] /\ due' \in [Tasks -> Nat]
    BY <1>6 DEF TasksInv, TypeOK
  <2>2. /\ state' \in [Occurrences -> {"unused", "queued", "preparing", "settled", "gone"}]
        /\ dueAt' \in [Occurrences -> Nat]
        /\ fixed' \in [Occurrences -> BOOLEAN]
    BY <1>1, <1>3 DEF TasksInv, TypeOK
  <2>3. step' \in Steps
    BY DEF Steps
  <2> QED BY <2>1, <2>2, <2>3 DEF TasksInv, TypeOK
<1>8. InHand'
  BY DEF InHand, Held
<1>9. InWindow'
  BY <1>3 DEF TasksInv, TypeOK, InWindow, Held, Submitted
<1>10. OneOpen'
  <2>1. \A o \in New(P), p \in Open : o[1] # p[1]
    BY <1>1, <1>3 DEF HasOpen
  <2>2. Open' = Open \cup New(P)
    BY <1>3 DEF Open, IsOpen
  <2> QED BY <2>1, <2>2, <1>4 DEF OneOpen, TasksInv
<1>11. Submissions'
  <2> SUFFICES ASSUME NEW o \in Occurrences
               PROVE  Submissions!(o)'
    BY DEF Submissions
  <2>1. o[1] \in Tasks
    BY OccurrencePair
  <2>2. CASE o \in New(P)
    <3>1. o[1] \in P /\ state[o] = "unused" /\ row[o[1]] = "enabled" /\ o[1] \notin Passed(P)
      BY <2>2, <1>1, <1>3, <1>5
    <3>2. row'[o[1]] = "enabled" /\ state'[o] = "queued"
      BY <2>1, <2>2, <3>1
    <3> QED BY <3>1, <3>2 DEF TasksInv, Submissions, Submitted, Unsent
  <2>3. CASE o \notin New(P)
    <3>1. state'[o] = state[o]
      BY <2>3
    <3>2. \/ row'[o[1]] = row[o[1]]
          \/ row[o[1]] = "enabled" /\ row'[o[1]] = "paused" /\ ~HasOpen(o[1])
      BY <2>1, <1>2
    <3> QED BY <3>1, <3>2 DEF TasksInv, Submissions, Submitted, Unsent, HasOpen, Open, IsOpen
  <2> QED BY <2>2, <2>3
<1>12. OneEach'
  <2> SUFFICES ASSUME NEW o \in Occurrences, NEW p \in Occurrences, Kept(o)', Kept(p)',
                      ~manual[o], ~manual[p], o[1] = p[1], dueAt'[o] = dueAt'[p]
               PROVE  o = p
    BY DEF OneEach
  <2>1. CASE o \in New(P) /\ p \in New(P)
    BY <2>1, <1>4
  <2>2. CASE o \notin New(P) /\ p \notin New(P)
    BY <2>2 DEF TasksInv, OneEach, Kept, Submitted
  <2>3. ASSUME NEW x \in New(P), NEW y \in Occurrences, y \notin New(P), x[1] = y[1], Kept(y)'
        PROVE  manual[y] \/ dueAt'[x] # dueAt'[y]
    <3>1. Insertable(x[1], due[x[1]], FALSE) /\ row[x[1]] = "enabled"
      BY <1>1, <1>3
    <3>2. state[y] \notin {"unused", "gone"}
      BY <2>3, <3>1 DEF TasksInv, TypeOK, Submissions, Submitted, Kept
    <3> QED BY <2>3, <3>1, <3>2, <1>3 DEF Insertable
  <2> QED BY <2>1, <2>2, <2>3
<1>13. Timely'
  BY <1>1, <1>2, <1>3, <1>6, OccurrencePair DEF TasksInv, TypeOK, Timely, Automatic
<1> QED BY <1>7, <1>8, <1>9, <1>10, <1>11, <1>12, <1>13 DEF TasksInv

LEMMA ClaimFailsKeeps ==
    ASSUME TasksInv, ClaimFails
    PROVE  TasksInv'
<1> USE DEF ClaimFails, Rest, subVars, taskVars, occVars, daemonVars, boundVars
<1>1. TypeOK'
  BY DEF TasksInv, TypeOK, Steps
<1>2. InHand' /\ InWindow'
  BY AtRest
<1>3. OneOpen'
  BY OpenKept
<1>4. Submissions'
  BY SubmissionsKept
<1>5. OneEach'
  BY EachKept
<1>6. Timely'
  BY TimelyKept
<1> QED BY <1>1, <1>2, <1>3, <1>4, <1>5, <1>6 DEF TasksInv

-------------------------------------------------------------------------------
(***************************************************************************)
(* The ticker: the window.                                                 *)
(***************************************************************************)
\* The window at the cursor holds queued occurrences, each of them once.
LEMMA WindowOf ==
    ASSUME NEW S, IsFiniteSet(S), NEW q \in Orders(S), NEW start \in 0..(Len(q) - 1)
    PROVE  /\ Len(q) \in Nat
           /\ Window(q, start) \in Seq(S)
           /\ \A i, j \in 1..Len(Window(q, start)) :
                 Window(q, start)[i] = Window(q, start)[j] => i = j
<1>1. Cardinality(S) \in Nat
  BY FS_CardinalityType
<1>2. /\ q \in [1..Cardinality(S) -> S]
      /\ \A i, j \in 1..Cardinality(S) : q[i] = q[j] => i = j
  BY DEF Orders
<1>3. Len(q) = Cardinality(S) /\ q \in Seq(S)
  BY <1>1, <1>2
<1> DEFINE n == IF Len(q) < Scan THEN Len(q) ELSE Scan
           k(i) == IF start + i <= Len(q) THEN start + i ELSE start + i - Len(q)
<1>4. n \in Nat /\ n <= Len(q)
  BY <1>1, <1>3, ScheduleAssumption
<1>5. \A i \in 1..n : k(i) \in 1..Cardinality(S)
  BY <1>1, <1>3, <1>4
<1>6. \A i, j \in 1..n : k(i) = k(j) => i = j
  BY <1>1, <1>3, <1>4
<1>7. Window(q, start) = [i \in 1..n |-> q[k(i)]]
  BY DEF Window
<1> HIDE DEF n, k
<1>8. Window(q, start) \in [1..n -> S]
  BY <1>2, <1>5, <1>7
<1>9. Window(q, start) \in Seq(S) /\ Len(Window(q, start)) = n
  BY <1>4, <1>8
<1>10. \A i \in 1..n : Window(q, start)[i] = q[k(i)]
  BY <1>7
<1> QED BY <1>1, <1>2, <1>3, <1>5, <1>6, <1>9, <1>10

LEMMA ReadQueueKeeps ==
    ASSUME TasksInv, ReadQueue
    PROVE  TasksInv'
<1> PICK q \in Orders(Queued) : \E start \in 0..(Len(q) - 1) :
        queue' = Window(q, start) /\ total' = Len(q) /\ cursor' = start
  BY DEF ReadQueue, Listed
<1> PICK start \in 0..(Len(q) - 1) :
        queue' = Window(q, start) /\ total' = Len(q) /\ cursor' = start
  OBVIOUS
<1>1. IsFiniteSet(Queued)
  BY FiniteOccurrences, FS_Subset DEF Queued
<1>2. /\ Len(q) \in Nat /\ start \in Nat /\ total' # 0
      /\ queue' \in Seq(Queued)
      /\ \A i, j \in 1..Len(queue') : queue'[i] = queue'[j] => i = j
  BY <1>1, WindowOf
<1>3. /\ queue' \in Seq(Occurrences)
      /\ \A i \in 1..Len(queue') : queue'[i] \in Occurrences /\ state[queue'[i]] = "queued"
  BY <1>2 DEF Queued
<1> USE DEF ReadQueue, taskVars, occVars, subVars, daemonVars, boundVars
<1>4. TypeOK'
  BY <1>2, <1>3 DEF TasksInv, TypeOK, Steps
<1>5. InHand'
  BY DEF InHand, Held
<1>6. InWindow'
  BY <1>2, <1>3 DEF TasksInv, InWindow, Held, Submissions, Submitted
<1>7. OneOpen' /\ Submissions' /\ OneEach'
  BY OpenKept, SubmissionsKept, EachKept
<1>8. Timely'
  BY TimelyKept
<1> QED BY <1>4, <1>5, <1>6, <1>7, <1>8 DEF TasksInv

LEMMA NothingToDeliverKeeps ==
    ASSUME TasksInv, NothingToDeliver
    PROVE  TasksInv'
<1> USE DEF NothingToDeliver, Rest, subVars, taskVars, occVars, daemonVars, boundVars
<1>1. TypeOK'
  BY DEF TasksInv, TypeOK, Steps
<1>2. InHand' /\ InWindow'
  BY AtRest
<1>3. OneOpen'
  BY OpenKept
<1>4. Submissions'
  BY SubmissionsKept
<1>5. OneEach'
  BY EachKept
<1>6. Timely'
  BY TimelyKept
<1> QED BY <1>1, <1>2, <1>3, <1>4, <1>5, <1>6 DEF TasksInv

LEMMA EndTickKeeps ==
    ASSUME TasksInv, EndTick
    PROVE  TasksInv'
<1> USE DEF EndTick, Rest, subVars, taskVars, occVars, daemonVars, boundVars
<1>1. TypeOK'
  BY DEF TasksInv, TypeOK, Steps
<1>2. InHand' /\ InWindow'
  BY AtRest
<1>3. OneOpen'
  BY OpenKept
<1>4. Submissions'
  BY SubmissionsKept
<1>5. OneEach'
  BY EachKept
<1>6. Timely'
  BY TimelyKept
<1> QED BY <1>1, <1>2, <1>3, <1>4, <1>5, <1>6 DEF TasksInv

LEMMA AttemptKeeps ==
    ASSUME TasksInv, Attempt
    PROVE  TasksInv'
<1> DEFINE o == Head(queue)
<1> USE DEF Attempt, Conclude, taskVars, occVars, subVars, daemonVars, boundVars
<1>1. /\ o \in Occurrences /\ o = queue[1] /\ 1 \in 1..Len(queue)
      /\ queue' \in Seq(Occurrences) /\ Len(queue') = Len(queue) - 1
      /\ \A i \in 1..Len(queue') : queue'[i] = queue[i + 1] /\ i + 1 \in 1..Len(queue)
  BY DEF TasksInv, TypeOK
<1>2. /\ ~Submitted(o)
      /\ \A i \in 1..Len(queue') : queue'[i] # o
  BY <1>1 DEF TasksInv, InWindow
<1>3. /\ current' = o
      /\ \/ step' = "admit" /\ verdict' = verdict
         \/ step' = "settle" /\ verdict' = "Missed"
  OBVIOUS
<1>4. o # None
  BY <1>1, OccurrencePair
<1> HIDE DEF o
<1>5. TypeOK'
  <2>1. cursor' \in Nat /\ read' \in Nat
    BY DEF TasksInv, TypeOK
  <2>2. step' \in Steps /\ verdict' \in Outcomes \cup {"nothing"}
    BY <1>3 DEF TasksInv, TypeOK, Steps, Outcomes
  <2> QED BY <1>1, <1>3, <2>1, <2>2 DEF TasksInv, TypeOK
<1>6. InHand'
  BY <1>1, <1>2, <1>3, <1>4 DEF InHand, Held, Submitted, Unsent
<1>7. InWindow'
  BY <1>1, <1>2, <1>3 DEF TasksInv, TypeOK, InWindow, Held, Submitted
<1>8. OneOpen' /\ Submissions' /\ OneEach'
  BY OpenKept, SubmissionsKept, EachKept
<1>9. Timely'
  BY TimelyKept
<1> QED BY <1>5, <1>6, <1>7, <1>8, <1>9 DEF TasksInv

-------------------------------------------------------------------------------
(***************************************************************************)
(* The ticker: one delivery.                                               *)
(***************************************************************************)
LEMMA AdmitDefersKeeps ==
    ASSUME TasksInv, AdmitDefers
    PROVE  TasksInv'
<1> USE DEF AdmitDefers, Forget, taskVars, occVars, subVars, windowVars, daemonVars, boundVars
<1>1. TypeOK'
  BY DEF TasksInv, TypeOK, Steps
<1>2. InHand'
  BY DEF TasksInv, TypeOK, InHand, Held, Submitted, Unsent
<1>3. InWindow'
  BY DEF TasksInv, TypeOK, InWindow, Held, Submitted
<1>4. OneOpen'
  BY OpenKept
<1>5. Submissions'
  BY SubmissionsKept
<1>6. OneEach'
  BY EachKept
<1>7. Timely'
  BY TimelyKept
<1> QED BY <1>1, <1>2, <1>3, <1>4, <1>5, <1>6, <1>7 DEF TasksInv

LEMMA AdmitFailsKeeps ==
    ASSUME TasksInv, AdmitFails
    PROVE  TasksInv'
<1> USE DEF AdmitFails, Conclude, taskVars, occVars, subVars, windowVars, daemonVars, boundVars
<1>0. current \in Occurrences /\ current[1] \in Tasks
  BY CurrentOccurrence DEF Held
<1>1. TypeOK'
  BY <1>0 DEF TasksInv, TypeOK, Steps, Outcomes
<1>2. InHand'
  BY <1>0 DEF TasksInv, TypeOK, InHand, Held, Submitted, Unsent
<1>3. InWindow'
  BY <1>0 DEF TasksInv, TypeOK, InWindow, Held, Submitted
<1>4. OneOpen'
  BY OpenKept
<1>5. Submissions'
  BY SubmissionsKept
<1>6. OneEach'
  BY EachKept
<1>7. Timely'
  BY TimelyKept
<1> QED BY <1>1, <1>2, <1>3, <1>4, <1>5, <1>6, <1>7 DEF TasksInv

LEMMA PrepareKeeps ==
    ASSUME TasksInv, Prepare
    PROVE  TasksInv'
<1> USE DEF Prepare, taskVars, subVars, windowVars, daemonVars, boundVars
<1>0. current \in Occurrences /\ current[1] \in Tasks
  BY CurrentOccurrence DEF Held
<1>1. TypeOK'
  BY <1>0 DEF TasksInv, TypeOK, Steps
<1>2. InHand'
  BY <1>0 DEF TasksInv, TypeOK, InHand, Held, Submitted, Unsent
<1>3. InWindow'
  BY <1>0 DEF TasksInv, TypeOK, InWindow, Held, Submitted
<1>4. OneOpen'
  BY <1>0 DEF TasksInv, TypeOK, OneOpen, Open, IsOpen
<1>5. Submissions'
  BY <1>0 DEF TasksInv, TypeOK, Submissions, Submitted, Unsent
<1>6. OneEach'
  BY <1>0 DEF TasksInv, TypeOK, OneEach, Kept, Submitted
<1>7. Timely'
  BY <1>0 DEF TasksInv, TypeOK, Timely, Automatic
<1> QED BY <1>1, <1>2, <1>3, <1>4, <1>5, <1>6, <1>7 DEF TasksInv

LEMMA AcceptKeeps ==
    ASSUME TasksInv, Accept
    PROVE  TasksInv'
<1> USE DEF Accept, taskVars, occVars, subVars, windowVars, daemonVars, boundVars
<1>0. current \in Occurrences /\ current[1] \in Tasks
  BY CurrentOccurrence DEF Held
<1>1. TypeOK'
  BY <1>0 DEF TasksInv, TypeOK, Steps, Receipts
<1>2. InHand'
  BY <1>0 DEF TasksInv, TypeOK, InHand, Held, Submitted, Unsent
<1>3. InWindow'
  BY <1>0 DEF TasksInv, TypeOK, InWindow, Held, Submitted
<1>4. OneOpen'
  BY OpenKept
<1>5. Submissions'
  BY <1>0 DEF TasksInv, TypeOK, Submissions, Submitted, Unsent, InHand, Held
<1>6. OneEach'
  BY <1>0 DEF TasksInv, TypeOK, OneEach, Kept, Submitted, InHand, Held
<1>7. Timely'
  BY TimelyKept
<1> QED BY <1>1, <1>2, <1>3, <1>4, <1>5, <1>6, <1>7 DEF TasksInv

LEMMA AcceptFailsKeeps ==
    ASSUME TasksInv, AcceptFails
    PROVE  TasksInv'
<1> USE DEF AcceptFails, Conclude, taskVars, occVars, subVars, windowVars, daemonVars, boundVars
<1>0. current \in Occurrences /\ current[1] \in Tasks
  BY CurrentOccurrence DEF Held
<1>1. TypeOK'
  BY <1>0 DEF TasksInv, TypeOK, Steps, Outcomes
<1>2. InHand'
  BY <1>0 DEF TasksInv, TypeOK, InHand, Held, Submitted, Unsent
<1>3. InWindow'
  BY <1>0 DEF TasksInv, TypeOK, InWindow, Held, Submitted
<1>4. OneOpen'
  BY OpenKept
<1>5. Submissions'
  BY SubmissionsKept
<1>6. OneEach'
  BY EachKept
<1>7. Timely'
  BY TimelyKept
<1> QED BY <1>1, <1>2, <1>3, <1>4, <1>5, <1>6, <1>7 DEF TasksInv

LEMMA LaunchKeeps ==
    ASSUME TasksInv, Launch
    PROVE  TasksInv'
<1> USE DEF Launch, taskVars, occVars, subVars, windowVars, daemonVars, boundVars
<1>1. TypeOK'
  BY DEF TasksInv, TypeOK, Steps
<1>2. InHand'
  BY DEF TasksInv, TypeOK, InHand, Held, Submitted, Unsent
<1>3. InWindow'
  BY DEF TasksInv, TypeOK, InWindow, Held, Submitted
<1>4. OneOpen'
  BY OpenKept
<1>5. Submissions'
  BY SubmissionsKept
<1>6. OneEach'
  BY EachKept
<1>7. Timely'
  BY TimelyKept
<1> QED BY <1>1, <1>2, <1>3, <1>4, <1>5, <1>6, <1>7 DEF TasksInv

LEMMA WithdrawKeeps ==
    ASSUME TasksInv, Withdraw
    PROVE  TasksInv'
<1> USE DEF Withdraw, Abandon, Conclude, taskVars, occVars, windowVars, daemonVars, boundVars
<1>0. current \in Occurrences /\ current[1] \in Tasks
  BY CurrentOccurrence DEF Held
<1>1. TypeOK'
  BY <1>0 DEF TasksInv, TypeOK, Steps, Outcomes, Receipts
<1>2. InHand'
  BY <1>0 DEF TasksInv, TypeOK, InHand, Held, Submitted, Unsent
<1>3. InWindow'
  BY <1>0 DEF TasksInv, TypeOK, InWindow, Held, Submitted
<1>4. OneOpen'
  BY OpenKept
<1>5. Submissions'
  BY <1>0 DEF TasksInv, TypeOK, Submissions, Submitted, Unsent
<1>6. OneEach'
  BY <1>0 DEF TasksInv, TypeOK, OneEach, Kept, Submitted
<1>7. Timely'
  BY TimelyKept
<1> QED BY <1>1, <1>2, <1>3, <1>4, <1>5, <1>6, <1>7 DEF TasksInv

LEMMA DispatchFailsKeeps ==
    ASSUME TasksInv, DispatchFails
    PROVE  TasksInv'
<1> USE DEF DispatchFails, Abandon, Conclude, taskVars, occVars, windowVars, daemonVars, boundVars
<1>0. current \in Occurrences /\ current[1] \in Tasks
  BY CurrentOccurrence DEF Held
<1>1. TypeOK'
  BY <1>0 DEF TasksInv, TypeOK, Steps, Outcomes, Receipts
<1>2. InHand'
  BY <1>0 DEF TasksInv, TypeOK, InHand, Held, Submitted, Unsent
<1>3. InWindow'
  BY <1>0 DEF TasksInv, TypeOK, InWindow, Held, Submitted
<1>4. OneOpen'
  BY OpenKept
<1>5. Submissions'
  BY <1>0 DEF TasksInv, TypeOK, Submissions, Submitted, Unsent
<1>6. OneEach'
  BY <1>0 DEF TasksInv, TypeOK, OneEach, Kept, Submitted
<1>7. Timely'
  BY TimelyKept
<1> QED BY <1>1, <1>2, <1>3, <1>4, <1>5, <1>6, <1>7 DEF TasksInv

LEMMA DispatchKeeps ==
    ASSUME TasksInv, Dispatch
    PROVE  TasksInv'
<1> USE DEF Dispatch, taskVars, occVars, windowVars, daemonVars, boundVars
<1>0. current \in Occurrences /\ current[1] \in Tasks
  BY CurrentOccurrence DEF Held
<1>1. TypeOK'
  BY <1>0 DEF TasksInv, TypeOK, Steps, Receipts
<1>2. InHand'
  BY <1>0 DEF TasksInv, TypeOK, InHand, Held, Submitted, Unsent
<1>3. InWindow'
  BY <1>0 DEF TasksInv, TypeOK, InWindow, Held, Submitted
<1>4. OneOpen'
  BY OpenKept
<1>5. Submissions'
  BY <1>0 DEF TasksInv, TypeOK, Submissions, Submitted, Unsent, InHand, Held
<1>6. OneEach'
  BY <1>0 DEF TasksInv, TypeOK, OneEach, Kept, Submitted
<1>7. Timely'
  BY TimelyKept
<1> QED BY <1>1, <1>2, <1>3, <1>4, <1>5, <1>6, <1>7 DEF TasksInv

LEMMA DispatchedKeeps ==
    ASSUME TasksInv, Dispatched
    PROVE  TasksInv'
<1> USE DEF Dispatched, Conclude, taskVars, occVars, subVars, windowVars, daemonVars, boundVars
<1>0. current \in Occurrences /\ current[1] \in Tasks
  BY CurrentOccurrence DEF Held
<1>1. TypeOK'
  BY <1>0 DEF TasksInv, TypeOK, Steps, Outcomes, Verdict
<1>2. InHand'
  BY <1>0 DEF TasksInv, TypeOK, InHand, Held, Submitted, Unsent, Verdict
<1>3. InWindow'
  BY <1>0 DEF TasksInv, TypeOK, InWindow, Held, Submitted
<1>4. OneOpen'
  BY OpenKept
<1>5. Submissions'
  BY SubmissionsKept
<1>6. OneEach'
  BY EachKept
<1>7. Timely'
  BY TimelyKept
<1> QED BY <1>1, <1>2, <1>3, <1>4, <1>5, <1>6, <1>7 DEF TasksInv

LEMMA SettleFailsKeeps ==
    ASSUME TasksInv, SettleFails
    PROVE  TasksInv'
<1> USE DEF SettleFails, Forget, Back, taskVars, occVars, subVars, windowVars, daemonVars, boundVars
<1>1. TypeOK'
  BY DEF TasksInv, TypeOK, Steps
<1>2. InHand'
  BY DEF TasksInv, TypeOK, InHand, Held, Submitted, Unsent
<1>3. InWindow'
  BY DEF TasksInv, TypeOK, InWindow, Held, Submitted
<1>4. OneOpen'
  BY OpenKept
<1>5. Submissions'
  BY SubmissionsKept
<1>6. OneEach'
  BY EachKept
<1>7. Timely'
  BY TimelyKept
<1> QED BY <1>1, <1>2, <1>3, <1>4, <1>5, <1>6, <1>7 DEF TasksInv

LEMMA SettleKeeps ==
    ASSUME TasksInv, Settle
    PROVE  TasksInv'
<1> DEFINE o == current
           t == current[1]
           open == IsOpen(o)
           lives == open /\ Exists(t)
           ends == lives /\ row[t] = "enabled" /\ ~manual[o] /\ IsOnce(schedule[t])
<1>1. /\ step = "settle"
      /\ state' = [state EXCEPT ![o] = IF ~open THEN @ ELSE IF lives THEN "settled" ELSE "gone"]
      /\ told' = [told EXCEPT ![o] = IF lives THEN verdict ELSE @]
      /\ row' = [row EXCEPT ![t] = IF ends THEN "paused" ELSE @]
      /\ due' = [due EXCEPT ![t] = IF ~lives \/ manual[o] THEN @
                                   ELSE IF ends \/ row[t] = "paused" THEN 0
                                   ELSE NextDue(schedule[t], read)]
      /\ working' = IF total > 0 /\ receipt[o] # "none" THEN working + 1 ELSE working
      /\ step' = (IF total = 0 THEN "reconcile" ELSE "deliver")
      /\ current' = None /\ verdict' = "nothing"
      /\ UNCHANGED <<now, schedule, dueAt, manual, fixed, subVars, read, pending, queue,
                     cursor, total, daemonVars>>
  BY DEF Settle, Forget, Back
<1>2. o \in Occurrences /\ t \in Tasks
  BY <1>1, CurrentOccurrence
<1>3. ~IsOnce(schedule[t]) =>
          NextDue(schedule[t], read) \in Nat /\ read < NextDue(schedule[t], read)
  BY <1>2, NextDueLater DEF TasksInv, TypeOK, HasNext
<1>4. (ends <=> lives /\ row[t] = "enabled" /\ ~manual[o] /\ IsOnce(schedule[t]))
  OBVIOUS
<1>5. lives => open /\ row[t] \in {"enabled", "paused"}
  BY DEF Exists
<1>6. open /\ ~lives => row[t] = "deleted"
  BY <1>2 DEF Exists, IsOpen, TasksInv, TypeOK, Submissions
<1>7. open <=> state[o] \in {"queued", "preparing"}
  BY DEF IsOpen
<1>8. \A p \in Occurrences : open /\ IsOpen(p) /\ p[1] = t => p = o
  BY <1>2 DEF TasksInv, OneOpen, Open
<1> HIDE DEF lives, ends, open
<1> USE DEF subVars, daemonVars, boundVars
<1>9. TypeOK'
  <2>1. row' \in [Tasks -> {"unborn", "enabled", "paused", "deleted"}] /\ due' \in [Tasks -> Nat]
    BY <1>1, <1>2, <1>3, <1>4, <1>5 DEF TasksInv, TypeOK
  <2>2. /\ state' \in [Occurrences -> {"unused", "queued", "preparing", "settled", "gone"}]
        /\ told' \in [Occurrences -> Outcomes \cup {"nothing"}]
    BY <1>1, <1>2 DEF TasksInv, TypeOK
  <2>3. working' \in Nat /\ step' \in Steps
    BY <1>1 DEF TasksInv, TypeOK, Steps
  <2> QED BY <1>1, <2>1, <2>2, <2>3 DEF TasksInv, TypeOK
<1>10. InHand'
  BY <1>1 DEF InHand, Held
<1>11. InWindow'
  BY <1>1, <1>2 DEF TasksInv, TypeOK, InWindow, Held, Submitted
<1>12. OneOpen'
  BY <1>1, <1>2, <1>7 DEF TasksInv, TypeOK, OneOpen, Open, IsOpen
<1>13. Submissions'
  <2> SUFFICES ASSUME NEW p \in Occurrences
               PROVE  Submissions!(p)'
    BY DEF Submissions
  <2>1. p[1] \in Tasks
    BY OccurrencePair
  <2>2. CASE p = o
    BY <2>1, <2>2, <1>1, <1>2, <1>4, <1>5, <1>6, <1>7
       DEF TasksInv, TypeOK, Submissions, InHand, Submitted, Unsent
  <2>3. CASE p # o
    BY <2>1, <2>3, <1>1, <1>2, <1>4, <1>5, <1>7, <1>8
       DEF TasksInv, TypeOK, Submissions, Submitted, Unsent, IsOpen
  <2> QED BY <2>2, <2>3
<1>14. OneEach'
  BY <1>1, <1>2, <1>7 DEF TasksInv, TypeOK, OneEach, Kept, Submitted
<1>15. Timely'
  BY <1>1, <1>2, <1>3, <1>4, <1>5, <1>7, OccurrencePair DEF TasksInv, TypeOK, Timely, Automatic
<1> QED BY <1>9, <1>10, <1>11, <1>12, <1>13, <1>14, <1>15 DEF TasksInv

-------------------------------------------------------------------------------
(***************************************************************************)
(* The driver, the provider and the clients.                               *)
(***************************************************************************)
LEMMA WorkerSendsKeeps ==
    ASSUME TasksInv, NEW o \in Occurrences, WorkerSends(o)
    PROVE  TasksInv'
<1> USE DEF WorkerSends, Elsewhere, taskVars, occVars, runVars, windowVars, daemonVars, boundVars
<1>1. TypeOK'
  BY DEF TasksInv, TypeOK, Receipts
<1>2. InHand'
  BY HandKept
<1>3. InWindow'
  BY WindowKept
<1>4. OneOpen'
  BY OpenKept
<1>5. Submissions'
  BY DEF TasksInv, TypeOK, Submissions, Submitted, Unsent
<1>6. OneEach'
  BY EachKept
<1>7. Timely'
  BY DEF TasksInv, Timely, Automatic
<1> QED BY <1>1, <1>2, <1>3, <1>4, <1>5, <1>6, <1>7 DEF TasksInv

LEMMA WorkerCannotSendKeeps ==
    ASSUME TasksInv, NEW o \in Occurrences, WorkerCannotSend(o)
    PROVE  TasksInv'
<1> USE DEF WorkerCannotSend, Elsewhere, taskVars, occVars, runVars, windowVars, daemonVars, boundVars
<1>1. TypeOK'
  BY DEF TasksInv, TypeOK, Receipts
<1>2. InHand'
  BY DEF TasksInv, TypeOK, InHand, Held, Submitted, Unsent
<1>3. InWindow'
  BY DEF TasksInv, TypeOK, InWindow, Held, Submitted
<1>4. OneOpen'
  BY OpenKept
<1>5. Submissions'
  BY DEF TasksInv, TypeOK, Submissions, Submitted, Unsent
<1>6. OneEach'
  BY DEF TasksInv, TypeOK, OneEach, Kept, Submitted
<1>7. Timely'
  BY DEF TasksInv, Timely, Automatic
<1> QED BY <1>1, <1>2, <1>3, <1>4, <1>5, <1>6, <1>7 DEF TasksInv

LEMMA WorkerRecordsKeeps ==
    ASSUME TasksInv, NEW o \in Occurrences, WorkerRecords(o)
    PROVE  TasksInv'
<1> USE DEF WorkerRecords, Elsewhere, taskVars, occVars, runVars, windowVars, daemonVars, boundVars
<1>1. TypeOK'
  BY DEF TasksInv, TypeOK, Receipts
<1>2. InHand'
  BY DEF TasksInv, TypeOK, InHand, Held, Submitted, Unsent
<1>3. InWindow'
  BY DEF TasksInv, TypeOK, InWindow, Held, Submitted
<1>4. OneOpen'
  BY OpenKept
<1>5. Submissions'
  BY DEF TasksInv, TypeOK, Submissions, Submitted, Unsent
<1>6. OneEach'
  BY DEF TasksInv, TypeOK, OneEach, Kept, Submitted
<1>7. Timely'
  BY DEF TasksInv, Timely, Automatic
<1> QED BY <1>1, <1>2, <1>3, <1>4, <1>5, <1>6, <1>7 DEF TasksInv

LEMMA UserAbandonsKeeps ==
    ASSUME TasksInv, NEW o \in Occurrences, UserAbandons(o)
    PROVE  TasksInv'
<1> USE DEF UserAbandons, Abandon, Elsewhere, taskVars, occVars, runVars, windowVars, daemonVars, boundVars
<1>1. TypeOK'
  BY DEF TasksInv, TypeOK, Receipts
<1>2. InHand'
  BY DEF TasksInv, TypeOK, InHand, Held, Submitted, Unsent
<1>3. InWindow'
  BY DEF TasksInv, TypeOK, InWindow, Held, Submitted
<1>4. OneOpen'
  BY OpenKept
<1>5. Submissions'
  BY DEF TasksInv, TypeOK, Submissions, Submitted, Unsent
<1>6. OneEach'
  BY DEF TasksInv, TypeOK, OneEach, Kept, Submitted
<1>7. Timely'
  BY DEF TasksInv, Timely, Automatic
<1> QED BY <1>1, <1>2, <1>3, <1>4, <1>5, <1>6, <1>7 DEF TasksInv

-------------------------------------------------------------------------------
(***************************************************************************)
(* The daemon process and the clock.                                       *)
(***************************************************************************)
LEMMA ShutdownKeeps ==
    ASSUME TasksInv, Shutdown
    PROVE  TasksInv'
<1> USE DEF Shutdown, taskVars, occVars, subVars, runVars, windowVars, boundVars
<1>1. TypeOK'
  BY DEF TasksInv, TypeOK
<1>2. InHand'
  BY HandKept
<1>3. InWindow'
  BY WindowKept
<1>4. OneOpen'
  BY OpenKept
<1>5. Submissions'
  BY SubmissionsKept
<1>6. OneEach'
  BY EachKept
<1>7. Timely'
  BY DEF TasksInv, Timely, Automatic
<1> QED BY <1>1, <1>2, <1>3, <1>4, <1>5, <1>6, <1>7 DEF TasksInv

LEMMA RestartKeeps ==
    ASSUME TasksInv, Restart
    PROVE  TasksInv'
<1> USE DEF Restart, Forget, taskVars, occVars
<1>1. TypeOK'
  <2>1. input' \in [Occurrences -> {"none", "handed", "sent", "refused"}]
    BY DEF TasksInv, TypeOK
  <2>2. pending' \subseteq Occurrences /\ step' \in Steps
    BY DEF Open, Steps
  <2>3. queue' \in Seq(Occurrences) /\ restarts' \in Nat /\ edits' \in Nat /\ setBacks' \in Nat
    BY DEF TasksInv, TypeOK
  <2> QED BY <2>1, <2>2, <2>3 DEF TasksInv, TypeOK
<1>2. InHand'
  BY DEF TasksInv, TypeOK, InHand, Held, Submitted, Unsent
<1>3. InWindow'
  BY DEF TasksInv, TypeOK, InWindow, Held, Submitted
<1>4. OneOpen'
  BY OpenKept
<1>5. Submissions'
  BY DEF TasksInv, TypeOK, Submissions, Submitted, Unsent
<1>6. OneEach'
  BY EachKept
<1>7. Timely'
  BY TimelyKept
<1> QED BY <1>1, <1>2, <1>3, <1>4, <1>5, <1>6, <1>7 DEF TasksInv

LEMMA AdvanceKeeps ==
    ASSUME TasksInv, Advance
    PROVE  TasksInv'
<1> USE DEF Advance, Unclocked, taskVars, occVars, subVars, runVars, windowVars, boundVars
<1>1. TypeOK'
  BY DEF TasksInv, TypeOK
<1>2. InHand'
  BY HandKept
<1>3. InWindow'
  BY WindowKept
<1>4. OneOpen'
  BY OpenKept
<1>5. Submissions'
  BY SubmissionsKept
<1>6. OneEach'
  BY EachKept
<1>7. Timely'
  BY DEF TasksInv, TypeOK, Timely, Automatic
<1> QED BY <1>1, <1>2, <1>3, <1>4, <1>5, <1>6, <1>7 DEF TasksInv

LEMMA SetBackKeeps ==
    ASSUME TasksInv, SetBack
    PROVE  TasksInv'
<1> USE DEF SetBack, Unclocked, taskVars, occVars, subVars, runVars, windowVars, boundVars
<1>1. TypeOK'
  BY DEF TasksInv, TypeOK
<1>2. InHand'
  BY HandKept
<1>3. InWindow'
  BY WindowKept
<1>4. OneOpen'
  BY OpenKept
<1>5. Submissions'
  BY SubmissionsKept
<1>6. OneEach'
  BY EachKept
<1>7. Timely'
  BY DEF TasksInv, TypeOK, Timely, Automatic
<1> QED BY <1>1, <1>2, <1>3, <1>4, <1>5, <1>6, <1>7 DEF TasksInv

-------------------------------------------------------------------------------
LEMMA NextKeeps ==
    ASSUME TasksInv, [Next]_vars
    PROVE  TasksInv'
<1>1. CASE Command
  BY <1>1, CreateKeeps, UpdateKeeps, DeleteKeeps, RunNowKeeps DEF Command
<1>2. CASE Ticker
  <2>1. CASE Tick \/ TickBlind \/ ReconcileDone \/ Claim \/ ClaimFails \/ ReadQueue
             \/ NothingToDeliver \/ EndTick \/ Attempt
    BY <2>1, TickKeeps, TickBlindKeeps, ReconcileDoneKeeps, ClaimKeeps, ClaimFailsKeeps,
       ReadQueueKeeps, NothingToDeliverKeeps, EndTickKeeps, AttemptKeeps
  <2>2. CASE \E o \in Occurrences : ReconcileKeeps(o) \/ ReconcileCancels(o) \/ ReconcileResolves(o)
    BY <2>2, ReconcileKeepsKeeps, ReconcileCancelsKeeps, ReconcileResolvesKeeps
  <2>3. CASE AdmitDefers \/ AdmitFails \/ Prepare \/ Accept \/ AcceptFails
    BY <2>3, AdmitDefersKeeps, AdmitFailsKeeps, PrepareKeeps, AcceptKeeps, AcceptFailsKeeps
  <2>4. CASE Launch \/ Withdraw \/ Dispatch \/ DispatchFails \/ Dispatched \/ Settle \/ SettleFails
    BY <2>4, LaunchKeeps, WithdrawKeeps, DispatchKeeps, DispatchFailsKeeps, DispatchedKeeps,
       SettleKeeps, SettleFailsKeeps
  <2> QED BY <1>2, <2>1, <2>2, <2>3, <2>4 DEF Ticker
<1>3. CASE Driver
  BY <1>3, WorkerSendsKeeps, WorkerCannotSendKeeps, WorkerRecordsKeeps, UserAbandonsKeeps DEF Driver
<1>4. CASE Shutdown \/ Restart \/ Advance \/ SetBack
  BY <1>4, ShutdownKeeps, RestartKeeps, AdvanceKeeps, SetBackKeeps
<1>5. CASE UNCHANGED vars
  <2> USE <1>5 DEF vars, taskVars, occVars, subVars, runVars, windowVars, daemonVars, boundVars
  <2>1. TypeOK'
    BY DEF TasksInv, TypeOK
  <2>2. InHand' /\ InWindow' /\ OneOpen' /\ Submissions' /\ OneEach'
    BY HandKept, WindowKept, OpenKept, SubmissionsKept, EachKept
  <2>3. Timely'
    BY DEF TasksInv, Timely, Automatic
  <2> QED BY <2>1, <2>2, <2>3 DEF TasksInv
<1> QED BY <1>1, <1>2, <1>3, <1>4, <1>5 DEF Next

\* Occurrences begin only in Prepare.
LEMMA OnlyPrepareBegins ==
    ASSUME TasksInv, [Next]_vars, NEW o \in Occurrences,
           state[o] # "preparing", state'[o] = "preparing"
    PROVE  Prepare
<1> USE DEF TasksInv, TypeOK, occVars
<1>1. CASE Command
  <2> SUFFICES ASSUME NEW t \in Tasks, NEW s \in Schedules, NEW on \in BOOLEAN,
                      Create(t, s, on) \/ Update(t, s, on) \/ Delete(t) \/ RunNow(t)
               PROVE  FALSE
    BY <1>1 DEF Command
  <2>1. state' = state \/ Update(t, s, on) \/ Delete(t) \/ RunNow(t)
    BY DEF Create
  <2>2. CASE Update(t, s, on)
    BY <2>2 DEF Update
  <2>3. CASE Delete(t)
    BY <2>3 DEF Delete
  <2>4. CASE RunNow(t)
    BY <2>4 DEF RunNow
  <2> QED BY <2>1, <2>2, <2>3, <2>4
<1>2. CASE Ticker
  <2>1. CASE Claim
    BY <2>1 DEF Claim
  <2>2. CASE Settle
    BY <2>2 DEF Settle
  <2> QED BY <1>2, <2>1, <2>2
          DEF Ticker, Tick, TickBlind, ReconcileKeeps, ReconcileCancels, ReconcileResolves,
              ReconcileDone, ClaimFails, ReadQueue, NothingToDeliver, EndTick, Attempt, AdmitDefers,
              AdmitFails, Accept, AcceptFails, Launch, Withdraw, Dispatch, DispatchFails,
              Dispatched, SettleFails
<1>3. CASE Driver
  BY <1>3 DEF Driver, WorkerSends, WorkerCannotSend, WorkerRecords, UserAbandons, Elsewhere
<1>4. CASE Shutdown \/ Restart \/ Advance \/ SetBack
  BY <1>4 DEF Shutdown, Restart, Advance, SetBack, Unclocked
<1>5. CASE UNCHANGED vars
  BY <1>5 DEF vars
<1> QED BY <1>1, <1>2, <1>3, <1>4, <1>5 DEF Next

\* The invariant of the scheduled tasks, whatever the bounds: one open
\* occurrence of a task, no submission before its occurrence is preparing, and
\* outcomes that are true of the receipts.
THEOREM TasksSafety == Spec => []TasksInv
<1>1. Init => TasksInv
  BY InitInv
<1>2. TasksInv /\ [Next]_vars => TasksInv'
  BY NextKeeps
<1> QED BY <1>1, <1>2, PTL DEF Spec

\* What a task's history says of a run that was not sent, missed or rejected
\* stays true.
THEOREM HistoryIsHonest == Spec => []HonestHistory
<1>1. TasksInv => HonestHistory
  BY DEF TasksInv, TypeOK, Submissions, HonestHistory, Unsent, Receipts
<1> QED BY <1>1, TasksSafety, PTL

\* Of the runs of a task that are submitted by themselves, no two are for the
\* same due time.
THEOREM EachDueTimeOnce == Spec => []DueOnce
<1>1. TasksInv => DueOnce
  BY DEF TasksInv, OneEach, Kept, DueOnce
<1> QED BY <1>1, TasksSafety, PTL

\* No insert of claim_due meets a unique index as long as the clock advances.
THEOREM ClaimsGoThroughAlways == Spec => []ClaimsGoThrough
<1>1. TasksInv => ClaimsGoThrough
  <2> SUFFICES ASSUME TasksInv, setBacks = 0, step = "claim", NEW t \in Claimable
               PROVE  Insertable(t, due[t], FALSE)
    BY DEF ClaimsGoThrough
  <2>1. t \in Tasks /\ row[t] = "enabled" /\ due[t] <= read /\ ~HasOpen(t)
    BY DEF Claimable, DueAt
  <2>2. ASSUME NEW o \in Occurrences, o[1] = t, state[o] \notin {"unused", "gone"}, ~manual[o]
        PROVE  dueAt[o] # due[t]
    BY <2>1, <2>2 DEF TasksInv, TypeOK, Timely, Automatic, HasOpen, Open, IsOpen
  <2> QED BY <2>1, <2>2 DEF Insertable
<1> QED BY <1>1, TasksSafety, PTL

\* A task that is paused or deleted starts no run of its own.
THEOREM PausedTasksStartNothing == Spec => PausedNeverStarts
<1>1. TasksInv /\ [Next]_vars =>
        [\A o \in Occurrences :
            state[o] # "preparing" /\ state'[o] = "preparing"
                => manual[o] \/ row[o[1]] = "enabled"]_vars
  <2> SUFFICES ASSUME TasksInv, [Next]_vars, NEW o \in Occurrences,
                      state[o] # "preparing", state'[o] = "preparing"
               PROVE  manual[o] \/ row[o[1]] = "enabled"
    OBVIOUS
  <2>1. Prepare
    BY OnlyPrepareBegins
  <2>2. state[o] = "queued"
    BY <2>1 DEF Prepare, TasksInv, TypeOK
  <2> QED BY <2>2 DEF TasksInv, Submissions
<1> QED BY <1>1, TasksSafety, PTL DEF Spec, PausedNeverStarts
===============================================================================
