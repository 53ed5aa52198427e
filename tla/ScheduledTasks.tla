---------------------------- MODULE ScheduledTasks ----------------------------
(***************************************************************************)
(* Scheduled tasks: the rows of scheduled_tasks and scheduled_occurrences, *)
(* the ticker thread that claims due times and delivers them as ordinary   *)
(* submissions, and the users who edit, pause, delete and run tasks        *)
(* between any two of its database transactions.  The daemon may stop or   *)
(* crash anywhere, database calls may fail, and the wall clock may be set. *)
(*                                                                         *)
(* The submission of an occurrence is seen through what Submission shows   *)
(* of it: its receipt, and what became of its input.                       *)
(***************************************************************************)
EXTENDS Naturals, Sequences, FiniteSets

CONSTANTS
    Tasks,
    Schedules,     \* records [kind, at]: the recurrences users choose from
    Day,           \* AtTime schedules are due at multiples of Day
    Grace,         \* FIXED_TIME_GRACE_SECS
    Batch, Scan,   \* TICK_BATCH, TICK_SCAN
    None,
    MaxRuns,       \* bound: occurrences of one task
    MaxTotal,      \* bound: occurrences of all tasks
    Horizon,       \* bound: the last instant of the clock
    Budgets        \* bound: triples of user commands, daemon restarts, and times
                   \* the clock is set back; a behaviour stays within one of them

Occurrences == Tasks \X (1..MaxRuns)

ASSUME ScheduleAssumption ==
    /\ Schedules \subseteq [kind : {"Every", "AtTime", "Once"}, at : Nat \ {0}]
    /\ Day \in Nat \ {0} /\ Grace \in Nat
    /\ Batch \in Nat \ {0} /\ Scan \in Nat \ {0}
    /\ MaxRuns \in Nat /\ MaxTotal \in Nat /\ Horizon \in Nat
    /\ IsFiniteSet(Tasks)
ASSUME NoOccurrenceAssumption == None \notin Occurrences

VARIABLES
    now,                  \* unix_time()
    row,                  \* the task row: not yet created, enabled, paused, deleted
    schedule, due,        \* its recurrence, and next_due_at (0: NULL)
    state,                \* state of an occurrence; its row is there unless unused or gone
    dueAt, manual, fixed, \* due_at, manual, and whether the draft has a fixed time
    told,                 \* the DispatchRecord a user reads for the occurrence
    receipt, input,       \* its submission, and the input on its way to the provider
    step,                 \* where the ticker is
    read,                 \* the `now` the ticker works with
    pending,                 \* open occurrences it has still to reconcile
    queue,                \* rest of the window of queued occurrences it delivers
    cursor, total,        \* scheduled_cursor, and the queue length it wraps at
    working,              \* deliveries of this tick that reached the provider
    current, verdict,     \* the occurrence in hand, and the outcome to settle it with
    booted, stopping,
    edits, restarts, setBacks

taskVars   == <<row, schedule, due>>
occVars    == <<state, dueAt, manual, fixed, told>>
subVars    == <<receipt, input>>
windowVars == <<queue, cursor, total, working>>
boundVars  == <<edits, restarts, setBacks>>
daemonVars == <<booted, stopping, boundVars>>
runVars    == <<step, read, pending, windowVars, current, verdict>>
vars == <<now, taskVars, occVars, subVars, runVars, daemonVars>>

Outcomes == {"Accepted", "NotSent", "Rejected", "Unconfirmed", "Missed"}
Receipts == {"none", "Preparing", "Dispatching", "Accepted", "Unknown", "NotSent", "Rejected"}
Steps == {"idle", "reconcile", "claim", "read", "deliver", "admit", "saved",
          "accepted", "launched", "dispatched", "settle"}

TypeOK ==
    /\ now \in Nat
    /\ row \in [Tasks -> {"unborn", "enabled", "paused", "deleted"}]
    /\ schedule \in [Tasks -> Schedules]
    /\ due \in [Tasks -> Nat]
    /\ state \in [Occurrences -> {"unused", "queued", "preparing", "settled", "gone"}]
    /\ dueAt \in [Occurrences -> Nat]
    /\ manual \in [Occurrences -> BOOLEAN]
    /\ fixed \in [Occurrences -> BOOLEAN]
    /\ told \in [Occurrences -> Outcomes \cup {"nothing"}]
    /\ receipt \in [Occurrences -> Receipts]
    /\ input \in [Occurrences -> {"none", "handed", "sent", "refused"}]
    /\ step \in Steps
    /\ read \in Nat
    /\ pending \subseteq Occurrences
    /\ queue \in Seq(Occurrences) /\ cursor \in Nat /\ total \in Nat
    /\ working \in Nat
    /\ current \in Occurrences \cup {None}
    /\ verdict \in Outcomes \cup {"nothing"}
    /\ booted \in BOOLEAN /\ stopping \in BOOLEAN
    /\ edits \in Nat /\ restarts \in Nat /\ setBacks \in Nat

-------------------------------------------------------------------------------
(***************************************************************************)
(* Recurrences and rows.                                                   *)
(***************************************************************************)
IsOnce(s) == s.kind = "Once"

\* Recurrence::next_due fails for a one-time run that is not in the future.
HasNext(s, after) == IsOnce(s) => s.at > after
NextDue(s, after) ==
    IF s.kind = "Every" THEN after + s.at
    ELSE IF s.kind = "AtTime" THEN (after - (after % Day)) + Day
    ELSE s.at

Exists(t)  == row[t] \in {"enabled", "paused"}
IsOpen(o)  == state[o] \in {"queued", "preparing"}
Open       == {o \in Occurrences : IsOpen(o)}
HasOpen(t) == \E o \in Open : o[1] = t

\* missed, and missed_window of a queued occurrence.
Missed(isFixed, at, moment) == isFixed /\ at + Grace < moment
MissedWindow(o, moment) == ~manual[o] /\ Missed(fixed[o], dueAt[o], moment)

\* Variant: no index one_automatic.
InsertableAgain(t, at, byHand) == ~HasOpen(t)

\* Variant: one_open covers only queued rows.
InsertableBesides(t, at, byHand) ==
    /\ \A o \in Occurrences : o[1] = t => state[o] # "queued"
    /\ byHand \/ \A o \in Occurrences :
          o[1] = t /\ state[o] \notin {"unused", "gone"} => manual[o] \/ dueAt[o] # at

\* The unique indexes one_open and one_automatic.
Insertable(t, at, byHand) ==
    /\ ~HasOpen(t)
    /\ byHand \/ \A o \in Occurrences :
          o[1] = t /\ state[o] \notin {"unused", "gone"} => manual[o] \/ dueAt[o] # at

\* The bounds; a daemon that is stopping will be restarted.
Affordable ==
    \E b \in Budgets :
        /\ edits' <= b[1] /\ setBacks' <= b[3]
        /\ restarts' + (IF stopping' THEN 1 ELSE 0) <= b[2]

\* The row a new occurrence of t gets.
IsNext(o) == state[o] = "unused" /\ \A p \in Occurrences :
                 p[1] = o[1] /\ p[2] < o[2] => state[p] # "unused"
HasRoom(t) ==
    /\ \E o \in Occurrences : o[1] = t /\ state[o] = "unused"
    /\ Cardinality({o \in Occurrences : state[o] # "unused"}) < MaxTotal

\* A daemon that starts finds the tasks saved before, here at an instant 1 in
\* which none is due.
First == CHOOSE s \in Schedules : TRUE
Init ==
    /\ now = 1
    /\ row \in [Tasks -> {"unborn", "enabled"}]
    /\ schedule \in [Tasks -> Schedules]
    /\ \A t \in Tasks :
          /\ row[t] = "enabled" => HasNext(schedule[t], now)
          /\ row[t] = "unborn" => schedule[t] = First
    /\ due = [t \in Tasks |-> IF row[t] = "enabled" THEN NextDue(schedule[t], now) ELSE 0]
    /\ state = [o \in Occurrences |-> "unused"]
    /\ dueAt = [o \in Occurrences |-> 0]
    /\ manual = [o \in Occurrences |-> FALSE]
    /\ fixed = [o \in Occurrences |-> FALSE]
    /\ told = [o \in Occurrences |-> "nothing"]
    /\ receipt = [o \in Occurrences |-> "none"]
    /\ input = [o \in Occurrences |-> "none"]
    /\ step = "idle" /\ read = 0 /\ pending = {}
    /\ queue = <<>> /\ cursor = 0 /\ total = 0 /\ working = 0
    /\ current = None /\ verdict = "nothing"
    /\ booted = TRUE /\ stopping = FALSE
    /\ edits = 0 /\ restarts = 0 /\ setBacks = 0

-------------------------------------------------------------------------------
(***************************************************************************)
(* Commands of users, one transaction each.  An edit that names an old     *)
(* revision is refused and changes nothing.                                *)
(***************************************************************************)
Edit ==
    /\ edits' = edits + 1 /\ UNCHANGED <<restarts, setBacks, booted, stopping>>
    /\ Affordable

Create(t, s, on) ==
    /\ Edit
    /\ row[t] = "unborn"
    /\ on => HasNext(s, now)
    /\ row' = [row EXCEPT ![t] = IF on THEN "enabled" ELSE "paused"]
    /\ schedule' = [schedule EXCEPT ![t] = s]
    /\ due' = [due EXCEPT ![t] = IF on THEN NextDue(s, now) ELSE 0]
    /\ UNCHANGED <<now, occVars, subVars, runVars>>

\* Variant: pausing leaves queued occurrences to the next tick.
UpdateKeepingQueued(t, s, on) ==
    LET kept == row[t] = "enabled" /\ schedule[t] = s
    IN  /\ Edit
        /\ Exists(t)
        /\ on => kept \/ HasNext(s, now)
        /\ row' = [row EXCEPT ![t] = IF on THEN "enabled" ELSE "paused"]
        /\ schedule' = [schedule EXCEPT ![t] = s]
        /\ due' = [due EXCEPT ![t] = IF ~on THEN 0 ELSE IF kept THEN @ ELSE NextDue(s, now)]
        /\ UNCHANGED <<now, occVars, subVars, runVars>>

\* save with Update; pausing cancels what is queued.
Update(t, s, on) ==
    LET kept == row[t] = "enabled" /\ schedule[t] = s
    IN  /\ Edit
        /\ Exists(t)
        /\ on => kept \/ HasNext(s, now)
        /\ row' = [row EXCEPT ![t] = IF on THEN "enabled" ELSE "paused"]
        /\ schedule' = [schedule EXCEPT ![t] = s]
        /\ due' = [due EXCEPT ![t] = IF ~on THEN 0 ELSE IF kept THEN @ ELSE NextDue(s, now)]
        /\ state' = [o \in Occurrences |-> IF o[1] = t /\ ~on /\ state[o] = "queued"
                                           THEN "gone" ELSE state[o]]
        /\ UNCHANGED <<now, dueAt, manual, fixed, told, subVars, runVars>>

\* A delivery under way keeps its row; settle removes it.
Delete(t) ==
    /\ Edit
    /\ Exists(t)
    /\ row' = [row EXCEPT ![t] = "deleted"]
    /\ state' = [o \in Occurrences |-> IF o[1] = t /\ state[o] \in {"queued", "settled"}
                                       THEN "gone" ELSE state[o]]
    /\ UNCHANGED <<now, schedule, due, dueAt, manual, fixed, told, subVars, runVars>>

\* claim_manual: a paused task may be run by hand.
RunNow(t) ==
    \E o \in Occurrences :
        /\ Edit
        /\ o[1] = t /\ IsNext(o) /\ HasRoom(t)
        /\ Exists(t) /\ Insertable(t, now, TRUE)
        /\ state' = [state EXCEPT ![o] = "queued"]
        /\ dueAt' = [dueAt EXCEPT ![o] = now]
        /\ manual' = [manual EXCEPT ![o] = TRUE]
        /\ fixed' = [fixed EXCEPT ![o] = schedule[t].kind # "Every"]
        /\ UNCHANGED <<now, taskVars, told, subVars, runVars>>

-------------------------------------------------------------------------------
(***************************************************************************)
(* settle, one transaction.  The task's own schedule of that moment, not   *)
(* the occurrence's draft, decides what follows.                           *)
(***************************************************************************)
Forget == current' = None /\ verdict' = "nothing"
Back   == IF total = 0 THEN "reconcile" ELSE "deliver"

\* Variant: the task keeps the due time that was just settled.
SettleKeepingDue ==
    LET o == current  t == current[1]
        open == IsOpen(o)
        lives == open /\ Exists(t)
        ends  == lives /\ row[t] = "enabled" /\ ~manual[o] /\ IsOnce(schedule[t])
    IN  /\ step = "settle"
        /\ state' = [state EXCEPT ![o] = IF ~open THEN @ ELSE IF lives THEN "settled" ELSE "gone"]
        /\ told' = [told EXCEPT ![o] = IF lives THEN verdict ELSE @]
        /\ row' = [row EXCEPT ![t] = IF ends THEN "paused" ELSE @]
        /\ UNCHANGED due
        /\ working' = IF total > 0 /\ receipt[o] # "none" THEN working + 1 ELSE working
        /\ step' = Back
        /\ Forget
        /\ UNCHANGED <<now, schedule, dueAt, manual, fixed, subVars, read, pending, queue,
                       cursor, total, daemonVars>>

Settle ==
    LET o == current  t == current[1]
        open == IsOpen(o)
        lives == open /\ Exists(t)
        ends  == lives /\ row[t] = "enabled" /\ ~manual[o] /\ IsOnce(schedule[t])
    IN  /\ step = "settle"
        /\ state' = [state EXCEPT ![o] = IF ~open THEN @ ELSE IF lives THEN "settled" ELSE "gone"]
        /\ told' = [told EXCEPT ![o] = IF lives THEN verdict ELSE @]
        /\ row' = [row EXCEPT ![t] = IF ends THEN "paused" ELSE @]
        /\ due' = [due EXCEPT ![t] = IF ~lives \/ manual[o] THEN @
                                     ELSE IF ends \/ row[t] = "paused" THEN 0
                                     ELSE NextDue(schedule[t], read)]
        /\ working' = IF total > 0 /\ receipt[o] # "none" THEN working + 1 ELSE working
        /\ step' = Back
        /\ Forget
        /\ UNCHANGED <<now, schedule, dueAt, manual, fixed, subVars, read, pending, queue,
                       cursor, total, daemonVars>>

SettleFails ==
    /\ step = "settle"
    /\ step' = Back
    /\ Forget
    /\ UNCHANGED <<now, taskVars, occVars, subVars, read, pending, windowVars, daemonVars>>

\* The tick is over: its local variables are gone.
Rest == step' = "idle" /\ read' = 0 /\ queue' = <<>> /\ total' = 0 /\ working' = 0

\* The outcome in hand, to be settled next.
Conclude(o, outcome) ==
    /\ current' = o
    /\ verdict' = outcome
    /\ step' = "settle"

-------------------------------------------------------------------------------
(***************************************************************************)
(* tick: reconcile.                                                        *)
(***************************************************************************)
Tick ==
    /\ step = "idle" /\ ~stopping
    /\ read' = now
    /\ pending' = Open
    /\ step' = "reconcile"
    /\ UNCHANGED <<now, taskVars, occVars, subVars, windowVars, current, verdict, daemonVars>>

\* The open occurrences could not be read: nothing is reconciled.
TickBlind ==
    /\ step = "idle" /\ ~stopping
    /\ read' = now
    /\ pending' = {}
    /\ step' = "reconcile"
    /\ UNCHANGED <<now, taskVars, occVars, subVars, windowVars, current, verdict, daemonVars>>

Reconciling(o) == step = "reconcile" /\ o \in pending /\ pending' = pending \ {o}

ReconcileKeeps(o) ==
    /\ Reconciling(o)
    /\ state[o] # "preparing"
    /\ state[o] = "queued" => row[o[1]] = "enabled" /\ ~MissedWindow(o, read)
    /\ UNCHANGED <<now, taskVars, occVars, subVars, step, read, windowVars, current,
                   verdict, daemonVars>>

\* reconcile_queued: the task is paused or gone, or the window has passed.
ReconcileCancels(o) ==
    /\ Reconciling(o)
    /\ state[o] = "queued"
    /\ row[o[1]] # "enabled" \/ MissedWindow(o, read)
    /\ Conclude(o, IF row[o[1]] = "enabled" THEN "Missed" ELSE "NotSent")
    /\ UNCHANGED <<now, taskVars, occVars, subVars, read, windowVars, daemonVars>>

\* scheduled_outcome.
Verdict(saved, confirmed) ==
    IF saved = "Accepted" \/ (saved = "Dispatching" /\ confirmed) THEN "Accepted"
    ELSE IF saved = "Rejected" THEN "Rejected"
    ELSE IF saved = "NotSent" \/ (saved \in {"none", "Preparing"} /\ ~confirmed) THEN "NotSent"
    ELSE "Unconfirmed"

\* Variant: an interrupted delivery is taken for one that never left.
ReconcileHasty(o) ==
    /\ Reconciling(o)
    /\ state[o] = "preparing"
    /\ Conclude(o, "NotSent")
    /\ UNCHANGED <<now, taskVars, occVars, subVars, read, windowVars, daemonVars>>

\* Variant: only an occurrence whose submission was stored is resolved.
ReconcileStored(o) ==
    /\ Reconciling(o)
    /\ state[o] = "preparing" /\ receipt[o] # "none"
    /\ Conclude(o, Verdict(receipt[o], FALSE))
    /\ UNCHANGED <<now, taskVars, occVars, subVars, read, windowVars, daemonVars>>

\* reconcile_preparing: nothing is being delivered now, so the preparation is
\* dead; hydrating its session repairs the receipt, and the receipt decides.
ReconcileResolves(o) ==
    /\ Reconciling(o)
    /\ state[o] = "preparing"
    /\ \E saved \in Receipts :
          /\ \/ saved = receipt[o]
             \/ saved = "NotSent" /\ receipt[o] = "Preparing"
             \/ saved = "Unknown" /\ receipt[o] = "Dispatching" /\ input[o] # "handed"
          /\ receipt' = [receipt EXCEPT ![o] = saved]
          /\ Conclude(o, Verdict(saved, FALSE))
    /\ UNCHANGED <<now, taskVars, occVars, input, read, windowVars, daemonVars>>

\* begin only reconciles; a tick goes on unless the daemon is stopping.
ReconcileDone ==
    /\ step = "reconcile" /\ pending = {}
    /\ IF booted /\ ~stopping THEN step' = "claim" /\ UNCHANGED <<read, windowVars>>
       ELSE Rest /\ UNCHANGED cursor
    /\ booted' = TRUE
    /\ UNCHANGED <<now, taskVars, occVars, subVars, pending, current, verdict, stopping, boundVars>>

-------------------------------------------------------------------------------
(***************************************************************************)
(* tick: claim_due, one transaction for all the tasks it takes.            *)
(***************************************************************************)
DueAt(moment) == {t \in Tasks : row[t] = "enabled" /\ due[t] <= moment}
Late(t)       == Missed(schedule[t].kind # "Every", due[t], read)

Claimable == {t \in DueAt(read) : ~HasOpen(t) /\ ~Late(t) /\ HasRoom(t)}
Overdue   == {t \in DueAt(read) : ~HasOpen(t) /\ Late(t)}

\* The first Batch tasks in the order of their due times.
Firsts(S) == {P \in SUBSET S :
                 /\ Cardinality(P) <= Batch
                 /\ P # S => Cardinality(P) = Batch
                 /\ \A p \in P, q \in S \ P : due[p] <= due[q]}

\* Missed times are recorded up to the task that fills the batch.
Claim ==
    \E P \in Firsts(Claimable) :
        LET passed == {t \in Overdue : Cardinality(P) < Batch \/ \E p \in P : due[t] <= due[p]}
            new    == {o \in Occurrences : o[1] \in P /\ IsNext(o)}
        IN  /\ step = "claim"
            /\ \A t \in P : Insertable(t, due[t], FALSE)
            /\ row' = [t \in Tasks |-> IF t \in passed /\ IsOnce(schedule[t]) THEN "paused"
                                       ELSE row[t]]
            /\ due' = [t \in Tasks |-> IF t \notin passed THEN due[t]
                                       ELSE IF IsOnce(schedule[t]) THEN 0
                                       ELSE NextDue(schedule[t], read)]
            /\ state' = [o \in Occurrences |-> IF o \in new THEN "queued" ELSE state[o]]
            /\ dueAt' = [o \in Occurrences |-> IF o \in new THEN due[o[1]] ELSE dueAt[o]]
            /\ fixed' = [o \in Occurrences |-> IF o \in new THEN schedule[o[1]].kind # "Every"
                                               ELSE fixed[o]]
            /\ step' = "read"
            /\ UNCHANGED <<now, schedule, manual, told, subVars, read, pending, windowVars,
                           current, verdict, daemonVars>>

\* The database fails, or an insert meets a unique index: nothing is claimed.
ClaimFails ==
    /\ step = "claim"
    /\ Rest
    /\ UNCHANGED <<now, taskVars, occVars, subVars, pending, cursor, current, verdict, daemonVars>>

-------------------------------------------------------------------------------
(***************************************************************************)
(* tick: the window of queued occurrences at the cursor.                   *)
(***************************************************************************)
Queued == {o \in Occurrences : state[o] = "queued"}
Orders(S) == {q \in [1..Cardinality(S) -> S] :
                 /\ \A i, j \in 1..Cardinality(S) : q[i] = q[j] => i = j
                 /\ \A i, j \in 1..Cardinality(S) : i < j => dueAt[q[i]] <= dueAt[q[j]]}

\* open_occurrences: rows due at one instant come in the order of the scan,
\* some order that is the same at every tick.
Listed(S) == {q \in Orders(S) : q = CHOOSE p \in Orders(S) : TRUE}

Window(q, start) ==
    [i \in 1..(IF Len(q) < Scan THEN Len(q) ELSE Scan) |->
        q[IF start + i <= Len(q) THEN start + i ELSE start + i - Len(q)]]

\* Variant: every tick starts at the head of the queue.
ReadQueueFromHead ==
    /\ step = "read"
    /\ \E q \in Listed(Queued) :
          /\ q # <<>>
          /\ queue' = Window(q, 0)
          /\ total' = Len(q)
          /\ cursor' = 0
    /\ step' = "deliver"
    /\ UNCHANGED <<now, taskVars, occVars, subVars, read, pending, working, current, verdict,
                   daemonVars>>

ReadQueue ==
    /\ step = "read"
    /\ \E q \in Listed(Queued) : \E start \in 0..(Len(q) - 1) :
          /\ start = cursor % Len(q)
          /\ queue' = Window(q, start)
          /\ total' = Len(q)
          /\ cursor' = start
    /\ step' = "deliver"
    /\ UNCHANGED <<now, taskVars, occVars, subVars, read, pending, working, current, verdict,
                   daemonVars>>

\* Nothing is queued, or the queue could not be read.
NothingToDeliver ==
    /\ step = "read"
    /\ Rest
    /\ UNCHANGED <<now, taskVars, occVars, subVars, pending, cursor, current, verdict, daemonVars>>

EndTick ==
    /\ step = "deliver"
    /\ queue = <<>> \/ working = Batch \/ stopping
    /\ Rest
    /\ UNCHANGED <<now, taskVars, occVars, subVars, pending, cursor, current, verdict, daemonVars>>

\* deliver: the cursor passes the occurrence, whatever becomes of it.
Attempt ==
    LET o == Head(queue)
    IN  /\ step = "deliver"
        /\ queue # <<>> /\ working < Batch /\ ~stopping
        /\ queue' = Tail(queue)
        /\ cursor' = IF cursor + 1 >= total THEN 0 ELSE cursor + 1
        /\ read' = now
        /\ IF MissedWindow(o, now) THEN Conclude(o, "Missed")
           ELSE current' = o /\ step' = "admit" /\ UNCHANGED verdict
        /\ UNCHANGED <<now, taskVars, occVars, subVars, pending, total, working, daemonVars>>

-------------------------------------------------------------------------------
(***************************************************************************)
(* deliver: scheduled_admit.                                               *)
(***************************************************************************)
\* The target session is busy, or the daemon has no channel yet.
AdmitDefers ==
    /\ step = "admit"
    /\ step' = "deliver"
    /\ Forget
    /\ UNCHANGED <<now, taskVars, occVars, subVars, read, pending, windowVars, daemonVars>>

\* The target or its project is gone, or reading it failed.
AdmitFails ==
    /\ step = "admit"
    /\ \E outcome \in {"Rejected", "NotSent"} : Conclude(current, outcome)
    /\ UNCHANGED <<now, taskVars, occVars, subVars, read, pending, windowVars, daemonVars>>

\* save_preparation: the queued row, if it is still there, becomes preparing.
Prepare ==
    /\ step = "admit"
    /\ state[current] = "queued"
    /\ state' = [state EXCEPT ![current] = "preparing"]
    /\ step' = "saved"
    /\ UNCHANGED <<now, taskVars, dueAt, manual, fixed, told, subVars, read, pending, windowVars,
                   current, verdict, daemonVars>>

\* AcceptSubmission.
Accept ==
    /\ step = "saved"
    /\ receipt' = [receipt EXCEPT ![current] = "Preparing"]
    /\ step' = "accepted"
    /\ UNCHANGED <<now, taskVars, occVars, input, read, pending, windowVars, current, verdict,
                   daemonVars>>

AcceptFails ==
    /\ step = "saved"
    /\ Conclude(current, "NotSent")
    /\ UNCHANGED <<now, taskVars, occVars, subVars, read, pending, windowVars, daemonVars>>

-------------------------------------------------------------------------------
(***************************************************************************)
(* deliver: scheduled_launch, scheduled_dispatch, scheduled_abandon.       *)
(***************************************************************************)
\* AbandonSubmission: a compare-and-swap from Preparing.
Abandon(o) ==
    receipt' = [receipt EXCEPT ![o] = IF @ = "Preparing" THEN "NotSent" ELSE @]

Launch ==
    /\ step = "accepted" /\ ~stopping
    /\ step' = "launched"
    /\ UNCHANGED <<now, taskVars, occVars, subVars, read, pending, windowVars, current, verdict,
                   daemonVars>>

\* The daemon is stopping, or the launch failed.
Withdraw ==
    /\ step = "accepted"
    /\ Abandon(current)
    /\ Conclude(current, "NotSent")
    /\ read' = now
    /\ UNCHANGED <<now, taskVars, occVars, input, pending, windowVars, daemonVars>>

\* DispatchSubmission claims the receipt and hands the prompt to the driver.
Dispatch ==
    /\ step = "launched"
    /\ receipt[current] = "Preparing"
    /\ receipt' = [receipt EXCEPT ![current] = "Dispatching"]
    /\ input' = [input EXCEPT ![current] = "handed"]
    /\ step' = "dispatched"
    /\ UNCHANGED <<now, taskVars, occVars, read, pending, windowVars, current, verdict, daemonVars>>

DispatchFails ==
    /\ step = "launched"
    /\ Abandon(current)
    /\ Conclude(current, "NotSent")
    /\ read' = now
    /\ UNCHANGED <<now, taskVars, occVars, input, pending, windowVars, daemonVars>>

\* The outcome follows the receipt as it is now, which the driver may have moved.
Dispatched ==
    /\ step = "dispatched"
    /\ Conclude(current, Verdict(receipt[current], TRUE))
    /\ read' = now
    /\ UNCHANGED <<now, taskVars, occVars, subVars, pending, windowVars, daemonVars>>

-------------------------------------------------------------------------------
(***************************************************************************)
(* The driver, the provider and the clients, on the submission.            *)
(***************************************************************************)
Elsewhere == UNCHANGED <<now, taskVars, occVars, runVars, daemonVars>>

WorkerSends(o) ==
    /\ input[o] = "handed" /\ receipt[o] = "Dispatching"
    /\ input' = [input EXCEPT ![o] = "sent"]
    /\ Elsewhere /\ UNCHANGED receipt

WorkerCannotSend(o) ==
    /\ input[o] = "handed"
    /\ input' = [input EXCEPT ![o] = "none"]
    /\ receipt' = [receipt EXCEPT ![o] = IF @ = "Dispatching" THEN "NotSent" ELSE @]
    /\ Elsewhere

WorkerRecords(o) ==
    /\ receipt[o] = "Dispatching" /\ input[o] = "sent"
    /\ \E saved \in {"Unknown", "Accepted", "Rejected"} :
          /\ receipt' = [receipt EXCEPT ![o] = saved]
          /\ input' = [input EXCEPT ![o] = IF saved = "Rejected" THEN "refused" ELSE @]
    /\ Elsewhere

UserAbandons(o) ==
    /\ receipt[o] = "Preparing"
    /\ Abandon(o)
    /\ Elsewhere /\ UNCHANGED input

-------------------------------------------------------------------------------
(***************************************************************************)
(* The daemon process and the clock.                                       *)
(***************************************************************************)
Shutdown ==
    /\ ~stopping /\ stopping' = TRUE
    /\ UNCHANGED <<now, taskVars, occVars, subVars, runVars, booted, boundVars>>
    /\ Affordable

\* The process ends, in order or not, and another begins with reconcile.
Restart ==
    /\ restarts' = restarts + 1 /\ booted' = FALSE /\ stopping' = FALSE
    /\ UNCHANGED <<edits, setBacks>> /\ Affordable
    /\ step' = "reconcile" /\ read' = now /\ pending' = Open
    /\ queue' = <<>> /\ cursor' = 0 /\ total' = 0 /\ working' = 0
    /\ Forget
    /\ input' = [o \in Occurrences |-> IF input[o] = "handed" THEN "none" ELSE input[o]]
    /\ UNCHANGED <<now, taskVars, occVars, receipt>>

Unclocked == UNCHANGED <<taskVars, occVars, subVars, runVars, booted, stopping>>

Advance ==
    /\ now < Horizon
    /\ now' = now + 1
    /\ Unclocked /\ UNCHANGED boundVars

SetBack ==
    /\ setBacks' = setBacks + 1 /\ UNCHANGED <<edits, restarts, stopping>> /\ Affordable
    /\ \E earlier \in 1..Horizon : earlier < now /\ now' = earlier
    /\ Unclocked

-------------------------------------------------------------------------------
Command ==
    \E t \in Tasks :
        \/ \E s \in Schedules, on \in BOOLEAN : Create(t, s, on) \/ Update(t, s, on)
        \/ Delete(t) \/ RunNow(t)
Ticker ==
    \/ Tick \/ TickBlind
    \/ \E o \in Occurrences : ReconcileKeeps(o) \/ ReconcileCancels(o) \/ ReconcileResolves(o)
    \/ ReconcileDone \/ Claim \/ ClaimFails \/ ReadQueue \/ NothingToDeliver \/ EndTick \/ Attempt
    \/ AdmitDefers \/ AdmitFails \/ Prepare \/ Accept \/ AcceptFails
    \/ Launch \/ Withdraw \/ Dispatch \/ DispatchFails \/ Dispatched
    \/ Settle \/ SettleFails
Driver ==
    \E o \in Occurrences :
        \/ WorkerSends(o) \/ WorkerCannotSend(o) \/ WorkerRecords(o) \/ UserAbandons(o)

Next == Command \/ Ticker \/ Driver \/ Shutdown \/ Restart \/ Advance \/ SetBack

\* The ticker runs, and the database does not fail it for ever.
Fairness ==
    /\ WF_vars(Ticker)
    /\ SF_vars(Tick) /\ SF_vars(Claim) /\ SF_vars(ReadQueue) /\ SF_vars(Settle)

Spec == Init /\ [][Next]_vars
FairSpec == Spec /\ Fairness
-------------------------------------------------------------------------------
(***************************************************************************)
(* Properties.                                                             *)
(***************************************************************************)

\* What the properties rest on: an occurrence that has not begun has no
\* submission, one in hand is the only one the ticker may submit, an outcome
\* in hand is true, and a task has one open occurrence at most.
Submitted(o) == receipt[o] # "none"
Unsent(o)    == receipt[o] \in {"none", "Preparing", "NotSent"}
Held == step \in {"saved", "accepted", "launched", "dispatched"}
InHand ==
    /\ step \in {"admit", "settle"} \/ Held => current # None
    /\ Held => state[current] = "preparing"
    /\ step \in {"admit", "saved"} => ~Submitted(current)
    /\ step \in {"accepted", "launched"} => Unsent(current)
    /\ step = "settle" /\ verdict \in {"NotSent", "Missed"} => Unsent(current)
    /\ step = "settle" /\ verdict = "Rejected" => receipt[current] \in {"none", "Rejected"}
InWindow ==
    /\ \A i \in 1..Len(queue) : ~Submitted(queue[i]) /\ state[queue[i]] \in {"queued", "gone"}
    /\ \A i, j \in 1..Len(queue) : queue[i] = queue[j] => i = j
    /\ step \in {"idle", "reconcile", "claim", "read"} \/ total = 0 => queue = <<>>
    /\ step \in {"admit", "settle"} \/ Held => \A i \in 1..Len(queue) : queue[i] # current
OneOpen == \A o, p \in Open : o[1] = p[1] => o = p
Submissions ==
    \A o \in Occurrences :
        /\ state[o] \in {"unused", "queued"} => ~Submitted(o)
        /\ Submitted(o) /\ state[o] = "gone" => row[o[1]] = "deleted"
        /\ state[o] = "queued" /\ ~manual[o] => row[o[1]] = "enabled"
        /\ row[o[1]] = "unborn" => state[o] = "unused"
        /\ Unsent(o) => input[o] = "none"
        /\ receipt[o] = "Rejected" => input[o] = "refused"
        /\ state[o] \notin {"settled", "gone"} => told[o] = "nothing"
        /\ told[o] \in {"NotSent", "Missed"} => Unsent(o)
        /\ told[o] = "Rejected" => receipt[o] \in {"none", "Rejected"}
\* Of two automatic rows of a task that are there, or were submitted, the due
\* times differ.
Kept(o) == state[o] \in {"queued", "preparing", "settled"} \/ Submitted(o)
OneEach ==
    \A o, p \in Occurrences :
        Kept(o) /\ Kept(p) /\ ~manual[o] /\ ~manual[p] /\ o[1] = p[1] /\ dueAt[o] = dueAt[p]
            => o = p
\* While the clock only advances, what was claimed was due, and the next due
\* time of a task lies after its automatic runs.
Automatic == {o \in Occurrences : ~manual[o] /\ state[o] \in {"queued", "preparing", "settled"}}
Timely ==
    setBacks = 0 =>
        /\ read <= now
        /\ \A o \in Automatic :
              /\ dueAt[o] <= now
              /\ step # "idle" => dueAt[o] <= read
              /\ state[o] = "settled" /\ row[o[1]] = "enabled" => dueAt[o] < due[o[1]]
TasksInv == TypeOK /\ InHand /\ InWindow /\ OneOpen /\ Submissions /\ OneEach /\ Timely

\* What a task's history says stays true: a run reported as not sent, missed
\* or rejected was not and will not be executed, whatever failed in between
\* and wherever the daemon stopped.
HonestHistory ==
    \A o \in Occurrences :
        /\ told[o] \in {"NotSent", "Missed"} => input[o] = "none"
        /\ told[o] = "Rejected" => input[o] \in {"none", "refused"}

\* One due time of a task reaches a session once, although ticks, restarts,
\* retries and a clock that is set back meet it several times.
DueOnce ==
    \A o, p \in Occurrences :
        Submitted(o) /\ Submitted(p) /\ ~manual[o] /\ ~manual[p]
            /\ o[1] = p[1] /\ dueAt[o] = dueAt[p] => o = p

\* A paused or deleted task starts no run of its own, even one that was
\* claimed and read by the ticker before the user paused the task.
PausedNeverStarts ==
    [][\A o \in Occurrences :
          state[o] # "preparing" /\ state'[o] = "preparing"
              => manual[o] \/ row[o[1]] = "enabled"]_vars

\* While the clock only advances, no insert of claim_due meets a unique
\* index: one that did would undo the whole claim and block every task.
ClaimsGoThrough ==
    setBacks = 0 /\ step = "claim" =>
        \A t \in Claimable : Insertable(t, due[t], FALSE)

\* The window moves on: every queued occurrence is taken up again and again
\* until it is delivered or cancelled, however many sessions are busy.
NoneStarves ==
    \A o \in Occurrences :
        state[o] = "queued" ~> current = o \/ state[o] # "queued" \/ stopping

\* A delivery that a failure or a crash interrupted is settled by a later tick.
DeliveryEnds ==
    \A o \in Occurrences : state[o] = "preparing" ~> state[o] # "preparing" \/ stopping
===============================================================================
