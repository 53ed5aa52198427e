---------------------------- MODULE SessionRuntimes ----------------------------
(***************************************************************************)
(* The provider runtime of one session, as four parts of the daemon know   *)
(* it: the backend, which owns the driver; the hub, which passes on the    *)
(* events of the active runtime only; the mailbox worker, which executes   *)
(* the session's requests in order and retires when no runtime is active;  *)
(* and the scheduler, which starts runtimes outside the mailbox.           *)
(***************************************************************************)
EXTENDS Naturals, Sequences

CONSTANTS
    Runtimes, None,
    MaxRequests,   \* bound: requests of clients
    MaxLaunches,   \* bound: launches of the scheduler
    MaxPanics      \* bound: panics of a mailbox worker

RuntimesConstants ==
    /\ None \notin Runtimes
    /\ MaxRequests \in Nat /\ MaxLaunches \in Nat /\ MaxPanics \in Nat

Ids == 1..MaxRequests
Kinds == {"Start", "Close", "Attach", "Other", "Remove"}
Requests == [id : Ids, kind : Kinds, rt : Runtimes]

VARIABLES
    hub,        \* HubState.active_runtimes of the session
    backend,    \* the runtime in DaemonBackend.sessions
    live,       \* is_transport_live of that runtime
    removed,    \* removed_session_ids: no, marked, or marked and removed
    gate,       \* holder of session_cleanup_gate
    used,       \* runtime ids given out
    mailbox,    \* whether the registry has a mailbox
    queue,      \* the requests in its channel
    worker,     \* its worker: none, ready, begun, starting, failed, done; dead after a panic
    job,        \* the request it handles
    known,      \* its active_runtime_id
    ok,         \* the outcome of the request handled
    sent, answered, \* requests sent by clients, and those answered
    voided,     \* requests that a panic took along
    sched, srt, \* scheduled_launch: where it is, and its runtime
    launches, panics,
    crossed,    \* a Start of the mailbox has overlapped a launch or a project removal
    kept        \* a Start has ended without touching the runtime in place

mailVars  == <<mailbox, queue, worker, job, known, ok, sent, answered, voided, panics>>
schedVars == <<sched, srt, launches>>
coreVars  == <<hub, backend, live, removed, gate, used>>
vars == <<mailVars, schedVars, coreVars, crossed, kept>>

TypeOK ==
    /\ hub \in Runtimes \cup {None} /\ backend \in Runtimes \cup {None}
    /\ live \in BOOLEAN /\ removed \in {"no", "marked", "gone"}
    /\ gate \in {"free", "worker", "sched"} /\ used \subseteq Runtimes
    /\ mailbox \in BOOLEAN /\ queue \in Seq(Requests)
    /\ worker \in {"none", "ready", "begun", "starting", "failed", "done", "dead"}
    /\ job \in Requests \cup {None} /\ known \in Runtimes \cup {None} /\ ok \in BOOLEAN
    /\ sent \in 0..MaxRequests /\ answered \subseteq Ids /\ voided \subseteq Ids
    /\ sched \in {"none", "checked", "begun", "starting", "started", "failed"}
    /\ srt \in Runtimes \cup {None}
    /\ launches \in Nat /\ panics \in Nat
    /\ crossed \in BOOLEAN /\ kept \in BOOLEAN

Init ==
    /\ hub = None /\ backend = None /\ live = FALSE /\ removed = "no"
    /\ gate = "free" /\ used = {}
    /\ mailbox = FALSE /\ queue = <<>> /\ worker = "none" /\ job = None /\ known = None
    /\ ok = FALSE /\ sent = 0 /\ answered = {} /\ voided = {}
    /\ sched = "none" /\ srt = None /\ launches = 0 /\ panics = 0
    /\ crossed = FALSE /\ kept = FALSE

\* Variant: ends whatever runtime is active.
EndAny(r) == None

\* Hub::end_runtime of a runtime: only while it is the active one.
End(r) == IF hub = r THEN None ELSE hub

WorkerStarts == worker \in {"begun", "starting"}
SchedStarts  == sched \in {"begun", "starting"}

-------------------------------------------------------------------------------
(***************************************************************************)
(* dispatch_runtime, under the registry lock.  A mailbox whose worker      *)
(* panicked has no receiver: it is replaced by a new one.                  *)
(***************************************************************************)
Dispatch(kind, r) ==
    LET request == [id |-> sent + 1, kind |-> kind, rt |-> r]
    IN  /\ sent < MaxRequests
        /\ IF kind = "Start" THEN r \notin used /\ used' = used \cup {r}
           ELSE r \in used /\ UNCHANGED used
        /\ sent' = sent + 1
        /\ IF mailbox /\ worker # "dead"
           THEN queue' = Append(queue, request) /\ UNCHANGED <<mailbox, worker, known>>
           ELSE mailbox' = TRUE /\ queue' = <<request>> /\ worker' = "ready" /\ known' = None
        /\ UNCHANGED <<hub, backend, live, removed, gate, job, ok, answered, voided, panics,
                       schedVars, crossed, kept>>

-------------------------------------------------------------------------------
(***************************************************************************)
(* run_runtime_mailbox and handle_request.                                 *)
(***************************************************************************)
Finish(outcome) == worker' = "done" /\ ok' = outcome
MailRest == UNCHANGED <<mailbox, sent, answered, voided, panics>>

Receive ==
    /\ worker = "ready" /\ queue # <<>> /\ job = None
    /\ job' = Head(queue) /\ queue' = Tail(queue)
    /\ UNCHANGED <<mailbox, worker, known, ok, sent, answered, voided, panics, schedVars,
                   coreVars, crossed, kept>>

Handling(kind) == worker = "ready" /\ job # None /\ job.kind = kind

\* handle_request begins the runtime in the hub before the backend has a say.
BeginStart ==
    /\ Handling("Start")
    /\ hub' = job.rt
    /\ worker' = "begun"
    /\ crossed' = (crossed \/ SchedStarts)
    /\ UNCHANGED <<backend, live, removed, gate, used, queue, job, known, ok, schedVars, kept>>
    /\ MailRest

\* The session was removed, or the configured binary is not valid.
StartRefused ==
    /\ worker = "begun" /\ gate = "free"
    /\ worker' = "failed"
    /\ kept' = (kept \/ backend # None)
    /\ UNCHANGED <<coreVars, queue, job, known, ok, schedVars, crossed>>
    /\ MailRest

StartTakesPrevious ==
    /\ worker = "begun" /\ gate = "free" /\ removed = "no"
    /\ gate' = "worker" /\ worker' = "starting"
    /\ backend' = None /\ live' = FALSE
    /\ UNCHANGED <<hub, removed, used, queue, job, known, ok, schedVars, crossed, kept>>
    /\ MailRest

StartInserts ==
    /\ worker = "starting"
    /\ backend' = job.rt /\ live' = TRUE /\ kept' = FALSE
    /\ gate' = "free"
    /\ Finish(TRUE)
    /\ UNCHANGED <<hub, removed, used, queue, job, known, schedVars, crossed>>
    /\ MailRest

StartFails ==
    /\ worker = "starting"
    /\ gate' = "free" /\ worker' = "failed"
    /\ UNCHANGED <<hub, backend, live, removed, used, queue, job, known, ok, schedVars,
                   crossed, kept>>
    /\ MailRest

StartEnds ==
    /\ worker = "failed"
    /\ hub' = End(job.rt)
    /\ Finish(FALSE)
    /\ UNCHANGED <<backend, live, removed, gate, used, queue, job, known, schedVars, crossed, kept>>
    /\ MailRest

Close ==
    /\ Handling("Close")
    /\ backend' = IF backend = job.rt THEN None ELSE backend
    /\ live' = (live /\ backend' # None)
    /\ Finish(TRUE)
    /\ UNCHANGED <<hub, removed, gate, used, queue, job, known, schedVars, crossed, kept>>
    /\ MailRest

\* A runtime whose server is gone is dropped, and nothing is reported; a live one
\* is what a new worker rediscovers.
Attach ==
    /\ Handling("Attach")
    /\ backend' = IF live THEN backend ELSE None
    /\ known' = IF live THEN backend ELSE known
    /\ Finish(TRUE)
    /\ UNCHANGED <<hub, live, removed, gate, used, queue, job, schedVars, crossed, kept>>
    /\ MailRest

Other ==
    /\ Handling("Other")
    /\ Finish(backend = job.rt)
    /\ UNCHANGED <<coreVars, queue, job, known, schedVars, crossed, kept>>
    /\ MailRest

Remove ==
    /\ Handling("Remove")
    /\ removed' = "gone" /\ backend' = None /\ live' = FALSE
    /\ Finish(TRUE)
    /\ UNCHANGED <<hub, gate, used, queue, job, known, schedVars, crossed, kept>>
    /\ MailRest

\* The task state could not be saved: the mark stays, and so does the runtime.
RemoveFails ==
    /\ Handling("Remove")
    /\ removed' = IF removed = "no" THEN "marked" ELSE removed
    /\ Finish(FALSE)
    /\ UNCHANGED <<hub, backend, live, gate, used, queue, job, known, schedVars, crossed, kept>>
    /\ MailRest

\* The response, and what the worker makes of it for itself and the hub.
Reply ==
    /\ worker = "done"
    /\ answered' = answered \cup {job.id}
    /\ LET closes == ok /\ (job.kind = "Remove" \/ (job.kind = "Close" /\ known = job.rt))
       IN  /\ hub' = IF closes THEN IF job.kind = "Remove" THEN None ELSE End(job.rt) ELSE hub
           /\ known' = IF job.kind = "Start" THEN IF ok THEN job.rt ELSE None
                       ELSE IF closes THEN None
                       ELSE IF job.kind = "Other" /\ ok /\ known = None THEN job.rt
                       ELSE known
    /\ job' = None /\ worker' = "ready"
    /\ UNCHANGED <<backend, live, removed, gate, used, mailbox, queue, ok, sent, voided, panics,
                   schedVars, crossed, kept>>

\* Variant: looks at the queue before it takes the registry lock.
RetireLate ==
    /\ worker = "ready" /\ job = None /\ known = None
    /\ mailbox' = FALSE /\ worker' = "none" /\ queue' = <<>>
    /\ UNCHANGED <<known, job, ok, sent, answered, voided, panics, schedVars, coreVars,
                   crossed, kept>>

\* take_queued_request_or_retire, under the registry lock.
Retire ==
    /\ worker = "ready" /\ job = None /\ known = None /\ queue = <<>>
    /\ mailbox' = FALSE /\ worker' = "none"
    /\ UNCHANGED <<queue, known, job, ok, sent, answered, voided, panics, schedVars, coreVars,
                   crossed, kept>>

\* A panic in the backend unwinds the worker with all its channel holds.
Panic ==
    /\ panics < MaxPanics /\ panics' = panics + 1
    /\ job # None /\ worker \in {"ready", "begun", "starting"}
    /\ worker' = "dead" /\ job' = None /\ queue' = <<>>
    /\ voided' = voided \cup {job.id} \cup {queue[i].id : i \in 1..Len(queue)}
    /\ gate' = IF gate = "worker" THEN "free" ELSE gate
    /\ kept' = (kept \/ (worker = "begun" /\ backend # None))
    /\ UNCHANGED <<hub, backend, live, removed, used, mailbox, known, ok, sent, answered,
                   schedVars, crossed>>

-------------------------------------------------------------------------------
(***************************************************************************)
(* scheduled_launch.                                                       *)
(***************************************************************************)
SchedRest == UNCHANGED <<mailVars, launches>>

Launch(r) ==
    /\ sched = "none" /\ launches < MaxLaunches
    /\ removed = "no" /\ backend = None /\ r \notin used
    /\ used' = used \cup {r} /\ srt' = r
    /\ sched' = "checked" /\ launches' = launches + 1
    /\ UNCHANGED <<mailVars, hub, backend, live, removed, gate, crossed, kept>>

LaunchBegins ==
    /\ sched = "checked"
    /\ hub' = srt /\ sched' = "begun"
    /\ crossed' = (crossed \/ WorkerStarts)
    /\ UNCHANGED <<backend, live, removed, gate, used, srt, kept>>
    /\ SchedRest

LaunchRefused ==
    /\ sched = "begun" /\ gate = "free"
    /\ sched' = "failed"
    /\ kept' = (kept \/ backend # None)
    /\ UNCHANGED <<coreVars, srt, crossed>>
    /\ SchedRest

LaunchTakesPrevious ==
    /\ sched = "begun" /\ gate = "free" /\ removed = "no"
    /\ gate' = "sched" /\ sched' = "starting"
    /\ backend' = None /\ live' = FALSE
    /\ UNCHANGED <<hub, removed, used, srt, crossed, kept>>
    /\ SchedRest

LaunchInserts ==
    /\ sched = "starting"
    /\ backend' = srt /\ live' = TRUE /\ kept' = FALSE
    /\ gate' = "free" /\ sched' = "started"
    /\ UNCHANGED <<hub, removed, used, srt, crossed>>
    /\ SchedRest

LaunchFails ==
    /\ sched = "starting"
    /\ gate' = "free" /\ sched' = "failed"
    /\ UNCHANGED <<hub, backend, live, removed, used, srt, crossed, kept>>
    /\ SchedRest

LaunchEnds ==
    /\ sched = "failed"
    /\ hub' = End(srt)
    /\ sched' = "none" /\ srt' = None
    /\ UNCHANGED <<backend, live, removed, gate, used, crossed, kept>>
    /\ SchedRest

\* Variant: trusts the check that Start made.
ConfirmStarted ==
    /\ sched = "started"
    /\ sched' = "none" /\ srt' = None
    /\ UNCHANGED <<coreVars, crossed, kept>>
    /\ SchedRest

\* The session may have been removed while its runtime started.
Confirm ==
    /\ sched = "started"
    /\ IF removed = "no" THEN UNCHANGED <<hub, backend, live>>
       ELSE /\ backend' = IF backend = srt THEN None ELSE backend
            /\ live' = (live /\ backend' # None)
            /\ hub' = End(srt)
    /\ sched' = "none" /\ srt' = None
    /\ UNCHANGED <<removed, gate, used, crossed, kept>>
    /\ SchedRest

-------------------------------------------------------------------------------
(***************************************************************************)
(* Elsewhere in the daemon.                                                *)
(***************************************************************************)
\* remove_project_from_catalog, on a thread of its own and without the gate.
RemoveProject ==
    /\ removed # "gone"
    /\ removed' = "gone" /\ backend' = None /\ live' = FALSE
    /\ crossed' = (crossed \/ WorkerStarts)
    /\ UNCHANGED <<hub, gate, used, mailVars, schedVars, kept>>

\* The server behind the runtime exits.
TransportDies ==
    /\ live /\ live' = FALSE
    /\ UNCHANGED <<hub, backend, removed, gate, used, mailVars, schedVars, crossed, kept>>

Worker ==
    \/ Receive \/ BeginStart \/ StartRefused \/ StartTakesPrevious \/ StartInserts \/ StartFails
    \/ StartEnds \/ Close \/ Attach \/ Other \/ Remove \/ RemoveFails \/ Reply \/ Retire
Scheduler ==
    \/ LaunchBegins \/ LaunchRefused \/ LaunchTakesPrevious \/ LaunchInserts
    \/ LaunchFails \/ LaunchEnds \/ Confirm

Next ==
    \/ \E kind \in Kinds, r \in Runtimes : Dispatch(kind, r)
    \/ Worker \/ Panic
    \/ Scheduler \/ \E r \in Runtimes : Launch(r)
    \/ RemoveProject \/ TransportDies

Spec == Init /\ [][Next]_vars

\* The worker and the scheduler run, and neither waits for ever for the gate.
Fairness == SF_vars(Worker) /\ WF_vars(Scheduler)
FairSpec == Spec /\ Fairness

-------------------------------------------------------------------------------
(***************************************************************************)
(* Properties.                                                             *)
(***************************************************************************)
\* The events of the runtime that works for the session reach its clients:
\* what mailbox, scheduler, removals and a replaced actor do to the hub and
\* the backend in different orders leaves the two in agreement.  The
\* exceptions are what `crossed` and `kept` record: a launch that overlaps a
\* Start of a client, and a Start that is refused while a runtime works.
Quiet == ~WorkerStarts /\ worker # "failed" /\ sched \in {"none", "checked"}
LiveRuntimeIsHeard ==
    Quiet /\ backend # None => hub = backend \/ crossed \/ kept

\* A removed session keeps no provider runtime, even when it is removed while
\* the scheduler starts one.
RemovedStaysDown ==
    removed = "gone" /\ Quiet => backend = None \/ crossed

\* What the properties rest on.  A request is in hand where the worker's
\* place says so, and who starts a provider holds the gate and has dropped the
\* previous runtime.
Holding ==
    /\ mailbox \/ worker = "none"
    /\ worker \in {"none", "dead"} => job = None
    /\ worker = "done" => job # None
    /\ worker \in {"begun", "starting", "failed"} => job # None /\ job.kind = "Start"
    /\ gate = "worker" <=> worker = "starting"
    /\ gate = "sched" <=> sched = "starting"
    /\ gate # "free" => backend = None
\* A runtime id is new when it is given out: the scheduler's is no client's,
\* and nobody knows it as active before it is.
Fresh ==
    /\ hub \in used \cup {None} /\ backend \in used \cup {None}
    /\ known \in used \cup {None} /\ srt \in used \cup {None}
    /\ job # None => job.rt \in used /\ (job.kind = "Start" => job.rt # srt)
    /\ sched \in {"checked", "begun", "starting", "failed"} =>
          /\ srt # None /\ backend # srt /\ known # srt
          /\ worker = "done" /\ ok /\ job.kind = "Other" => job.rt # srt
Waiting ==
    \A i \in 1..Len(queue) :
        queue[i].rt \in used /\ (queue[i].kind = "Start" => queue[i].rt # srt)
\* The hub, unless starts have overlapped.
Heard ==
    ~crossed =>
        /\ ~(WorkerStarts /\ SchedStarts)
        /\ WorkerStarts => hub = job.rt
        /\ SchedStarts => hub = srt \/ (hub = None /\ removed = "gone")
        /\ worker = "done" /\ job.kind = "Close" /\ known = job.rt => backend # job.rt
        /\ ~kept =>
              /\ backend \in {None, hub} \/ worker = "begun" \/ sched = "begun"
                    \/ (sched = "started" /\ backend = srt /\ removed # "no")
              /\ worker = "failed" /\ hub = job.rt => backend = None
              /\ sched = "failed" /\ hub = srt => backend = None
\* A removed session, unless its removal has overlapped a start.
Gone ==
    /\ worker = "done" /\ ok /\ job.kind = "Remove" => removed = "gone"
    /\ removed = "gone" /\ ~crossed =>
          /\ worker # "starting"
          /\ backend = None \/ (sched = "started" /\ backend = srt)
RuntimesInv == TypeOK /\ Holding /\ Fresh /\ Waiting /\ Heard /\ Gone

\* A request joins the actor before it retires, or its successor: each is
\* answered, unless a panic took it along.
EveryRequestAnswered ==
    \A i \in Ids : sent >= i ~> i \in answered \cup voided
===============================================================================
