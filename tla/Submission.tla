------------------------------ MODULE Submission ------------------------------
(***************************************************************************)
(* The durable submission protocol of one session of the Fintwind daemon.  *)
(*                                                                         *)
(* A prompt is first saved as a receipt (AcceptSubmission), then claimed   *)
(* and handed to a provider driver (DispatchSubmission), whose worker      *)
(* thread POSTs it to OpenCode.  Around that path run the request threads  *)
(* that hold the task_state lock, the event thread of each runtime, the    *)
(* scheduler's unlocked hydration, the native-history reader, clients that *)
(* disconnect, provider servers that die, and daemon crashes.  The rows of *)
(* the submissions table change only through the compare-and-swap          *)
(* transition_submission.                                                  *)
(*                                                                         *)
(* Sessions interact only through the task_state lock, so one session is   *)
(* modelled; its runtimes are successive driver generations.               *)
(***************************************************************************)
EXTENDS Naturals, Sequences

CONSTANTS
    Submissions,         \* turn ids, each the key of one submissions row
    Runtimes,            \* ids of driver generations; each is started once
    None,                \* no runtime attached / no submission fenced
    Scheduled,           \* TRUE when a scheduled task targets the session
    MaxCrashes           \* bound: daemon crashes in a behaviour

ASSUME NoneAssumption == None \notin Submissions /\ None \notin Runtimes
ASSUME BoundAssumption ==
    Scheduled \in BOOLEAN /\ MaxCrashes \in Nat

(***************************************************************************)
(* SubmissionState of submission.rs; "Absent" is a row never inserted.     *)
(***************************************************************************)
States   == {"Preparing", "Dispatching", "Accepted", "Unknown", "NotSent", "Rejected"}
Receipts == States \cup {"Absent"}
Failures == {"NotSent", "Rejected"}
Unconfirmed == {"Dispatching", "Unknown"}           \* is_unconfirmed
Unsettled   == {"Preparing", "Dispatching", "Unknown"}
TurnStatuses    == {"Running", "Completed", "Failed", "Interrupted"}
SessionStatuses == {"Idle", "Connecting", "Working", "Failed"}

Rank(state) ==
    CASE state = "Absent"      -> 0
      [] state = "Preparing"   -> 0
      [] state = "Dispatching" -> 1
      [] state = "Unknown"     -> 2
      [] OTHER                 -> 3

\* Two receipts of one rank carry the same fact, so updated_at decides nothing.
Supersedes(next, prior) == Rank(next) >= Rank(prior)

(***************************************************************************)
(* Where the Prompt command of a claimed submission is: with the request   *)
(* thread, in the driver's command channel, or with the driver worker.     *)
(***************************************************************************)
Places   == {"none", "submitting", "queued", "claimed", "posted", "answered", "done"}
AtWorker == {"claimed", "posted", "answered"}
\* The input at the provider: on the wire, refused, dropped, stored, executed.
Inputs == {"none", "wire", "refused", "lost", "stored", "finished"}
Stored == {"stored", "finished"}
Servers == {"unstarted", "starting", "live", "dead"}

Events == [kind : {"updated"}, id : Submissions, state : Receipts]
            \cup [kind : {"finished"}, success : BOOLEAN]

\* One pending UPDATE of transition_submission, with the row it read.
Swaps == [id : Submissions, from : {"Preparing", "Dispatching"}, native : BOOLEAN]
Requests == {"Read", "Accept", "Dispatch"}
Hydrators == {"locked", "admit"}

VARIABLES
    receipt,    \* submissions table: state column
    native,     \* submissions table: receipt.native_session_id is recorded
    disk,       \* the session row: receipts, turn statuses and session status
    turns,      \* session.turns, in order (memory and disk change together)
    projected,  \* turn.submission.state in daemon memory
    status,     \* turn.status in daemon memory
    session,    \* session.status in daemon memory
    attached,   \* sessions map: the runtime registered for the session
    preparing,  \* active_preparations whose source is still connected
    request,    \* the request holding the task_state lock
    hydrating,  \* hydrations under way
    seen,       \* receipts a hydration loaded
    pending,    \* updates a hydration has decided on but not executed
    reader,     \* fetch_native_transcript between its two lock holds
    server,     \* provider server behind each driver generation
    place, via, \* the Prompt command of a submission, and its driver
    outcome,    \* what the worker made of the POST's response
    fence,      \* SubmissionFence: the input of the worker's active turn
    events,     \* DriverEvents waiting for the daemon's event thread
    input,      \* the input at the provider
    posts,      \* POSTs that left the daemon
    crashes

dbVars     == <<receipt, native, disk>>
memVars    == <<turns, projected, status, session>>
lockVars   == <<request, hydrating, seen, pending>>
driverVars == <<server, place, via, outcome, fence, events>>
vars == <<dbVars, memVars, attached, preparing, lockVars, reader, driverVars,
          input, posts, crashes>>

Idle == [kind |-> "none", id |-> None, rt |-> None]
Blank == [s \in Submissions |-> "Absent"]
Projection == [projected |-> projected, status |-> status, session |-> session]
NoReader == [stage |-> "none", seen |-> Blank,
             before |-> [projected |-> Blank,
                         status |-> [s \in Submissions |-> "Running"],
                         session |-> "Idle"],
             history |-> {}]

InSession == {turns[i] : i \in 1..Len(turns)}
LastTurn  == IF turns = <<>> THEN None ELSE turns[Len(turns)]
Free      == request.kind = "none"

IsBusy(s) == s \in {"Connecting", "Working"}
HasUnsettledSubmissions(ids, rec, stat) ==
    \E s \in ids : stat[s] = "Running" \/ rec[s] \in Unsettled
IsSessionWorking(ids, rec, stat) ==
    \E s \in ids : stat[s] = "Running" \/ rec[s] \in {"Preparing", "Dispatching"}

Projections == [projected : [Submissions -> Receipts],
                status : [Submissions -> TurnStatuses],
                session : SessionStatuses]

LockHolders ==
    [kind : {"none", "Read"}, id : {None}, rt : {None}]
        \cup [kind : {"Accept"}, id : Submissions, rt : {None}]
        \cup [kind : {"Dispatch", "Submit"}, id : Submissions, rt : Runtimes]

TypeOK ==
    /\ receipt \in [Submissions -> Receipts]
    /\ native \in [Submissions -> BOOLEAN]
    /\ disk \in Projections
    /\ turns \in Seq(Submissions)
    /\ projected \in [Submissions -> Receipts]
    /\ status \in [Submissions -> TurnStatuses]
    /\ session \in SessionStatuses
    /\ attached \in Runtimes \cup {None}
    /\ preparing \in SUBSET Submissions
    /\ request \in LockHolders
    /\ hydrating \in SUBSET Hydrators
    /\ seen \in [Hydrators -> [Submissions -> Receipts]]
    /\ pending \in [Hydrators -> SUBSET Swaps]
    /\ reader \in [stage : {"none", "fetch", "cold", "reconcile"},
                   seen : [Submissions -> Receipts], before : Projections,
                   history : SUBSET Submissions]
    /\ server \in [Runtimes -> Servers]
    /\ place \in [Submissions -> Places]
    /\ via \in [Submissions -> Runtimes \cup {None}]
    /\ outcome \in [Submissions -> Receipts]
    /\ fence \in [Runtimes -> Submissions \cup {None}]
    /\ events \in [Runtimes -> Seq(Events)]
    /\ input \in [Submissions -> Inputs]
    /\ posts \in [Submissions -> Nat]
    /\ crashes \in 0..MaxCrashes

Init ==
    /\ receipt = Blank
    /\ native = [s \in Submissions |-> FALSE]
    /\ turns = <<>>
    /\ projected = Blank
    /\ status = [s \in Submissions |-> "Running"]
    /\ session = "Idle"
    /\ disk = Projection
    /\ attached = None
    /\ preparing = {}
    /\ request = Idle
    /\ hydrating = {}
    /\ seen = [h \in Hydrators |-> Blank]
    /\ pending = [h \in Hydrators |-> {}]
    /\ reader = NoReader
    /\ server = [r \in Runtimes |-> "unstarted"]
    /\ place = [s \in Submissions |-> "none"]
    /\ via = [s \in Submissions |-> None]
    /\ outcome = Blank
    /\ fence = [r \in Runtimes |-> None]
    /\ events = [r \in Runtimes |-> <<>>]
    /\ input = [s \in Submissions |-> "none"]
    /\ posts = [s \in Submissions |-> 0]
    /\ crashes = 0

-------------------------------------------------------------------------------
(***************************************************************************)
(* hydrate_submission_session.  The receipts, whether a runtime is         *)
(* attached and which preparations still have a connected source are read  *)
(* first; every repair is then a compare-and-swap that other threads can   *)
(* run ahead of.  The UPDATE writes back the whole row it read, the native *)
(* session association included.                                           *)
(***************************************************************************)
Repairable(s) ==
    /\ s \in InSession
    /\ receipt[s] # "Absent"
    /\ s \notin preparing
    /\ attached = None \/ receipt[s] = "Preparing"

\* Variant: a claim interrupted by a crash is taken for one never sent.
RepairedOptimistic(state) == "NotSent"
Repaired(state) == IF state = "Preparing" THEN "NotSent" ELSE "Unknown"

HydrateRead(h) ==
    /\ hydrating' = hydrating \cup {h}
    /\ seen' = [seen EXCEPT ![h] = receipt]
    /\ pending' = [pending EXCEPT ![h] =
           {[id |-> s, from |-> receipt[s], native |-> native[s]] :
                s \in {t \in Submissions : Repairable(t)
                                   /\ receipt[t] \in {"Preparing", "Dispatching"}}}]

\* Variant: the UPDATE does not compare the state it read.
HydrateUpdateBlind(h) ==
    \E swap \in pending[h] :
        /\ receipt' = [receipt EXCEPT ![swap.id] = Repaired(swap.from)]
        /\ native' = [native EXCEPT ![swap.id] = swap.native]
        /\ seen' = [seen EXCEPT ![h][swap.id] = Repaired(swap.from)]
        /\ pending' = [pending EXCEPT ![h] = @ \ {swap}]
        /\ UNCHANGED <<disk, memVars, attached, preparing, request, hydrating,
                       reader, driverVars, input, posts, crashes>>

HydrateUpdate(h) ==
    \E swap \in pending[h] :
        LET current == receipt[swap.id] = swap.from
            state   == IF current THEN Repaired(swap.from) ELSE receipt[swap.id]
        IN  /\ receipt' = [receipt EXCEPT ![swap.id] = state]
            /\ native' = IF current THEN [native EXCEPT ![swap.id] = swap.native]
                                    ELSE native
            /\ seen' = [seen EXCEPT ![h][swap.id] = state]
            /\ pending' = [pending EXCEPT ![h] = @ \ {swap}]
            /\ UNCHANGED <<disk, memVars, attached, preparing, request, hydrating,
                           reader, driverVars, input, posts, crashes>>

\* What the hydration leaves in the session: fresh receipts, turns that are
\* known never to run interrupted, and a status derived from both.
HydratedReceipts ==
    [s \in Submissions |-> IF s \in InSession THEN seen["locked"][s] ELSE projected[s]]
HydratedStatus ==
    [s \in Submissions |->
        IF s \in InSession /\ HydratedReceipts[s] \in Failures /\ status[s] = "Running"
        THEN "Interrupted" ELSE status[s]]
HydratedSession ==
    LET working == IsSessionWorking(InSession, HydratedReceipts, HydratedStatus)
    IN  IF HydratedStatus # status THEN IF working THEN "Working" ELSE "Idle"
        ELSE IF session = "Working" /\ ~working THEN "Idle" ELSE session

Hydrated == hydrating \cap {"locked"} # {} /\ pending["locked"] = {}
EndLockedHydration ==
    /\ hydrating' = hydrating \ {"locked"}
    /\ seen' = [seen EXCEPT !["locked"] = Blank]
    /\ UNCHANGED pending
TakeHydrated ==
    /\ projected' = HydratedReceipts
    /\ status' = HydratedStatus
    /\ session' = HydratedSession

\* Variant: a request does not wait for the lock.
BeginRequestUnlocked(kind, s, r) ==
    /\ request' = [kind |-> kind, id |-> s, rt |-> r]
    /\ HydrateRead("locked")
    /\ UNCHANGED <<dbVars, memVars, attached, preparing, reader, driverVars, input, posts, crashes>>

\* A request takes the task_state lock and starts by hydrating its session.
BeginRequest(kind, s, r) ==
    /\ Free
    /\ request' = [kind |-> kind, id |-> s, rt |-> r]
    /\ HydrateRead("locked")
    /\ UNCHANGED <<dbVars, memVars, attached, preparing, reader, driverVars, input, posts, crashes>>

Read        == BeginRequest("Read", None, None)
Accept(s)   == BeginRequest("Accept", s, None)
Dispatch(s, r) == BeginRequest("Dispatch", s, r)

\* scheduled_admit hydrates a clone of the session without the lock.
AdmitHydrate ==
    /\ Scheduled
    /\ "admit" \notin hydrating
    /\ HydrateRead("admit")
    /\ UNCHANGED <<dbVars, memVars, attached, preparing, request, reader, driverVars,
                   input, posts, crashes>>
AdmitHydrated ==
    /\ "admit" \in hydrating /\ pending["admit"] = {}
    /\ hydrating' = hydrating \ {"admit"}
    /\ seen' = [seen EXCEPT !["admit"] = Blank]
    /\ UNCHANGED <<dbVars, memVars, attached, preparing, request, pending, reader,
                   driverVars, input, posts, crashes>>

-------------------------------------------------------------------------------
(***************************************************************************)
(* AcceptSubmission.  A saved row is returned as it is; a new one is       *)
(* refused while the session is busy or has an unsettled submission, and   *)
(* otherwise saved in one commit with the session that shows it.           *)
(***************************************************************************)
\* Variant: the gate looks at receipts alone and takes Unknown for settled.
SessionGateLax ==
    \A s \in InSession : HydratedReceipts[s] \notin {"Preparing", "Dispatching"}

SessionGateOpen ==
    /\ ~IsBusy(HydratedSession)
    /\ ~HasUnsettledSubmissions(InSession, HydratedReceipts, HydratedStatus)

AcceptSave ==
    LET s == request.id IN
    /\ request.kind = "Accept" /\ Hydrated
    /\ receipt[s] = "Absent" /\ SessionGateOpen
    /\ receipt' = [receipt EXCEPT ![s] = "Preparing"]
    /\ turns' = Append(turns, s)
    /\ projected' = [HydratedReceipts EXCEPT ![s] = "Preparing"]
    /\ status' = [HydratedStatus EXCEPT ![s] = "Running"]
    /\ session' = "Connecting"
    /\ disk' = [projected |-> projected', status |-> status', session |-> session']
    /\ preparing' = preparing \cup {s}
    /\ request' = Idle
    /\ EndLockedHydration
    /\ UNCHANGED <<native, attached, reader, driverVars, input, posts, crashes>>

AcceptReturn ==
    /\ request.kind = "Accept" /\ Hydrated
    /\ receipt[request.id] # "Absent" \/ ~SessionGateOpen
    /\ TakeHydrated
    /\ request' = Idle
    /\ EndLockedHydration
    /\ UNCHANGED <<dbVars, turns, attached, preparing, reader, driverVars, input,
                   posts, crashes>>

(***************************************************************************)
(* DispatchSubmission.  Only a Preparing receipt, on the attached and live *)
(* runtime, for the last turn, is claimed; the claim is a durable          *)
(* compare-and-swap that precedes the hand-over to the driver.             *)
(***************************************************************************)
\* Variant: a submission in doubt may be dispatched again.
DispatchableAgain(s, r) ==
    /\ receipt[s] \in {"Preparing", "Unknown"}
    /\ attached = r
    /\ server[r] = "live"
    /\ LastTurn = s

Dispatchable(s, r) ==
    /\ receipt[s] = "Preparing"
    /\ attached = r
    /\ server[r] = "live"
    /\ LastTurn = s

DispatchClaim ==
    LET s == request.id  r == request.rt IN
    /\ request.kind = "Dispatch" /\ Hydrated
    /\ Dispatchable(s, r)
    /\ receipt' = [receipt EXCEPT ![s] = "Dispatching"]
    /\ disk' = [projected |-> HydratedReceipts, status |-> HydratedStatus,
                session |-> HydratedSession]
    /\ projected' = [HydratedReceipts EXCEPT ![s] = "Dispatching"]
    /\ status' = HydratedStatus
    /\ session' = HydratedSession
    /\ preparing' = preparing \ {s}
    /\ place' = [place EXCEPT ![s] = "submitting"]
    /\ via' = [via EXCEPT ![s] = r]
    /\ request' = [request EXCEPT !.kind = "Submit"]
    /\ EndLockedHydration
    /\ UNCHANGED <<native, turns, attached, reader, server, outcome, fence,
                   events, input, posts, crashes>>

DispatchReturn ==
    LET s == request.id  r == request.rt IN
    /\ request.kind = "Dispatch" /\ Hydrated
    /\ ~Dispatchable(s, r)
    /\ TakeHydrated
    /\ attached' = IF receipt[s] = "Preparing" /\ attached = r /\ server[r] = "dead"
                   THEN None ELSE attached
    /\ request' = Idle
    /\ EndLockedHydration
    /\ UNCHANGED <<dbVars, turns, preparing, reader, driverVars, input, posts, crashes>>

\* driver.submit: the Prompt enters the driver's command channel ...
DispatchSubmit ==
    /\ request.kind = "Submit"
    /\ place' = [place EXCEPT ![request.id] = "queued"]
    /\ request' = Idle
    /\ UNCHANGED <<dbVars, memVars, attached, preparing, hydrating, seen, pending,
                   reader, server, via, outcome, fence, events, input, posts, crashes>>

\* ... or its worker is gone, and the claim is provably unsent.
DispatchSubmitFails ==
    LET s == request.id IN
    /\ request.kind = "Submit"
    /\ place' = [place EXCEPT ![s] = "done"]
    /\ via' = [via EXCEPT ![s] = None]
    /\ request' = Idle
    /\ IF receipt[s] = "Dispatching"
       THEN /\ receipt' = [receipt EXCEPT ![s] = "NotSent"]
            /\ projected' = [projected EXCEPT ![s] = "NotSent"]
            /\ status' = IF status[s] = "Running" THEN [status EXCEPT ![s] = "Failed"]
                                                  ELSE status
            /\ session' = "Idle"
            /\ disk' = [projected |-> projected', status |-> status', session |-> "Idle"]
       ELSE UNCHANGED <<receipt, projected, status, session, disk>>
    /\ UNCHANGED <<native, turns, attached, preparing, hydrating, seen, pending, reader,
                   server, outcome, fence, events, input, posts, crashes>>

(***************************************************************************)
(* AbandonSubmission: cleanup of a preparation, also sent after an         *)
(* uncertain dispatch response; only Preparing proves nothing was claimed. *)
(***************************************************************************)
\* Variant: cleanup after an uncertain dispatch also fails a claimed row.
AbandonClaimed(s) ==
    /\ Free
    /\ receipt[s] # "Absent"
    /\ preparing' = preparing \ {s}
    /\ IF receipt[s] \in Unsettled
       THEN /\ receipt' = [receipt EXCEPT ![s] = "NotSent"]
            /\ projected' = [projected EXCEPT ![s] = "NotSent"]
       ELSE UNCHANGED <<receipt, projected>>
    /\ UNCHANGED <<native, disk, turns, status, session, attached, lockVars, reader,
                   driverVars, input, posts, crashes>>

Abandon(s) ==
    /\ Free
    /\ receipt[s] # "Absent"
    /\ preparing' = preparing \ {s}
    /\ IF receipt[s] = "Preparing"
       THEN /\ receipt' = [receipt EXCEPT ![s] = "NotSent"]
            /\ projected' = [projected EXCEPT ![s] = "NotSent"]
            /\ status' = IF status[s] = "Running" THEN [status EXCEPT ![s] = "Failed"]
                                                  ELSE status
            /\ session' = IF IsSessionWorking(InSession, projected', status')
                          THEN session ELSE "Idle"
            /\ disk' = [projected |-> projected', status |-> status', session |-> session']
       ELSE UNCHANGED <<receipt, projected, status, session, disk>>
    /\ UNCHANGED <<native, turns, attached, lockVars, reader, driverVars, input,
                   posts, crashes>>

-------------------------------------------------------------------------------
(***************************************************************************)
(* Runtimes.  Start drops the previous driver before the new one exists;   *)
(* CloseSession and AttachSession drop a handle under the sessions lock    *)
(* only, so none of these waits for task_state.  A dropped driver's worker *)
(* still drains its command channel.                                       *)
(***************************************************************************)
runtimeFrame == <<dbVars, memVars, preparing, lockVars, reader, place, via, outcome,
                  fence, events, input, posts, crashes>>

StartBegin(r) ==
    /\ server[r] = "unstarted"
    /\ attached' = None
    /\ server' = [server EXCEPT ![r] = "starting"]
    /\ UNCHANGED runtimeFrame

Started(r) ==
    /\ server[r] = "starting"
    /\ attached' = r
    /\ server' = [server EXCEPT ![r] = "live"]
    /\ UNCHANGED runtimeFrame

StartFails(r) ==
    /\ server[r] = "starting"
    /\ server' = [server EXCEPT ![r] = "dead"]
    /\ UNCHANGED <<runtimeFrame, attached>>

Detach(r) ==
    /\ attached = r
    /\ attached' = None
    /\ UNCHANGED <<runtimeFrame, server>>

ServerDies(r) ==
    /\ server[r] = "live"
    /\ server' = [server EXCEPT ![r] = "dead"]
    /\ UNCHANGED <<runtimeFrame, attached>>

Disconnect(s) ==
    /\ s \in preparing
    /\ preparing' = preparing \ {s}
    /\ UNCHANGED <<dbVars, memVars, attached, lockVars, reader, driverVars, input,
                   posts, crashes>>

-------------------------------------------------------------------------------
(***************************************************************************)
(* The driver worker, one Prompt at a time.                                *)
(***************************************************************************)
WorkerIdle(r) == \A s \in Submissions : via[s] = r => place[s] \notin AtWorker
Updated(s, state)  == [kind |-> "updated", id |-> s, state |-> state]
Finished(success)  == [kind |-> "finished", success |-> success]
Send(r, batch)     == events' = [events EXCEPT ![r] = @ \o batch]
workerFrame == <<disk, memVars, attached, preparing, lockVars, reader, server, crashes>>

\* A dead private server settles the claim as not sent before any POST.
WorkerDeadServer(r, s) ==
    /\ place[s] = "queued" /\ via[s] = r /\ WorkerIdle(r)
    /\ server[r] = "dead"
    /\ place' = [place EXCEPT ![s] = "done"]
    /\ via' = [via EXCEPT ![s] = None]
    /\ fence' = [fence EXCEPT ![r] = None]
    /\ IF receipt[s] = "Dispatching"
       THEN /\ receipt' = [receipt EXCEPT ![s] = "NotSent"]
            /\ native' = [native EXCEPT ![s] = TRUE]
            /\ Send(r, <<Updated(s, "NotSent"), Finished(FALSE)>>)
       ELSE /\ Send(r, <<Finished(FALSE)>>)
            /\ UNCHANGED <<receipt, native>>
    /\ UNCHANGED <<workerFrame, outcome, input, posts>>

\* The native association is persisted before the POST; a claim that was
\* taken over in the meantime forbids the POST.
WorkerClaim(r, s) ==
    /\ place[s] = "queued" /\ via[s] = r /\ WorkerIdle(r)
    /\ server[r] # "dead"
    /\ IF receipt[s] = "Dispatching"
       THEN /\ native' = [native EXCEPT ![s] = TRUE]
            /\ place' = [place EXCEPT ![s] = "claimed"]
            /\ fence' = [fence EXCEPT ![r] = s]
            /\ Send(r, <<Updated(s, "Dispatching")>>)
            /\ UNCHANGED via
       ELSE /\ place' = [place EXCEPT ![s] = "done"]
            /\ via' = [via EXCEPT ![s] = None]
            /\ UNCHANGED <<native, fence, events>>
    /\ UNCHANGED <<workerFrame, receipt, outcome, input, posts>>

\* Variant: an error after the POST left is still taken for "not sent".
WorkerCannotSendLate(s) ==
    /\ place[s] \in {"claimed", "posted"}
    /\ place' = [place EXCEPT ![s] = "answered"]
    /\ outcome' = [outcome EXCEPT ![s] = "NotSent"]
    /\ UNCHANGED <<workerFrame, receipt, native, via, fence, events, input, posts>>

\* Attachment encoding failed or no connection was made: nothing left.
WorkerCannotSend(s) ==
    /\ place[s] = "claimed"
    /\ place' = [place EXCEPT ![s] = "answered"]
    /\ outcome' = [outcome EXCEPT ![s] = "NotSent"]
    /\ UNCHANGED <<workerFrame, receipt, native, via, fence, events, input, posts>>

WorkerPost(s) ==
    /\ place[s] = "claimed"
    /\ server[via[s]] # "dead"
    /\ place' = [place EXCEPT ![s] = "posted"]
    /\ input' = [input EXCEPT ![s] = "wire"]
    /\ posts' = [posts EXCEPT ![s] = @ + 1]
    /\ UNCHANGED <<workerFrame, receipt, native, via, outcome, fence, events>>

\* Variant: a lost response counts as a rejection.
WorkerAnsweredHasty(s, state) ==
    /\ place[s] = "posted"
    /\ state = "Accepted" => input[s] \in Stored
    /\ place' = [place EXCEPT ![s] = "answered"]
    /\ outcome' = [outcome EXCEPT ![s] = state]
    /\ UNCHANGED <<workerFrame, receipt, native, via, fence, events, input, posts>>

\* classify_submit_error over the responses the provider can have sent; a
\* timeout or a lost response tells nothing.
WorkerAnswered(s, state) ==
    /\ place[s] = "posted"
    /\ \/ state = "Accepted" /\ input[s] \in Stored
       \/ state = "Rejected" /\ input[s] = "refused"
       \/ state = "Unknown"
    /\ place' = [place EXCEPT ![s] = "answered"]
    /\ outcome' = [outcome EXCEPT ![s] = state]
    /\ UNCHANGED <<workerFrame, receipt, native, via, fence, events, input, posts>>

\* Variant: an uncertain outcome is not recorded at all.
WorkerRecordCertain(s) ==
    LET r == via[s]
        stands == receipt[s] = "Dispatching" /\ outcome[s] # "Unknown"
    IN
    /\ place[s] = "answered"
    /\ place' = [place EXCEPT ![s] = "done"]
    /\ via' = [via EXCEPT ![s] = None]
    /\ outcome' = [outcome EXCEPT ![s] = "Absent"]
    /\ receipt' = IF stands THEN [receipt EXCEPT ![s] = outcome[s]] ELSE receipt
    /\ Send(r, IF stands THEN <<Updated(s, outcome[s])>> ELSE <<>>)
    /\ UNCHANGED <<workerFrame, native, fence, input, posts>>

\* The response becomes the receipt if the claim still stands; a failed
\* prompt ends the worker's active turn.
WorkerRecord(s) ==
    LET r      == via[s]
        stands == receipt[s] = "Dispatching"
        ends   == outcome[s] \in Failures /\ fence[r] # None
    IN
    /\ place[s] = "answered"
    /\ place' = [place EXCEPT ![s] = "done"]
    /\ via' = [via EXCEPT ![s] = None]
    /\ outcome' = [outcome EXCEPT ![s] = "Absent"]
    /\ receipt' = IF stands THEN [receipt EXCEPT ![s] = outcome[s]] ELSE receipt
    /\ native' = IF stands THEN [native EXCEPT ![s] = TRUE] ELSE native
    /\ fence' = IF ends THEN [fence EXCEPT ![r] = None] ELSE fence
    /\ Send(r, (IF stands THEN <<Updated(s, outcome[s])>> ELSE <<>>)
               \o (IF ends THEN <<Finished(FALSE)>> ELSE <<>>))
    /\ UNCHANGED <<workerFrame, input, posts>>

(***************************************************************************)
(* The stream thread of an attached, live driver proves from durable       *)
(* history that the fenced input ran to its end: confirm_receipt, then     *)
(* TurnFinished.                                                           *)
(***************************************************************************)
\* Variant: a stored input ends the turn although it still executes.
TurnEndsEarly(r, success) ==
    LET s == fence[r] IN
    /\ s # None
    /\ attached = r /\ server[r] = "live"
    /\ input[s] \in Stored
    /\ place[s] \in {"answered", "done"}
    /\ receipt' = IF receipt[s] \in Unconfirmed
                  THEN [receipt EXCEPT ![s] = "Accepted"] ELSE receipt
    /\ fence' = [fence EXCEPT ![r] = None]
    /\ Send(r, <<Updated(s, "Accepted"), Finished(success)>>)
    /\ UNCHANGED <<workerFrame, native, place, via, outcome, input, posts>>

\* Variant: the proven confirmation is published but not saved.
TurnEndsUnsaved(r, success) ==
    LET s == fence[r] IN
    /\ s # None
    /\ attached = r /\ server[r] = "live"
    /\ input[s] = "finished"
    /\ place[s] \in {"answered", "done"}
    /\ fence' = [fence EXCEPT ![r] = None]
    /\ Send(r, <<Updated(s, "Accepted"), Finished(success)>>)
    /\ UNCHANGED <<workerFrame, receipt, native, place, via, outcome, input, posts>>

TurnEnds(r, success) ==
    LET s == fence[r] IN
    /\ s # None
    /\ attached = r /\ server[r] = "live"
    /\ input[s] = "finished"
    /\ place[s] \in {"answered", "done"}
    /\ receipt' = IF receipt[s] \in Unconfirmed
                  THEN [receipt EXCEPT ![s] = "Accepted"] ELSE receipt
    /\ fence' = [fence EXCEPT ![r] = None]
    /\ Send(r, IF receipt[s] \in Unconfirmed
               THEN <<Updated(s, "Accepted"), Finished(success)>>
               ELSE <<Finished(success)>>)
    /\ UNCHANGED <<workerFrame, native, place, via, outcome, input, posts>>

-------------------------------------------------------------------------------
(***************************************************************************)
(* The event thread of a runtime, under the task_state lock.  A receipt is *)
(* projected monotonically; a TurnFinished closes the session's last turn. *)
(***************************************************************************)
ApplyEvent(r) ==
    /\ Free
    /\ events[r] # <<>>
    /\ events' = [events EXCEPT ![r] = Tail(@)]
    /\ LET e == Head(events[r])
           updates == e.kind = "updated" /\ attached = r /\ e.id \in InSession
                         /\ Supersedes(e.state, projected[e.id])
           closes  == e.kind = "finished" /\ attached = r /\ turns # <<>>
                         /\ projected[LastTurn] \in
                                {"Accepted", "Dispatching", "Unknown", "Rejected"}
       IN  /\ projected' = IF updates THEN [projected EXCEPT ![e.id] = e.state]
                           ELSE projected
           /\ IF closes
              THEN /\ status' = IF status[LastTurn] = "Running"
                                THEN [status EXCEPT ![LastTurn] =
                                        IF e.success THEN "Completed" ELSE "Failed"]
                                ELSE status
                   /\ session' = IF e.success THEN "Idle" ELSE "Failed"
                   /\ disk' = [projected |-> projected', status |-> status',
                               session |-> session']
              ELSE UNCHANGED <<status, session, disk>>
    /\ UNCHANGED <<receipt, native, turns, attached, preparing, lockVars, reader, server,
                   place, via, outcome, fence, input, posts, crashes>>

-------------------------------------------------------------------------------
(***************************************************************************)
(* fetch_native_transcript.  The session is hydrated and copied under the  *)
(* lock; if no runtime is attached the provider's history is then read     *)
(* without it, unconfirmed receipts found in that history are accepted one *)
(* by one, and the projection is replaced only if nothing changed it       *)
(* meanwhile and no runtime attached.                                      *)
(***************************************************************************)
readerFrame == <<turns, attached, preparing, driverVars, input, posts, crashes>>

ReadDone ==
    /\ request.kind = "Read" /\ Hydrated
    /\ TakeHydrated
    /\ \/ UNCHANGED <<disk, reader>>    \* superseded at once, or failed
       \/ /\ Scheduled                   \* scheduled_resolve_interrupted
          /\ disk' = [projected |-> HydratedReceipts, status |-> HydratedStatus,
                       session |-> HydratedSession]
          /\ UNCHANGED reader
       \/ /\ reader.stage = "none"
          /\ reader' = [stage |-> "fetch", seen |-> HydratedReceipts,
                         before |-> [projected |-> HydratedReceipts,
                                     status |-> HydratedStatus,
                                     session |-> HydratedSession],
                         history |-> {}]
          /\ UNCHANGED disk
    /\ request' = Idle
    /\ EndLockedHydration
    /\ UNCHANGED <<receipt, native, readerFrame>>

\* The runtime is looked up once, before the history is read.
ReaderCold ==
    /\ reader.stage = "fetch"
    /\ attached = None
    /\ reader' = [stage |-> "cold", seen |-> reader.seen, before |-> reader.before,
                   history |-> {}]
    /\ UNCHANGED <<dbVars, memVars, lockVars, readerFrame>>

\* Variant: a transcript that could be read confirms every turn.
ReaderFetchTrusting ==
    /\ reader.stage = "cold"
    /\ reader' = [stage |-> "reconcile", seen |-> reader.seen, before |-> reader.before,
                   history |-> InSession]
    /\ UNCHANGED <<dbVars, memVars, lockVars, readerFrame>>

ReaderFetch ==
    /\ reader.stage = "cold"
    /\ reader' = [stage |-> "reconcile", seen |-> reader.seen, before |-> reader.before,
                   history |-> {s \in InSession : input[s] \in Stored}]
    /\ UNCHANGED <<dbVars, memVars, lockVars, readerFrame>>

ReaderConfirm(s) ==
    /\ reader.stage = "reconcile"
    /\ s \in reader.history
    /\ reader.seen[s] \in Unconfirmed
    /\ reader' = [stage |-> "reconcile", seen |-> [reader.seen EXCEPT ![s] = "Accepted"],
                   before |-> reader.before, history |-> reader.history]
    /\ IF receipt[s] = reader.seen[s]
       THEN /\ receipt' = [receipt EXCEPT ![s] = "Accepted"]
            /\ native' = [native EXCEPT ![s] = TRUE]
       ELSE UNCHANGED <<receipt, native>>
    /\ UNCHANGED <<disk, memVars, lockVars, readerFrame>>

\* reconcile_saved_submission may prove, in a read of its own before the lock
\* is taken again, that one accepted turn ran to its end.
ReaderMerge ==
    \E over \in {{}} \cup {{s} : s \in {t \in InSession : input[t] = "finished"}} :
    LET merged == [s \in Submissions |-> IF s \in InSession THEN receipt[s] ELSE projected[s]]
        closed == [s \in Submissions |->
                      IF s \in over /\ status[s] = "Running" /\ receipt[s] = "Accepted"
                      THEN "Completed" ELSE status[s]]
    IN
    /\ reader.stage = "reconcile"
    /\ \A s \in reader.history : reader.seen[s] \notin Unconfirmed
    /\ Free
    /\ attached = None
    /\ Projection = reader.before
    /\ InSession \cap preparing = {}
    /\ projected' = merged
    /\ status' = closed
    /\ session' = IF IsSessionWorking(InSession, merged, closed) THEN "Working" ELSE "Idle"
    /\ disk' = [projected |-> merged, status |-> closed, session |-> session']
    /\ reader' = NoReader
    /\ UNCHANGED <<receipt, native, lockVars, readerFrame>>

\* An I/O error, a runtime attached at the read, a newer read or a changed
\* projection ends the read without a merge.
ReaderGivesUp ==
    /\ reader.stage # "none"
    /\ reader' = NoReader
    /\ UNCHANGED <<dbVars, memVars, lockVars, readerFrame>>

-------------------------------------------------------------------------------
(***************************************************************************)
(* The provider: an input on the wire is stored, refused or lost, at any   *)
(* time after the POST left, and a stored input is eventually executed.    *)
(***************************************************************************)
providerFrame == <<dbVars, memVars, attached, preparing, lockVars, reader, driverVars,
                   posts, crashes>>
ProviderStores(s) ==
    /\ input[s] = "wire"
    /\ input' = [input EXCEPT ![s] = "stored"]
    /\ UNCHANGED providerFrame
ProviderDrops(s) ==
    /\ input[s] = "wire"
    /\ \E fate \in {"refused", "lost"} : input' = [input EXCEPT ![s] = fate]
    /\ UNCHANGED providerFrame
ProviderFinishes(s) ==
    /\ input[s] = "stored"
    /\ input' = [input EXCEPT ![s] = "finished"]
    /\ UNCHANGED providerFrame

\* The daemon process ends at any point and is started again.
Crash ==
    /\ crashes < MaxCrashes
    /\ crashes' = crashes + 1
    /\ projected' = disk.projected
    /\ status' = disk.status
    /\ session' = disk.session
    /\ attached' = None
    /\ preparing' = {}
    /\ request' = Idle
    /\ hydrating' = {}
    /\ seen' = [h \in Hydrators |-> Blank]
    /\ pending' = [h \in Hydrators |-> {}]
    /\ reader' = NoReader
    /\ server' = [r \in Runtimes |-> IF server[r] = "unstarted" THEN "unstarted" ELSE "dead"]
    /\ place' = [s \in Submissions |-> IF place[s] = "none" THEN "none" ELSE "done"]
    /\ via' = [s \in Submissions |-> None]
    /\ outcome' = Blank
    /\ fence' = [r \in Runtimes |-> None]
    /\ events' = [r \in Runtimes |-> <<>>]
    /\ UNCHANGED <<dbVars, turns, input, posts>>

-------------------------------------------------------------------------------
Hydration == (\E h \in Hydrators : HydrateUpdate(h)) \/ AdmitHydrate \/ AdmitHydrated
RequestBody ==
    \/ AcceptSave \/ AcceptReturn
    \/ DispatchClaim \/ DispatchReturn \/ DispatchSubmit \/ DispatchSubmitFails
    \/ ReadDone
Worker(r, s) ==
    \/ WorkerDeadServer(r, s) \/ WorkerClaim(r, s)
    \/ /\ via[s] = r
       /\ \/ WorkerCannotSend(s) \/ WorkerPost(s) \/ WorkerRecord(s)
          \/ \E state \in {"Accepted", "Rejected", "Unknown"} : WorkerAnswered(s, state)

Next ==
    \/ Read \/ Hydration \/ RequestBody
    \/ \E s \in Submissions :
          \/ Accept(s) \/ Abandon(s) \/ Disconnect(s) \/ ReaderConfirm(s)
          \/ ProviderStores(s) \/ ProviderDrops(s) \/ ProviderFinishes(s)
          \/ \E r \in Runtimes : Dispatch(s, r) \/ Worker(r, s)
    \/ \E r \in Runtimes :
          \/ StartBegin(r) \/ Started(r) \/ StartFails(r) \/ Detach(r) \/ ServerDies(r)
          \/ ApplyEvent(r)
          \/ \E success \in BOOLEAN : TurnEnds(r, success)
    \/ ReaderCold \/ ReaderFetch \/ ReaderMerge \/ ReaderGivesUp
    \/ Crash

Spec == Init /\ [][Next]_vars
-------------------------------------------------------------------------------
(***************************************************************************)
(* Properties.                                                             *)
(***************************************************************************)

\* However often a submission is accepted, dispatched, retried, hydrated or
\* interrupted by a crash, at most one POST of it leaves the daemon
\* ("An old receipt never permits another POST").
AtMostOnePost == \A s \in Submissions : posts[s] <= 1

\* A receipt that reports NotSent or Rejected tells the truth for good: the
\* input is not stored, not on its way, and no worker can still send it.
FailureIsFinal ==
    \A s \in Submissions :
        receipt[s] \in Failures =>
            /\ input[s] \notin Stored \cup {"wire"}
            /\ place[s] \notin {"submitting", "queued", "claimed", "posted"}

\* Accepted, whoever wrote it (worker, stream thread or history reader),
\* means that the provider holds the input.
AcceptedIsStored ==
    \A s \in Submissions : receipt[s] = "Accepted" => input[s] \in Stored

\* The admission gate works on hydrated copies, the receipts live in the
\* database: still at most one submission of a session is unsettled there.
OneUnsettled ==
    \A s, t \in Submissions :
        receipt[s] \in Unsettled /\ receipt[t] \in Unsettled => s = t

\* Events and reads reach daemon memory late and out of order with the
\* database, but a verdict shown there is the verdict that was recorded.
VerdictIsRecorded ==
    \A s \in Submissions :
        projected[s] \in Failures \cup {"Accepted"} => projected[s] = receipt[s]

\* A receipt only moves forward: a claim is never handed back to Preparing,
\* a verdict never changes, and Unknown is only ever resolved to Accepted.
ReceiptsOnlyAdvance ==
    [][\A s \in Submissions :
          \/ receipt'[s] = receipt[s]
          \/ Rank(receipt[s]) < Rank(receipt'[s])
                /\ (receipt[s] = "Unknown" => receipt'[s] = "Accepted")
          \/ receipt[s] = "Absent"]_vars

\* A running turn is closed only when its execution is over or its input is
\* known never to run ("Publish the verified execution boundary before a
\* client can submit its successor").
TurnClosedOnlyWhenOver ==
    [][\A s \in Submissions :
          status[s] = "Running" /\ status'[s] # "Running" =>
              input[s] = "finished" \/ receipt'[s] \in Failures]_vars

\* An input that left the daemon has its native session recorded with it
\* ("Persist the native session association before the side effect").
PostedIsAssociated ==
    \A s \in Submissions : posts[s] > 0 => native[s]

\* A claim does not stay in doubt inside a running daemon: the worker, or a
\* hydration after the runtime went away, always replaces Dispatching.
ClaimIsResolved ==
    \A s \in Submissions : receipt[s] = "Dispatching" ~> receipt[s] # "Dispatching"

\* A thread that holds the task_state lock goes on; a driver worker drains
\* its channel; an HTTP request ends at its timeout at the latest.
Fairness ==
    /\ WF_vars(RequestBody)
    /\ WF_vars(HydrateUpdate("locked"))
    /\ \A r \in Runtimes, s \in Submissions : WF_vars(Worker(r, s))
FairSpec == Spec /\ Fairness

(***************************************************************************)
(* The protocol keeps the promise of InputDelivery: the receipt is what    *)
(* the session says, and the provider's side decides the fate.             *)
(***************************************************************************)
Told(state) ==
    CASE state \in {"Absent", "Preparing", "Dispatching"} -> "nothing"
      [] state = "Unknown"  -> "unsure"
      [] state = "Accepted" -> "delivered"
      [] OTHER              -> "failed"

Fate(s) ==
    IF receipt[s] = "Absent" THEN "new"
    ELSE IF input[s] \in Stored THEN "delivered"
    ELSE IF receipt[s] \in Failures \/ input[s] \in {"refused", "lost"} THEN "dropped"
    ELSE "pending"

Delivery == INSTANCE InputDelivery
                WITH fate <- [s \in Submissions |-> Fate(s)],
                     told <- [s \in Submissions |-> Told(receipt[s])]

\* Through every interleaving and crash, an input reaches the provider at
\* most once, its receipt never lies, and no other input overtakes it.
KeepsPromise == Delivery!Promise

-------------------------------------------------------------------------------
(***************************************************************************)
(* The inductive invariant behind the safety properties.                   *)
(***************************************************************************)
Verdicts == Failures \cup {"Accepted"}

\* The lock: who holds it hydrates first, and only its holder submits.
LockInv ==
    /\ request.kind \in Requests <=> "locked" \in hydrating
    /\ \A s \in Submissions :
          place[s] = "submitting" => request.kind = "Submit" /\ request.id = s
    /\ request.kind = "Submit" => place[request.id] = "submitting"

\* The row, the Prompt and the provider's input of one submission agree.
Consistent(s) ==
    /\ posts[s] = IF input[s] = "none" THEN 0 ELSE 1
    /\ receipt[s] \in {"Absent", "Preparing"} => place[s] = "none"
    /\ place[s] = "none" =>
          receipt[s] \in {"Absent", "Preparing", "NotSent"} /\ input[s] = "none"
    /\ place[s] \in {"submitting", "queued", "claimed"} =>
          receipt[s] \in Unconfirmed /\ input[s] = "none"
    /\ place[s] = "posted" =>
          receipt[s] \in Unconfirmed \cup {"Accepted"} /\ input[s] # "none"
    /\ place[s] = "answered" =>
          /\ receipt[s] \in Unconfirmed \cup {"Accepted"}
          /\ outcome[s] \in Verdicts \cup {"Unknown"}
          /\ outcome[s] = "NotSent" => input[s] = "none"
          /\ outcome[s] = "Rejected" => input[s] = "refused"
          /\ outcome[s] = "Accepted" => input[s] \in Stored
    /\ receipt[s] \in Failures => input[s] \notin Stored \cup {"wire"}
    /\ receipt[s] = "Accepted" => input[s] \in Stored

\* A verdict seen anywhere outside the table is the one in the table.
Truthful(e, rec) ==
    e.kind = "updated" /\ e.state \in Verdicts => e.state = rec[e.id]

KnownVerdicts ==
    /\ \A s \in Submissions :
          /\ projected[s] \in Verdicts => projected[s] = receipt[s]
          /\ disk.projected[s] \in Verdicts => disk.projected[s] = receipt[s]
          /\ "locked" \in hydrating /\ seen["locked"][s] \in Verdicts =>
                seen["locked"][s] = receipt[s]
    /\ \A r \in Runtimes : \A i \in 1..Len(events[r]) : Truthful(events[r][i], receipt)

\* What a hydration under the lock has not seen cannot be unsettled.
NothingMissed ==
    /\ \A s \in Submissions : receipt[s] # "Absent" => s \in InSession
    /\ "locked" \in hydrating =>
          \A s \in Submissions :
              seen["locked"][s] = "Absent" => receipt[s] \notin Unsettled

\* A driver that was dropped is never attached again.
Gone(r) == server[r] \notin {"unstarted", "starting"} /\ attached # r
\* No attached driver has the Prompt.
Adrift(s) == via[s] = None \/ Gone(via[s])
Over(s) == input[s] = "finished" \/ receipt[s] \in Failures

\* A claim is in doubt, or about to be, only when no attached driver can end
\* its turn; an end that an attached driver reports is one of an execution, or
\* of an input that never runs; a turn closed on disk is closed in memory.
Ends ==
    /\ \A r \in Runtimes :
          server[r] \in {"unstarted", "starting"} =>
              attached # r /\ \A s \in Submissions : via[s] # r
    /\ \A h \in Hydrators : \A swap \in pending[h] :
          swap.from = "Dispatching" =>
              receipt[swap.id] \notin {"Absent", "Preparing"} /\ Adrift(swap.id)
    /\ \A s \in Submissions : receipt[s] = "Unknown" => Adrift(s)
    /\ \A r \in Runtimes : \A i \in 1..Len(events[r]) :
          events[r][i].kind = "finished" => Gone(r) \/ \E s \in Submissions : Over(s)
    /\ \A s \in Submissions : disk.status[s] # "Running" => status[s] # "Running"

SafetyInv ==
    /\ TypeOK
    /\ LockInv
    /\ \A s \in Submissions : Consistent(s)
    /\ KnownVerdicts
    /\ NothingMissed
    /\ reader.history \subseteq {s \in Submissions : input[s] \in Stored}
    /\ OneUnsettled
    /\ Ends
===============================================================================
