----------------------------- MODULE DaemonServices -----------------------------
(***************************************************************************)
(* The services of the daemon and its desktops that share no state with    *)
(* one another in the models: the event stream of a session, and beside it *)
(* the ticker of the scheduled tasks, the supervisor of the daemon         *)
(* process, the actor of a session's runtimes, the browser broker and the  *)
(* side generations.  All of them are at rest at first; a behaviour is one *)
(* of one of them, so the states are the sum, not the product, of those of *)
(* the services.                                                           *)
(***************************************************************************)
EXTENDS EventStream

CONSTANTS
    Parts,               \* the services that a run is about
    Updates,             \* of the supervisor: bound on the changes of the settings
    ActorRuntimes,       \* runtime ids of a session's actor
    Questions            \* ids of side generations

VARIABLES
    part, \* the service whose behaviour this is
    now, row, schedule, due, state, dueAt, manual, fixed, told, receipt, input, step, read,
    pending, queue, cursor, total, working, current, verdict, booted, stopping, edits, restarts,
    setBacks,                                                             \* ScheduledTasks
    running, restart, target, client, alive, child, lost, made, notified, monitor, seen,
    previous, fresh, stopper, taken, settings, persisted, queued, writer, asked, via, applied,
    editor, dropped, faults, updates,                                     \* Supervisor
    hub, backend, live, removed, gate, used, mailbox, jobs, worker, job, known, ok, sent,
    answered, voided, sched, srt, launches, panics, crossed, kept,        \* SessionRuntimes
    connected, published, host, hostPage, spent, stones, call, owner, page, asks, orders,
    acting, replies, cancelled, changes,                                  \* BrowserBroker
    card, waiting, answer, asker, cancels, generator, generating, flag, tombstones, outcome,
    results, heard, forgotten                                             \* SideGenerations

-------------------------------------------------------------------------------
(***************************************************************************)
(* The services, on small instances.                                       *)
(* A service with proofs is instantiated with them: DaemonServicesProofs   *)
(* cites its theorems.                                                     *)
(***************************************************************************)
\* Two tasks that recur, or run once a day, and a window of one delivery.
Ticker == INSTANCE ScheduledTasksProofs WITH
    Tasks <- {"t1", "t2"}, Day <- 2, Grace <- 0, Batch <- 1, Scan <- 1,
    Schedules <- {[kind |-> "Every", at |-> 1], [kind |-> "AtTime", at |-> 1]},
    MaxRuns <- 1, MaxTotal <- 2, Horizon <- 2, Budgets <- {}

\* One crash, lost connection or refusal, two choices of settings.
Desktop == INSTANCE SupervisorProofs WITH
    Settings <- {"light", "dark"}, Followers <- {"gui"},
    MaxClients <- 2, MaxFaults <- 1, MaxUpdates <- Updates,
    told <- notified, stored <- applied

\* Two requests of clients, one launch of the scheduler, one panic.
Actors == INSTANCE SessionRuntimesProofs WITH
    Runtimes <- ActorRuntimes, MaxRequests <- 2, MaxLaunches <- 1, MaxPanics <- 1,
    queue <- jobs

\* Three calls, two with one request id, one of them to open a page; two
\* desktops that publish a tab or a launcher twice between them.
Browser == INSTANCE BrowserBrokerProofs WITH
    Callers <- {"agent"}, Guis <- {"gui", "other"}, Pages <- {"tab"}, Launchers <- {"launcher"},
    Calls <- {"a", "b", "c"}, Rpc <- [w \in {"a", "b", "c"} |-> IF w = "c" THEN 2 ELSE 1],
    Caller <- [w \in {"a", "b", "c"} |-> "agent"], Opens <- {"c"},
    MaxSpent <- 1, MaxStones <- 2, MaxPending <- 2, MaxChanges <- 2,
    pending <- asks, inbox <- orders

\* Two questions, and room for one generation and one tombstone.
Side == INSTANCE SideGenerationsProofs WITH
    Sessions <- {"s1"}, Ids <- Questions, MaxGenerations <- 1,
    client <- asker, worker <- generator, active <- generating, stones <- tombstones,
    replies <- results

ASSUME ServicesAssumption ==
    /\ Parts \subseteq {"ticker", "stream", "desktop", "actors", "browser", "side"}
    /\ StreamConstants /\ None \notin Ticker!Occurrences /\ Desktop!SupervisorConstants
    /\ Actors!RuntimesConstants /\ Browser!BrokerConstants /\ Side!SideConstants

-------------------------------------------------------------------------------
tickerVars ==
    <<now, row, schedule, due, state, dueAt, manual, fixed, told, receipt, input, step, read,
      pending, queue, cursor, total, working, current, verdict, booted, stopping, edits,
      restarts, setBacks>>
streamVars == vars
desktopVars ==
    <<running, restart, target, client, alive, child, lost, made, notified, monitor, seen,
      previous, fresh, stopper, taken, settings, persisted, queued, writer, asked, via, applied,
      editor, dropped, faults, updates>>
actorsVars ==
    <<hub, backend, live, removed, gate, used, mailbox, jobs, worker, job, known, ok, sent,
      answered, voided, sched, srt, launches, panics, crossed, kept>>
browserVars ==
    <<connected, published, host, hostPage, spent, stones, call, owner, page, asks, orders,
      acting, replies, cancelled, changes>>
sideVars ==
    <<card, waiting, answer, asker, cancels, generator, generating, flag, tombstones, outcome,
      results, heard, forgotten>>
servicesVars ==
    <<part, tickerVars, streamVars, desktopVars, actorsVars, browserVars, sideVars>>

ServicesInit ==
    /\ part \in Parts
    /\ Init /\ Ticker!Init /\ Desktop!Init /\ Actors!Init /\ Browser!Init /\ Side!Init
    /\ part # "ticker" => \A t \in DOMAIN row : row[t] = "unborn"
    /\ part # "desktop" => settings = "light"

\* A step of the one service that this behaviour is about.
InTicker(A)  == part = "ticker" /\ A
                /\ UNCHANGED <<part, streamVars, desktopVars, actorsVars, browserVars, sideVars>>
InStream(A)  == part = "stream" /\ A
                /\ UNCHANGED <<part, tickerVars, desktopVars, actorsVars, browserVars, sideVars>>
InDesktop(A) == part = "desktop" /\ A
                /\ UNCHANGED <<part, tickerVars, streamVars, actorsVars, browserVars, sideVars>>
InActors(A)  == part = "actors" /\ A
                /\ UNCHANGED <<part, tickerVars, streamVars, desktopVars, browserVars, sideVars>>
InBrowser(A) == part = "browser" /\ A
                /\ UNCHANGED <<part, tickerVars, streamVars, desktopVars, actorsVars, sideVars>>
InSide(A)    == part = "side" /\ A
                /\ UNCHANGED <<part, tickerVars, streamVars, desktopVars, actorsVars, browserVars>>

ServicesNext ==
    \/ InTicker(Ticker!Next)
    \/ InStream(Next)
    \/ InDesktop(Desktop!Next) \/ InActors(Actors!Next)
    \/ InBrowser(Browser!Next) \/ InSide(Side!Next)

ServicesSpec == ServicesInit /\ [][ServicesNext]_servicesVars

\* The fairness of each service's own FairSpec: as `part` does not change, one
\* condition on the actions of several services is one condition for each.
Fairness ==
    /\ WF_servicesVars(\/ InTicker(Ticker!Ticker) \/ InStream(Progress)
                        \/ InDesktop(Desktop!Monitor) \/ InActors(Actors!Scheduler))
    /\ WF_servicesVars(InDesktop(Desktop!Stopper))
    /\ SF_servicesVars(InTicker(Ticker!Tick) \/ InDesktop(Desktop!Spawn) \/ InActors(Actors!Worker))
    /\ SF_servicesVars(InTicker(Ticker!Claim))
    /\ SF_servicesVars(InTicker(Ticker!ReadQueue))
    /\ SF_servicesVars(InTicker(Ticker!Settle))
ServicesFairSpec == ServicesSpec /\ Fairness

-------------------------------------------------------------------------------
(***************************************************************************)
(* Properties, each of the service of its name; the modules state them.    *)
(***************************************************************************)
\* The invariants that the proofs of the services rest on: every variable has
\* its type, journals, buffers, tombstones and tables keep within their
\* limits, and the parts of a service agree with one another.
ServicesInv ==
    /\ StreamInv /\ Ticker!TasksInv /\ Desktop!SupervisorInv /\ Actors!RuntimesInv
    /\ Browser!BrokerInv /\ Side!SideInv

\* The desktop never has two daemons at work on the same stores.
OneDaemon == Desktop!OneDaemon

\* Threads that follow the daemon have the current client.
Informed == Desktop!Informed

\* The daemon ends up with the settings chosen last.
SettingsReach == Desktop!SettingsReach

\* The events of the working runtime reach the clients.
LiveRuntimeIsHeard == Actors!LiveRuntimeIsHeard

\* A removed session keeps no provider runtime.
RemovedStaysDown == Actors!RemovedStaysDown

\* No page acts for a caller that has stopped waiting.
NothingRunsUnobserved == Browser!NothingRunsUnobserved

\* A cancelled browser request never runs.
CancelledNeverRuns == Browser!CancelledNeverRuns

\* A pending browser request can be answered.
PendingIsCovered == Browser!PendingIsCovered

\* A cancelled side generation sends no prompt.
CancelIsHeeded == Side!CancelIsHeeded

\* A daemon that exits or is lost is replaced or reconnected to.
Recovers == Desktop!Recovers

\* Every request of a client is answered.
EveryRequestAnswered == Actors!EveryRequestAnswered

\* A queued occurrence is taken up again and again.
NoneStarves == Ticker!NoneStarves

\* An interrupted delivery is settled by a later tick.
DeliveryEnds == Ticker!DeliveryEnds
===============================================================================
