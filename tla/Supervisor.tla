------------------------------ MODULE Supervisor -------------------------------
(***************************************************************************)
(* The desktop's supervisor of the daemon process it owns: the monitor     *)
(* thread that reconnects to the daemon or replaces it, shutdown() on a    *)
(* thread of the caller, the threads that follow the current client, and   *)
(* the settings writer that repeats a request until the daemon takes it.   *)
(* The restart lock is held through a whole recovery; the target lock only *)
(* within one action.  Clients are numbered in the order they connect.     *)
(***************************************************************************)
EXTENDS Naturals, FiniteSets

CONSTANTS
    Settings, Followers, None,
    MaxClients,    \* bound: connections made
    MaxFaults,     \* bound: daemon crashes, lost connections and rebuilt binaries
    MaxUpdates     \* bound: settings the user saves

Ids == 1..MaxClients

SupervisorConstants ==
    /\ None \notin Settings /\ Settings # {} /\ None \notin Ids
    /\ MaxClients \in Nat \ {0} /\ MaxFaults \in Nat /\ MaxUpdates \in Nat

VARIABLES
    running,         \* SupervisorInner.running
    restart,         \* holder of the restart lock
    target, client,  \* DaemonTarget and the client in it
    alive,           \* daemon processes, by the client that was made with them
    child,           \* the process of a Local target
    lost,            \* clients whose connection is gone (is_disconnected)
    made,            \* connections made so far
    told,            \* the last client sent to each follower, None before it subscribes
    monitor, seen,   \* the monitor thread: where it is, what made it act
    previous, fresh, \* the process it drops, the client it has made
    stopper, taken,  \* shutdown(): where it is, the process it drops
    settings,        \* SupervisorInner.settings
    persisted, queued, \* persisted_settings; whether settings_updates holds anything
    writer, asked, via,\* the settings writer, its settings, the client of its request
    stored,          \* the settings of the daemon, which it keeps on disk
    editor,          \* settings update_settings has still to compare and queue
    dropped,         \* whether its last call queued nothing while a request was under way
    faults, updates

targetVars  == <<target, client, child>>
worldVars   == <<alive, lost, made, faults>>
monitorVars == <<monitor, seen, previous, fresh>>
stopVars    == <<running, stopper, taken>>
settingVars == <<settings, persisted, queued, writer, asked, via, stored, editor, dropped, updates>>
vars == <<targetVars, worldVars, monitorVars, stopVars, settingVars, restart, told>>

TypeOK ==
    /\ running \in BOOLEAN /\ restart \in {"free", "monitor", "stopper"}
    /\ target \in {"local", "restarting"} /\ client \in Ids
    /\ alive \subseteq Ids /\ child \in Ids /\ lost \subseteq Ids /\ made \in Ids
    /\ told \in [Followers -> Ids \cup {None}]
    /\ monitor \in {"asleep", "awake", "waiting", "locked", "reconnected", "dropping",
                    "spawning", "spawned", "notifying", "gone"}
    /\ seen \in {"nothing", "exited", "lost", "changed"}
    /\ previous \in Ids \cup {None} /\ fresh \in Ids \cup {None}
    /\ stopper \in {"none", "waiting", "locked", "dropping", "done"}
    /\ taken \in Ids \cup {None}
    /\ settings \in Settings /\ stored \in Settings
    /\ persisted \in Settings \cup {None} /\ asked \in Settings \cup {None}
    /\ editor \in Settings \cup {None}
    /\ writer \in {"idle", "ready", "asking", "answered", "gone"}
    /\ via \in Ids \cup {None}
    /\ queued \in BOOLEAN /\ dropped \in BOOLEAN
    /\ faults \in Nat /\ updates \in Nat

\* DaemonSupervisor::spawn; the desktop has sent no settings yet.
Init ==
    /\ running = TRUE /\ restart = "free"
    /\ target = "local" /\ client = 1 /\ alive = {1} /\ child = 1 /\ lost = {} /\ made = 1
    /\ told = [f \in Followers |-> None]
    /\ monitor = "asleep" /\ seen = "nothing" /\ previous = None /\ fresh = None
    /\ stopper = "none" /\ taken = None
    /\ settings \in Settings /\ stored = settings /\ persisted = None /\ queued = FALSE
    /\ writer = "idle" /\ asked = None /\ via = None /\ editor = None /\ dropped = FALSE
    /\ faults = 0 /\ updates = 0

\* A process that ends takes the clients that connected to it with it.
Ends(p) == alive' = alive \ {p} /\ lost' = lost \cup p..made

-------------------------------------------------------------------------------
(***************************************************************************)
(* Faults.                                                                 *)
(***************************************************************************)
Crash ==
    /\ faults < MaxFaults /\ faults' = faults + 1
    /\ \E p \in alive : Ends(p)
    /\ UNCHANGED <<targetVars, made, monitorVars, stopVars, settingVars, restart, told>>

Disconnect ==
    /\ faults < MaxFaults /\ faults' = faults + 1
    /\ client \notin lost /\ lost' = lost \cup {client}
    /\ UNCHANGED <<targetVars, alive, made, monitorVars, stopVars, settingVars, restart, told>>

-------------------------------------------------------------------------------
(***************************************************************************)
(* monitor_daemon, one round.                                              *)
(***************************************************************************)
Wake ==
    /\ monitor = "asleep"
    /\ monitor' = IF running THEN "awake" ELSE "gone"
    /\ UNCHANGED <<targetVars, worldVars, seen, previous, fresh, stopVars, settingVars,
                   restart, told>>

\* Variant: waits for a failed replacement to finish by itself.
InspectPatiently ==
    /\ monitor = "awake"
    /\ LET why == IF target = "local" /\ child \notin alive THEN "exited"
                  ELSE IF target = "local" /\ client \in lost THEN "lost" ELSE "nothing"
       IN  seen' = why /\ monitor' = IF why = "nothing" THEN "asleep" ELSE "waiting"
    /\ UNCHANGED <<targetVars, worldVars, previous, fresh, stopVars, settingVars, restart, told>>

\* The verdict of the round, under the target lock.
Inspect ==
    /\ monitor = "awake"
    /\ LET why == IF target = "restarting" \/ child \notin alive THEN "exited"
                  ELSE IF client \in lost THEN "lost" ELSE "nothing"
       IN  seen' = why /\ monitor' = IF why = "nothing" THEN "asleep" ELSE "waiting"
    /\ UNCHANGED <<targetVars, worldVars, previous, fresh, stopVars, settingVars, restart, told>>

\* watch_for_rebuilds: the executable has another stamp.
InspectRebuilt ==
    /\ monitor = "awake"
    /\ faults < MaxFaults /\ faults' = faults + 1
    /\ seen' = "changed" /\ monitor' = "waiting"
    /\ UNCHANGED <<targetVars, alive, lost, made, previous, fresh, stopVars, settingVars,
                   restart, told>>

MonitorLocks ==
    /\ monitor = "waiting" /\ restart = "free"
    /\ restart' = "monitor" /\ monitor' = "locked"
    /\ UNCHANGED <<targetVars, worldVars, seen, previous, fresh, stopVars, settingVars, told>>

Sleep == monitor' = "asleep" /\ seen' = "nothing" /\ restart' = "free"

\* Only a lost connection is looked at again before acting.
Reconnectable == target = "local" /\ client \in lost

NothingToRecover ==
    /\ monitor = "locked" /\ seen = "lost" /\ ~Reconnectable
    /\ Sleep
    /\ UNCHANGED <<targetVars, worldVars, previous, fresh, stopVars, settingVars, told>>

\* connect_with_resume to the process that still runs.
Reconnect ==
    /\ monitor = "locked" /\ seen = "lost" /\ Reconnectable
    /\ child \in alive /\ made < MaxClients
    /\ made' = made + 1 /\ fresh' = made + 1
    /\ monitor' = "reconnected"
    /\ UNCHANGED <<targetVars, alive, lost, faults, seen, previous, stopVars, settingVars,
                   restart, told>>

\* Variant: nobody hears of a client that reconnected in place.
InstallQuietly ==
    /\ monitor = "reconnected"
    /\ client' = fresh /\ fresh' = None
    /\ Sleep
    /\ UNCHANGED <<target, child, worldVars, previous, stopVars, settingVars, told>>

\* The client takes the place of the lost one.
InstallReconnected ==
    /\ monitor = "reconnected"
    /\ client' = fresh /\ fresh' = None
    /\ monitor' = "notifying"
    /\ UNCHANGED <<target, child, worldVars, seen, previous, stopVars, settingVars, restart, told>>

\* Variant: the old process is left to end by itself.
TakePreviousLate ==
    /\ monitor = "locked"
    /\ seen = "lost" => Reconnectable
    /\ target' = "restarting" /\ previous' = IF target = "local" THEN child ELSE None
    /\ monitor' = "spawning"
    /\ UNCHANGED <<client, child, worldVars, seen, fresh, stopVars, settingVars, restart, told>>

\* replace_local_daemon, also after a connection that was refused.
TakePrevious ==
    /\ monitor = "locked"
    /\ seen = "lost" => Reconnectable
    /\ target' = "restarting" /\ previous' = IF target = "local" THEN child ELSE None
    /\ monitor' = "dropping"
    /\ UNCHANGED <<client, child, worldVars, seen, fresh, stopVars, settingVars, restart, told>>

\* DaemonProcess::drop: a graceful end, or a kill after SHUTDOWN_TIMEOUT.
DropPrevious ==
    /\ monitor = "dropping"
    /\ IF previous = None THEN UNCHANGED <<alive, lost>> ELSE Ends(previous)
    /\ previous' = None
    /\ monitor' = "spawning"
    /\ UNCHANGED <<targetVars, made, faults, seen, fresh, stopVars, settingVars, restart, told>>

Spawn ==
    /\ monitor = "spawning" /\ made < MaxClients
    /\ made' = made + 1 /\ fresh' = made + 1 /\ alive' = alive \cup {made + 1}
    /\ monitor' = "spawned"
    /\ UNCHANGED <<targetVars, lost, faults, seen, previous, stopVars, settingVars, restart, told>>

\* spawn_local fails, and kills what it has launched.
SpawnFails ==
    /\ monitor = "spawning"
    /\ Sleep
    /\ UNCHANGED <<targetVars, worldVars, previous, fresh, stopVars, settingVars, told>>

InstallSpawned ==
    /\ monitor = "spawned"
    /\ target' = "local" /\ client' = fresh /\ child' = fresh /\ fresh' = None
    /\ monitor' = "notifying"
    /\ UNCHANGED <<worldVars, seen, previous, stopVars, settingVars, restart, told>>

\* client_updates, and after a replacement queue_settings_refresh; then the
\* lock is released.
Notify ==
    /\ monitor = "notifying"
    /\ told' = [f \in Followers |-> IF told[f] = None THEN None ELSE client]
    /\ IF child # client THEN UNCHANGED <<persisted, queued>>
       ELSE persisted' = None /\ queued' = TRUE
    /\ Sleep
    /\ UNCHANGED <<targetVars, worldVars, previous, fresh, stopVars, settings, writer, asked, via,
                   stored, editor, dropped, updates>>

-------------------------------------------------------------------------------
(***************************************************************************)
(* shutdown() and subscribe_clients(), by threads of the desktop.          *)
(***************************************************************************)
Shutdown ==
    /\ stopper = "none"
    /\ running' = FALSE /\ stopper' = "waiting"
    /\ UNCHANGED <<targetVars, worldVars, monitorVars, taken, settingVars, restart, told>>

StopperLocks ==
    /\ stopper = "waiting" /\ restart = "free"
    /\ restart' = "stopper" /\ stopper' = "locked"
    /\ UNCHANGED <<targetVars, worldVars, monitorVars, running, taken, settingVars, told>>

StopperTakes ==
    /\ stopper = "locked"
    /\ taken' = IF target = "local" THEN child ELSE None
    /\ target' = "restarting"
    /\ stopper' = "dropping"
    /\ UNCHANGED <<client, child, worldVars, monitorVars, running, settingVars, restart, told>>

StopperDrops ==
    /\ stopper = "dropping"
    /\ IF taken = None THEN UNCHANGED <<alive, lost>> ELSE Ends(taken)
    /\ taken' = None
    /\ stopper' = "done" /\ restart' = "free"
    /\ UNCHANGED <<targetVars, made, faults, monitorVars, running, settingVars, told>>

\* Registered and sent the current client under the target lock.
Follow(f) ==
    /\ told[f] = None
    /\ told' = [told EXCEPT ![f] = client]
    /\ UNCHANGED <<targetVars, worldVars, monitorVars, stopVars, settingVars, restart>>

-------------------------------------------------------------------------------
(***************************************************************************)
(* update_settings on the desktop, and persist_settings on its thread.     *)
(***************************************************************************)
OtherThanSettings == UNCHANGED <<targetVars, worldVars, monitorVars, stopVars, restart, told>>

Update(s) ==
    /\ editor = None /\ updates < MaxUpdates
    /\ updates' = updates + 1
    /\ settings' = s /\ editor' = s
    /\ OtherThanSettings
    /\ UNCHANGED <<persisted, queued, writer, asked, via, stored, dropped>>

\* Settings that equal the last persisted ones are not queued, although a
\* request that carries others may be under way.
Queue ==
    /\ editor # None
    /\ editor' = None
    /\ queued' = (queued \/ persisted # editor)
    /\ dropped' = (persisted = editor /\ ~queued /\ writer \in {"asking", "answered"})
    /\ OtherThanSettings
    /\ UNCHANGED <<settings, persisted, writer, asked, via, stored, updates>>

Receive ==
    /\ writer = "idle" /\ queued
    /\ queued' = FALSE /\ writer' = "ready"
    /\ OtherThanSettings
    /\ UNCHANGED <<settings, persisted, asked, via, stored, editor, dropped, updates>>

\* Whatever was queued, the writer sends the settings desired now.
Ask ==
    /\ writer = "ready"
    /\ IF running THEN writer' = "asking" /\ asked' = settings /\ via' = client
       ELSE writer' = "gone" /\ UNCHANGED <<asked, via>>
    /\ OtherThanSettings
    /\ UNCHANGED <<settings, persisted, queued, stored, editor, dropped, updates>>

\* UpdateSettings in the daemon.
Serve ==
    /\ writer = "asking" /\ via \notin lost
    /\ stored' = asked /\ writer' = "answered"
    /\ OtherThanSettings
    /\ UNCHANGED <<settings, persisted, queued, asked, via, editor, dropped, updates>>

\* Variant: what is desired by now counts as persisted.
RecordDesired ==
    /\ writer = "answered"
    /\ persisted' = settings /\ writer' = "idle" /\ asked' = None /\ via' = None
    /\ OtherThanSettings
    /\ UNCHANGED <<settings, queued, stored, editor, dropped, updates>>

Record ==
    /\ writer = "answered"
    /\ persisted' = asked /\ writer' = "idle" /\ asked' = None /\ via' = None
    /\ OtherThanSettings
    /\ UNCHANGED <<settings, queued, stored, editor, dropped, updates>>

\* The daemon is gone or refuses, or its answer is lost; the writer tries again.
AskFails ==
    /\ writer \in {"asking", "answered"}
    /\ writer = "answered" => via \in lost
    /\ writer' = "ready" /\ asked' = None /\ via' = None
    /\ OtherThanSettings
    /\ UNCHANGED <<settings, persisted, queued, stored, editor, dropped, updates>>

-------------------------------------------------------------------------------
Monitor ==
    \/ Wake \/ Inspect \/ InspectRebuilt \/ MonitorLocks \/ NothingToRecover
    \/ Reconnect \/ InstallReconnected \/ TakePrevious \/ DropPrevious
    \/ Spawn \/ SpawnFails \/ InstallSpawned \/ Notify
Stopper == StopperLocks \/ StopperTakes \/ StopperDrops
Writer  == Queue \/ Receive \/ Ask \/ Serve \/ Record \/ AskFails

Next ==
    \/ Crash \/ Disconnect \/ Monitor
    \/ Shutdown \/ Stopper \/ \E f \in Followers : Follow(f)
    \/ \E s \in Settings : Update(s)
    \/ Writer

Spec == Init /\ [][Next]_vars

\* The threads run, and a spawn that is tried again and again succeeds once.
Fairness == WF_vars(Monitor) /\ WF_vars(Stopper) /\ SF_vars(Spawn)
FairSpec == Spec /\ Fairness

-------------------------------------------------------------------------------
(***************************************************************************)
(* Properties.                                                             *)
(***************************************************************************)
\* What the properties rest on: whoever recovers or stops holds the restart
\* lock, and the one process that may be alive is where it left it.
Recovering == {"locked", "reconnected", "dropping", "spawning", "spawned", "notifying"}
Locked ==
    /\ restart = "monitor" <=> monitor \in Recovering
    /\ restart = "stopper" <=> stopper \in {"locked", "dropping"}
Owned ==
    /\ monitor \in {"dropping", "spawning", "spawned"} \/ stopper = "dropping"
          => target = "restarting"
    /\ monitor \in {"reconnected", "spawned"} => fresh \in Ids
    /\ alive \subseteq IF target = "local" THEN {child}
                       ELSE IF monitor = "dropping" THEN {previous} \ {None}
                       ELSE IF monitor = "spawned" THEN {fresh}
                       ELSE IF stopper = "dropping" THEN {taken} \ {None} ELSE {}
\* The settings in each hand of the writer.
Persisting ==
    /\ editor \in {None, settings}
    /\ writer = "idle" => persisted \in {None, stored}
    /\ writer \in {"asking", "answered"} => asked # None
    /\ writer = "answered" => asked = stored
    /\ ~queued /\ editor = None =>
          /\ writer \in {"asking", "answered"} => asked = settings \/ dropped
          /\ writer = "idle" => stored = settings \/ dropped

\* The desktop never has two daemons at work on the same stores, although
\* crashes, rebuilds, refused connections and a shutdown overlap.
OneDaemon == Cardinality(alive) <= 1

\* Once a recovery is over, every thread that follows the daemon has been
\* sent the client that is current, whenever it subscribed.
Informed == monitor # "notifying" => \A f \in Followers : told[f] \in {None, client}

\* When the settings writer rests, the daemon has the settings the user chose
\* last, through restarts and lost answers.  The exception is what `dropped`
\* records: settings that were put back while a request with others was under
\* way were compared with what the daemon had before it.
SettingsReach ==
    writer = "idle" /\ ~queued /\ editor = None
        => stored = settings \/ dropped

SupervisorInv == TypeOK /\ Locked /\ Owned /\ Informed /\ Persisting

\* A daemon that exits or whose connection is lost is replaced or reconnected
\* to, however often that fails, until the desktop stops.
Recovers ==
    running /\ (target = "restarting" \/ client \in lost)
        ~> ~running \/ (target = "local" /\ client \notin lost)
===============================================================================
