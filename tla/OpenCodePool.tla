----------------------------- MODULE OpenCodePool -----------------------------
(***************************************************************************)
(* The process-global pool of resident `opencode serve` processes.         *)
(*                                                                         *)
(* Request threads acquire the one server of a binary: they start it, wait *)
(* for a start under way, replace it when it died, or share it.  Handles   *)
(* are reference counted; the last one shuts its generation down.  At exit *)
(* the daemon's main thread drains the pool and stops every server while   *)
(* request threads may still be running, then the process ends.            *)
(*                                                                         *)
(* The pool mutex and a slot's mutex are held for single steps, except     *)
(* that is_alive waits, under the slot's, for the mutex of the child.      *)
(***************************************************************************)
EXTENDS Naturals, FiniteSets

CONSTANTS
    Threads,     \* request threads, one acquire each
    Main,        \* the thread that runs shutdown_all
    Binaries,    \* PoolKey
    Servers,     \* generations: one per process started (bounds the starts)
    None,
    Unix         \* FALSE on Windows, where kill_process_tree kills

ASSUME NamesAssumption == Main \notin Threads /\ None \notin Servers \cup Binaries
ASSUME UnixAssumption  == Unix \in BOOLEAN

VARIABLES
    closed,   \* Pool.closed
    slots,    \* keys of Pool.slots
    slot,     \* PoolState of each binary's slot
    pc,       \* where each thread is
    at,       \* the binary a thread acquires, or the main thread stops
    ref,      \* the generation a thread refers to
    proc,     \* the child process of each generation
    todo,     \* slots shutdown_all has drained and not visited
    overdue   \* generations still up when their shutdown's deadline passed

vars == <<closed, slots, slot, pc, at, ref, proc, todo, overdue>>

Actors == Threads \cup {Main}
Steps == {"idle", "chosen", "waiting", "superseding", "spawning", "probing",
          "holding", "done", "draining", "stopping", "returned", "exited"}
Vacant     == [state |-> "Vacant",   server |-> None]
Starting   == [state |-> "Starting", server |-> None]
Stopping   == [state |-> "Stopping", server |-> None]
Running(g) == [state |-> "Running",  server |-> g]
PoolStates == {Vacant, Starting, Stopping} \cup {Running(g) : g \in Servers}

TypeOK ==
    /\ closed \in BOOLEAN
    /\ slots \subseteq Binaries
    /\ slot \in [Binaries -> PoolStates]
    /\ pc \in [Actors -> Steps]
    /\ at \in [Actors -> Binaries \cup {None}]
    /\ ref \in [Actors -> Servers \cup {None}]
    /\ proc \in [Servers -> {"none", "up", "exited"}]
    /\ todo \subseteq Binaries
    /\ overdue \subseteq Servers

Init ==
    /\ closed = FALSE
    /\ slots = {}
    /\ slot = [b \in Binaries |-> Vacant]
    /\ pc = [p \in Actors |-> "idle"]
    /\ at = [p \in Actors |-> None]
    /\ ref = [p \in Actors |-> None]
    /\ proc = [g \in Servers |-> "none"]
    /\ todo = {}
    /\ overdue = {}

Alive == pc[Main] # "exited"

\* shutdown_all is inside OpenCodeServer::shutdown, holding the child's mutex.
BeingStopped(g) == pc[Main] = "stopping" /\ ref[Main] = g

\* Strong references to a generation other than the one p gives up.
Kept(p, g) ==
    \/ \E b \in Binaries : slot[b] = Running(g)
    \/ \E q \in Actors \ {p} :
          ref[q] = g /\ pc[q] \in {"holding", "superseding", "stopping"}

\* notify_all: the waiters of a slot look at it again.
Notified(b, p, step) ==
    [q \in Actors |-> IF q = p THEN step
                      ELSE IF pc[q] = "waiting" /\ at[q] = b THEN "chosen"
                      ELSE pc[q]]

-------------------------------------------------------------------------------
(***************************************************************************)
(* acquire_with_start.  The closed check and the slot lookup share one     *)
(* hold of the pool mutex; the slot is examined later.                     *)
(***************************************************************************)
Enter(t, b) ==
    /\ Alive
    /\ pc[t] = "idle"
    /\ IF closed
       THEN /\ pc' = [pc EXCEPT ![t] = "done"]
            /\ UNCHANGED <<slots, at>>
       ELSE /\ pc' = [pc EXCEPT ![t] = "chosen"]
            /\ slots' = slots \cup {b}
            /\ at' = [at EXCEPT ![t] = b]
    /\ UNCHANGED <<closed, slot, ref, proc, todo, overdue>>

\* The resident server is alive: another handle to it.
Share(t) ==
    \E g \in Servers :
        /\ Alive
        /\ pc[t] = "chosen" /\ slot[at[t]] = Running(g)
        /\ ~BeingStopped(g)
        /\ proc[g] = "up"
        /\ pc' = [pc EXCEPT ![t] = "holding"]
        /\ ref' = [ref EXCEPT ![t] = g]
        /\ UNCHANGED <<closed, slots, slot, at, proc, todo, overdue>>

\* Variant: the resident server is replaced without is_alive.
SupersedeUnchecked(t) ==
    \E g \in Servers :
        /\ Alive
        /\ pc[t] = "chosen" /\ slot[at[t]] = Running(g)
        /\ slot' = [slot EXCEPT ![at[t]] = Starting]
        /\ pc' = [pc EXCEPT ![t] = "superseding"]
        /\ ref' = [ref EXCEPT ![t] = g]
        /\ UNCHANGED <<closed, slots, at, proc, todo, overdue>>

\* Variant: the slot keeps its reference while the replacement starts.
SupersedeInPlace(t) ==
    \E g \in Servers :
        /\ Alive
        /\ pc[t] = "chosen" /\ slot[at[t]] = Running(g)
        /\ proc[g] = "exited"
        /\ pc' = [pc EXCEPT ![t] = "superseding"]
        /\ ref' = [ref EXCEPT ![t] = g]
        /\ UNCHANGED <<closed, slots, slot, at, proc, todo, overdue>>

\* The resident server exited: its reference is taken out of the slot.
Supersede(t) ==
    \E g \in Servers :
        /\ Alive
        /\ pc[t] = "chosen" /\ slot[at[t]] = Running(g)
        /\ ~BeingStopped(g)
        /\ proc[g] = "exited"
        /\ slot' = [slot EXCEPT ![at[t]] = Starting]
        /\ pc' = [pc EXCEPT ![t] = "superseding"]
        /\ ref' = [ref EXCEPT ![t] = g]
        /\ UNCHANGED <<closed, slots, at, proc, todo, overdue>>

\* Variant: a slot being stopped counts as vacant.
ClaimStopping(t) ==
    /\ Alive
    /\ pc[t] = "chosen" /\ slot[at[t]] \in {Vacant, Stopping}
    /\ slot' = [slot EXCEPT ![at[t]] = Starting]
    /\ pc' = [pc EXCEPT ![t] = "spawning"]
    /\ UNCHANGED <<closed, slots, at, ref, proc, todo, overdue>>

ClaimVacant(t) ==
    /\ Alive
    /\ pc[t] = "chosen" /\ slot[at[t]] = Vacant
    /\ slot' = [slot EXCEPT ![at[t]] = Starting]
    /\ pc' = [pc EXCEPT ![t] = "spawning"]
    /\ UNCHANGED <<closed, slots, at, ref, proc, todo, overdue>>

\* Threads and the main thread wait alike for a start or a stop under way.
Wait(p) ==
    /\ Alive
    /\ pc[p] = "chosen" /\ slot[at[p]] \in {Starting, Stopping}
    /\ pc' = [pc EXCEPT ![p] = "waiting"]
    /\ UNCHANGED <<closed, slots, slot, at, ref, proc, todo, overdue>>

\* OpenCodeServer::start: the child process exists before it is probed.
Spawn(t) ==
    \E g \in Servers :
        /\ Alive
        /\ pc[t] = "spawning"
        /\ proc[g] = "none"
        /\ proc' = [proc EXCEPT ![g] = "up"]
        /\ pc' = [pc EXCEPT ![t] = "probing"]
        /\ ref' = [ref EXCEPT ![t] = g]
        /\ UNCHANGED <<closed, slots, slot, at, todo, overdue>>

\* Variant: no notify_all after a successful start.
StartSucceedsSilently(t) ==
    /\ Alive
    /\ pc[t] = "probing" /\ proc[ref[t]] = "up"
    /\ slot' = [slot EXCEPT ![at[t]] = Running(ref[t])]
    /\ pc' = [pc EXCEPT ![t] = "holding"]
    /\ UNCHANGED <<closed, slots, at, ref, proc, todo, overdue>>

StartSucceeds(t) ==
    /\ Alive
    /\ pc[t] = "probing" /\ proc[ref[t]] = "up"
    /\ slot' = [slot EXCEPT ![at[t]] = Running(ref[t])]
    /\ pc' = Notified(at[t], t, "holding")
    /\ UNCHANGED <<closed, slots, at, ref, proc, todo, overdue>>

\* Variant: no notify_all after a failed start.
StartFailsSilently(t) ==
    /\ Alive
    /\ pc[t] \in {"spawning", "probing"}
    /\ proc' = [g \in Servers |-> IF pc[t] = "probing" /\ g = ref[t] THEN "exited"
                                  ELSE proc[g]]
    /\ slot' = [slot EXCEPT ![at[t]] = Vacant]
    /\ pc' = [pc EXCEPT ![t] = "done"]
    /\ ref' = [ref EXCEPT ![t] = None]
    /\ UNCHANGED <<closed, slots, at, todo, overdue>>

\* Variant: a server that missed its startup timeout is left running.
StartFailsLeaking(t) ==
    /\ Alive
    /\ pc[t] \in {"spawning", "probing"}
    /\ slot' = [slot EXCEPT ![at[t]] = Vacant]
    /\ pc' = Notified(at[t], t, "done")
    /\ ref' = [ref EXCEPT ![t] = None]
    /\ UNCHANGED <<closed, slots, at, proc, todo, overdue>>

\* No child, or one that exited or missed its startup timeout; dropping the
\* unfinished server kills and reaps it.
StartFails(t) ==
    /\ Alive
    /\ pc[t] \in {"spawning", "probing"}
    /\ proc' = [g \in Servers |-> IF pc[t] = "probing" /\ g = ref[t] THEN "exited"
                                  ELSE proc[g]]
    /\ slot' = [slot EXCEPT ![at[t]] = Vacant]
    /\ pc' = Notified(at[t], t, "done")
    /\ ref' = [ref EXCEPT ![t] = None]
    /\ UNCHANGED <<closed, slots, at, todo, overdue>>

-------------------------------------------------------------------------------
(***************************************************************************)
(* Handles.  ServerLiveness upgrades a weak reference for a moment.        *)
(* Dropping the last strong reference runs PoolInner::drop, which shuts    *)
(* the generation down; drop(superseded) is such a drop inside acquire.    *)
(***************************************************************************)
Upgrade(t, g) ==
    /\ Alive
    /\ pc[t] = "idle" /\ Kept(t, g)
    /\ pc' = [pc EXCEPT ![t] = "holding"]
    /\ ref' = [ref EXCEPT ![t] = g]
    /\ UNCHANGED <<closed, slots, slot, at, proc, todo, overdue>>

Release(t) ==
    /\ ref' = [ref EXCEPT ![t] = None]
    /\ proc' = [g \in Servers |-> IF g = ref[t] /\ ~Kept(t, g) THEN "exited" ELSE proc[g]]
    /\ UNCHANGED <<closed, slots, slot, at, todo, overdue>>

DropHandle(t) ==
    /\ Alive
    /\ pc[t] = "holding"
    /\ pc' = [pc EXCEPT ![t] = "done"]
    /\ Release(t)

DropSuperseded(t) ==
    /\ Alive
    /\ pc[t] = "superseding"
    /\ pc' = [pc EXCEPT ![t] = "spawning"]
    /\ Release(t)

-------------------------------------------------------------------------------
(***************************************************************************)
(* shutdown_all, and the end of the daemon process after it.               *)
(***************************************************************************)
Shutdown ==
    /\ pc[Main] = "idle"
    /\ closed' = TRUE
    /\ todo' = slots
    /\ slots' = {}
    /\ pc' = [pc EXCEPT ![Main] = "draining"]
    /\ UNCHANGED <<slot, at, ref, proc, overdue>>

VisitSlot(b) ==
    /\ pc[Main] = "draining" /\ b \in todo
    /\ todo' = todo \ {b}
    /\ at' = [at EXCEPT ![Main] = b]
    /\ pc' = [pc EXCEPT ![Main] = "chosen"]
    /\ UNCHANGED <<closed, slots, slot, ref, proc, overdue>>

SkipVacant ==
    /\ pc[Main] = "chosen" /\ slot[at[Main]] = Vacant
    /\ pc' = [pc EXCEPT ![Main] = "draining"]
    /\ UNCHANGED <<closed, slots, slot, at, ref, proc, todo, overdue>>

\* Variant: the slot is vacated before the server has exited.
StopRunningVacated ==
    \E g \in Servers :
        /\ pc[Main] = "chosen" /\ slot[at[Main]] = Running(g)
        /\ slot' = [slot EXCEPT ![at[Main]] = Vacant]
        /\ ref' = [ref EXCEPT ![Main] = g]
        /\ pc' = [pc EXCEPT ![Main] = "stopping"]
        /\ UNCHANGED <<closed, slots, at, proc, todo, overdue>>

StopRunning ==
    \E g \in Servers :
        /\ pc[Main] = "chosen" /\ slot[at[Main]] = Running(g)
        /\ slot' = [slot EXCEPT ![at[Main]] = Stopping]
        /\ ref' = [ref EXCEPT ![Main] = g]
        /\ pc' = [pc EXCEPT ![Main] = "stopping"]
        /\ UNCHANGED <<closed, slots, at, proc, todo, overdue>>

Stopped ==
    /\ pc[Main] = "stopping" /\ proc[ref[Main]] = "exited"
    /\ slot' = [slot EXCEPT ![at[Main]] = Vacant]
    /\ pc' = Notified(at[Main], Main, "draining")
    /\ ref' = [ref EXCEPT ![Main] = None]
    /\ UNCHANGED <<closed, slots, at, proc, todo, overdue>>

ShutdownReturns ==
    /\ pc[Main] = "draining" /\ todo = {}
    /\ pc' = [pc EXCEPT ![Main] = "returned"]
    /\ UNCHANGED <<closed, slots, slot, at, ref, proc, todo, overdue>>

ProcessExits ==
    /\ pc[Main] = "returned"
    /\ pc' = [pc EXCEPT ![Main] = "exited"]
    /\ UNCHANGED <<closed, slots, slot, at, ref, proc, todo, overdue>>

\* The daemon is gone; only servers it left behind can still act.
Halted == pc[Main] = "exited" /\ UNCHANGED vars

-------------------------------------------------------------------------------
(***************************************************************************)
(* The child processes.  OpenCodeServer::shutdown asks with SIGTERM on     *)
(* Unix and kills on Windows; after its deadline it calls                  *)
(* kill_process_tree, empty on Unix, and waits for the child.              *)
(***************************************************************************)
ServerExits(g) ==
    /\ proc[g] = "up"
    /\ proc' = [proc EXCEPT ![g] = "exited"]
    /\ UNCHANGED <<closed, slots, slot, pc, at, ref, todo, overdue>>

KillTree(g) ==
    /\ ~Unix
    /\ BeingStopped(g)
    /\ ServerExits(g)

Overdue(g) ==
    /\ BeingStopped(g) /\ proc[g] = "up"
    /\ g \notin overdue
    /\ overdue' = overdue \cup {g}
    /\ UNCHANGED <<closed, slots, slot, pc, at, ref, proc, todo>>

-------------------------------------------------------------------------------
Acquire(t) ==
    \/ Share(t) \/ Supersede(t) \/ DropSuperseded(t) \/ ClaimVacant(t) \/ Wait(t)
    \/ Spawn(t) \/ StartSucceeds(t) \/ StartFails(t)
ShutdownAll ==
    \/ \E b \in Binaries : VisitSlot(b)
    \/ Wait(Main) \/ SkipVacant \/ StopRunning \/ Stopped \/ ShutdownReturns

Next ==
    \/ \E t \in Threads :
          \/ \E b \in Binaries : Enter(t, b)
          \/ Acquire(t) \/ DropHandle(t)
          \/ \E g \in Servers : Upgrade(t, g)
    \/ Shutdown \/ ShutdownAll \/ ProcessExits \/ Halted
    \/ \E g \in Servers : ServerExits(g) \/ KillTree(g) \/ Overdue(g)

\* Threads run, a start ends at its timeout at the latest, and a deadline
\* passes; nothing is assumed of the server processes.
Fairness ==
    /\ \A t \in Threads : WF_vars(Acquire(t))
    /\ WF_vars(ShutdownAll)
    /\ \A g \in Servers : WF_vars(KillTree(g)) /\ WF_vars(Overdue(g))

Spec == Init /\ [][Next]_vars
FairSpec == Spec /\ Fairness
-------------------------------------------------------------------------------
(***************************************************************************)
(* Properties.                                                             *)
(***************************************************************************)

\* A thread that starts, probes or stops a server of a binary.
Works(p, b) ==
    at[p] = b /\ pc[p] \in {"superseding", "spawning", "probing", "stopping"}

\* Whatever dies, fails to start or is stopped meanwhile, a binary never has
\* two servers up: concurrent acquires share one start, a replacement waits
\* for its predecessor's exit ("concurrent_acquires_start_one_server").
Serves(g, b) ==
    \/ slot[b] = Running(g)
    \/ \E p \in Actors : Works(p, b) /\ ref[p] = g
OneServer ==
    \A g, h \in Servers :
        proc[g] = "up" /\ proc[h] = "up"
            /\ (\E b \in Binaries : Serves(g, b) /\ Serves(h, b)) => g = h

\* A live server is never out of the pool's reach: it is in its slot, or a
\* thread that starts or stops it will put or take it there.  A server that
\* no slot knows would never be stopped.
NoneForgotten ==
    \A g \in Servers : proc[g] = "up" => \E b \in Binaries : Serves(g, b)

\* A session handle dropping can never stop the resident process, nor a stale
\* generation its replacement: a last strong reference is to a dead process.
HandlesStopNothing ==
    \A t \in Threads :
        pc[t] \in {"holding", "superseding"} /\ ~Kept(t, ref[t]) => proc[ref[t]] = "exited"

\* Two threads never start or stop the server of one binary at once, and a
\* slot that says Starting or Stopping has a thread at work that will end it:
\* waiters are never left behind.
OneWorker ==
    \A b \in Binaries :
        /\ \A p, q \in Actors : Works(p, b) /\ Works(q, b) => p = q
        /\ slot[b] \in {Starting, Stopping} <=> \E p \in Actors : Works(p, b)

\* "A server that begins starting before the call cannot outlive it", and no
\* acquire starts "a process nobody would ever shut down again".
NoOrphan == ~Alive => \A g \in Servers : proc[g] # "up"

\* An acquire that waits for another thread's start or stop gets its answer.
AcquireReturns ==
    \A t \in Threads :
        pc[t] = "waiting" ~> pc[t] \in {"holding", "done"} \/ pc[Main] = "exited"

\* The daemon's exit waits for servers and starts, but not for ever.
ShutdownEnds == pc[Main] = "draining" ~> pc[Main] = "returned"

\* "The timeout is a graceful-exit budget; a server that ignores TERM is
\* killed afterward."
IgnoredTermIsKilled == \A g \in Servers : g \in overdue ~> proc[g] = "exited"

-------------------------------------------------------------------------------
(***************************************************************************)
(* The inductive invariant behind the safety properties.                   *)
(***************************************************************************)
ThreadSteps == {"idle", "chosen", "waiting", "superseding", "spawning", "probing",
                "holding", "done"}
MainSteps == {"idle", "draining", "chosen", "waiting", "stopping", "returned", "exited"}
Referring == {"superseding", "probing", "holding", "stopping"}

\* Who runs which code, on which slot and generation.
Located ==
    /\ pc[Main] \in MainSteps
    /\ \A t \in Threads : pc[t] \in ThreadSteps
    /\ \A p \in Actors :
          /\ pc[p] \in {"chosen", "waiting", "superseding", "spawning", "probing", "stopping"}
                => at[p] \in Binaries
          /\ pc[p] \in Referring => ref[p] \in Servers /\ proc[ref[p]] # "none"
          /\ pc[p] \notin Referring => ref[p] = None
          /\ pc[p] = "superseding" => proc[ref[p]] = "exited"

\* A generation under its slot's control was started, serves one slot, and is
\* unknown to everyone but its starter until it is published.
Owned ==
    /\ \A b \in Binaries, g \in Servers : slot[b] = Running(g) => proc[g] # "none"
    /\ \A b, c \in Binaries, g \in Servers :
          slot[b] = Running(g) /\ slot[c] = Running(g) => b = c
    /\ \A p, q \in Actors :
          pc[p] = "probing" /\ pc[q] \in Referring /\ ref[q] = ref[p] => p = q
    /\ \A p \in Actors, b \in Binaries :
          pc[p] \in {"superseding", "probing", "stopping"} => slot[b] # Running(ref[p])

PoolInv ==
    /\ TypeOK
    /\ Located
    /\ Owned
    /\ OneWorker
    /\ NoneForgotten
===============================================================================
