------------------------------ MODULE EventStream ------------------------------
(***************************************************************************)
(* The event stream of one session, from the hub of the daemon to the      *)
(* projections of the session that desktops build from it and save back.   *)
(* Hub and save handler live in the daemon and are atomic under their      *)
(* locks; each client has a socket thread, a forwarding thread per         *)
(* attached runtime, and a supervisor that reconnects with the cursors of  *)
(* the lost connection.  A runtime id is used once, so the epoch the code  *)
(* carries beside it distinguishes nothing more and is left out.           *)
(***************************************************************************)
EXTENDS Naturals, Sequences, SequencesExt

CONSTANTS
    Runtimes, Clients, None,
    MaxReplay,     \* MAX_REPLAY_EVENTS_PER_SESSION
    MaxBuffered,   \* MAX_BUFFERED_EVENTS_PER_RUNTIME
    Bounds         \* bounds: events of a runtime, and connections of each client

StreamConstants ==
    /\ None \notin Runtimes
    /\ MaxReplay \in Nat \ {0} /\ MaxBuffered \in Nat \ {0}
    /\ Bounds \subseteq [events : Nat, connects : [Clients -> Nat]]

VARIABLES
    active,     \* HubState.active_runtimes of the session
    begun,      \* runtime ids in use so far
    next,       \* the last sequence number of the active runtime
    journal,    \* its replayable events, by sequence number
    stored,     \* the projection in the daemon's task state
    link,       \* a client's connection: off, up, lost (unnoticed), down
    connects,   \* connections it has made
    wire,       \* events on their way to its socket thread
    seqs,       \* last_sequences
    buffer,     \* pending_events
    at,         \* progress of attach_driver and connect_remote
    rt,         \* the runtime it attaches to
    sub,        \* the runtime whose sender is in `sessions` of the current client
    inbox,      \* the receiver of that subscription; 0 is the local processExited
    draft,      \* the session attach_driver hydrated
    view, base, \* the projection of the session, and the replay cursor
    saving      \* a projection on its way to SaveTaskState

hubVars    == <<active, begun, next, journal>>
socketVars == <<link, connects, wire, seqs, buffer>>
attachVars == <<at, rt, sub, inbox, draft>>
viewVars   == <<view, base>>
vars == <<hubVars, socketVars, attachVars, viewVars, stored, saving>>

\* A projection: the runtime_event_cursor and the events of that runtime in it.
Views == [rt : Runtimes \cup {None}, seq : Nat, seen : SUBSET Nat]
Blank == [rt |-> None, seq |-> 0, seen |-> {}]
Events == [rt : Runtimes, seq : Nat \ {0}]

TypeOK ==
    /\ active \in Runtimes \cup {None} /\ begun \subseteq Runtimes
    /\ next \in Nat /\ journal \in Seq(Nat \ {0}) /\ Len(journal) <= MaxReplay
    /\ stored \in Views
    /\ link \in [Clients -> {"off", "up", "lost", "down"}]
    /\ connects \in [Clients -> Nat]
    /\ wire \in [Clients -> Seq(Events)]
    /\ seqs \in [Clients -> [Runtimes -> Nat]]
    /\ buffer \in [Clients -> [Runtimes -> Seq(Nat \ {0})]]
    /\ \A c \in Clients, r \in Runtimes : Len(buffer[c][r]) <= MaxBuffered
    /\ at \in [Clients -> {"none", "hydrated", "asked", "started", "orphaned", "attached"}]
    /\ rt \in [Clients -> Runtimes \cup {None}]
    /\ sub \in [Clients -> Runtimes \cup {None}]
    /\ inbox \in [Clients -> Seq(Nat)]
    /\ draft \in [Clients -> Views]
    /\ view \in [Clients -> Views] /\ base \in [Clients -> Nat]
    /\ saving \in [Clients -> Views \cup {None}]

Init ==
    /\ active = None /\ begun = {} /\ next = 0 /\ journal = <<>>
    /\ stored = Blank
    /\ link = [c \in Clients |-> "off"] /\ connects = [c \in Clients |-> 0]
    /\ wire = [c \in Clients |-> <<>>]
    /\ seqs = [c \in Clients |-> [r \in Runtimes |-> 0]]
    /\ buffer = [c \in Clients |-> [r \in Runtimes |-> <<>>]]
    /\ at = [c \in Clients |-> "none"] /\ rt = [c \in Clients |-> None]
    /\ sub = [c \in Clients |-> None] /\ inbox = [c \in Clients |-> <<>>]
    /\ draft = [c \in Clients |-> Blank]
    /\ view = [c \in Clients |-> Blank] /\ base = [c \in Clients |-> 0]
    /\ saving = [c \in Clients |-> None]

\* Variant: trims a queue once it is longer than its limit already.
LastLate(s, n) == IF Len(s) > n + 1 THEN SubSeq(s, Len(s) - n, Len(s)) ELSE s

\* The last n entries: push_back, then pop_front while longer than n.
Last_(s, n) == IF Len(s) > n THEN SubSeq(s, Len(s) - n + 1, Len(s)) ELSE s

\* A behaviour stays within one of the bounds.
Within(events, made) ==
    \E b \in Bounds : events <= b.events /\ \A c \in Clients : made[c] <= b.connects[c]

-------------------------------------------------------------------------------
(***************************************************************************)
(* The hub.                                                                *)
(***************************************************************************)
Activate(r) ==
    /\ r \notin begun
    /\ active' = r /\ begun' = begun \cup {r}
    /\ next' = 0 /\ journal' = <<>>

\* Runtimes of the scheduler: begin_runtime through the system channel.
Begin(r) ==
    /\ Activate(r)
    /\ UNCHANGED <<socketVars, attachVars, viewVars, stored, saving>>

\* A client's Command::Start, answered; start_remote goes on to subscribe on
\* the same client.
Start(c, r) ==
    /\ link[c] = "up" /\ at[c] = "none"
    /\ Activate(r)
    /\ at' = [at EXCEPT ![c] = "started"] /\ rt' = [rt EXCEPT ![c] = r]
    /\ draft' = [draft EXCEPT ![c] = view[c]]
    /\ UNCHANGED <<socketVars, sub, inbox, viewVars, stored, saving>>

End ==
    /\ active # None
    /\ active' = None /\ next' = 0 /\ journal' = <<>>
    /\ UNCHANGED <<begun, socketVars, attachVars, viewVars, stored, saving>>

\* Only the senders of live connections matter; others lead nowhere.
Emit(replayable) ==
    /\ active # None /\ Within(next + 1, connects)
    /\ next' = next + 1
    /\ journal' = IF replayable THEN Last_(Append(journal, next + 1), MaxReplay) ELSE journal
    /\ wire' = [c \in Clients |->
          IF link[c] = "up" THEN Append(wire[c], [rt |-> active, seq |-> next + 1])
          ELSE wire[c]]
    /\ UNCHANGED <<active, begun, link, connects, seqs, buffer, attachVars, viewVars,
                   stored, saving>>

\* How many of the journal's events a cursor has passed: they come first, as
\* the journal is in the order of emission.
Passed(after) ==
    CHOOSE k \in 0..Len(journal) : \A i \in 1..Len(journal) : journal[i] > after <=> i > k

\* What subscribe sends to a connection that resumes from the given cursors.
Replay(cursors) ==
    IF active = None THEN <<>>
    ELSE LET k == Passed(cursors[active]) IN
         [i \in 1..Len(journal) - k |-> [rt |-> active, seq |-> journal[k + i]]]

-------------------------------------------------------------------------------
(***************************************************************************)
(* Connections.                                                            *)
(***************************************************************************)
\* connect_with_resume, and Hub::subscribe for the new connection.  The new
\* client has no session senders and no buffered events.  An attachment that
\* already holds the old client subscribes to that one, and gets its buffer.
Connect(c) ==
    /\ link[c] \in {"off", "down"}
    /\ link' = [link EXCEPT ![c] = "up"]
    /\ connects' = [connects EXCEPT ![c] = @ + 1]
    /\ Within(next, connects')
    /\ wire' = [wire EXCEPT ![c] = Replay(seqs[c])]
    /\ buffer' = [buffer EXCEPT ![c] = [r \in Runtimes |-> <<>>]]
    /\ sub' = [sub EXCEPT ![c] = None]
    /\ \E keeps \in BOOLEAN :
          /\ keeps => at[c] \in {"asked", "started"}
          /\ at[c] = "started" => keeps
          /\ at' = [at EXCEPT ![c] = IF keeps THEN "orphaned" ELSE @]
          /\ inbox' = [inbox EXCEPT ![c] = IF keeps THEN buffer[c][rt[c]] ELSE @]
    /\ UNCHANGED <<hubVars, seqs, rt, draft, viewVars, stored, saving>>

Lose(c) ==
    /\ link[c] = "up"
    /\ link' = [link EXCEPT ![c] = "lost"]
    /\ wire' = [wire EXCEPT ![c] = <<>>]
    /\ UNCHANGED <<hubVars, connects, seqs, buffer, attachVars, viewVars, stored, saving>>

\* Variant: drops the senders without a last event.
DrainQuietly(c) ==
    /\ link[c] = "lost"
    /\ link' = [link EXCEPT ![c] = "down"]
    /\ sub' = [sub EXCEPT ![c] = None]
    /\ UNCHANGED <<hubVars, connects, wire, seqs, buffer, at, rt, inbox, draft, viewVars, stored,
                   saving>>

\* The socket thread takes the session senders and ends their receivers.
Drain(c) ==
    /\ link[c] = "lost"
    /\ link' = [link EXCEPT ![c] = "down"]
    /\ inbox' = [inbox EXCEPT ![c] = IF sub[c] = None THEN @ ELSE Append(@, 0)]
    /\ sub' = [sub EXCEPT ![c] = None]
    /\ UNCHANGED <<hubVars, connects, wire, seqs, buffer, at, rt, draft, viewVars, stored, saving>>

\* An event goes to the runtime's sender, or into its buffer; one that was seen
\* before goes nowhere.
Dispatch(c, e) ==
    IF e.seq <= seqs[c][e.rt]
    THEN UNCHANGED <<seqs, inbox, buffer>>
    ELSE /\ seqs' = [seqs EXCEPT ![c][e.rt] = e.seq]
         /\ IF sub[c] = e.rt
            THEN /\ inbox' = [inbox EXCEPT ![c] = Append(@, e.seq)]
                 /\ UNCHANGED buffer
            ELSE /\ buffer' = [buffer EXCEPT
                       ![c][e.rt] = Last_(Append(@, e.seq), MaxBuffered)]
                 /\ UNCHANGED inbox

\* One ServerMessage::Event read by the socket thread.
Read(c) ==
    /\ link[c] = "up" /\ wire[c] # <<>>
    /\ wire' = [wire EXCEPT ![c] = Tail(@)]
    /\ Dispatch(c, Head(wire[c]))
    /\ UNCHANGED <<hubVars, link, connects, at, rt, sub, draft, viewVars, stored, saving>>

-------------------------------------------------------------------------------
(***************************************************************************)
(* A desktop attaches to the session.                                      *)
(***************************************************************************)
Hydrate(c) ==
    /\ at[c] = "none" /\ link[c] = "up"
    /\ at' = [at EXCEPT ![c] = "hydrated"]
    /\ draft' = [draft EXCEPT ![c] = stored]
    /\ UNCHANGED <<hubVars, socketVars, rt, sub, inbox, viewVars, stored, saving>>

\* AttachSession; a failed request or an idle session ends the attempt.
Ask(c) ==
    /\ at[c] = "hydrated"
    /\ IF link[c] = "up" /\ active # None
       THEN /\ at' = [at EXCEPT ![c] = "asked"]
            /\ rt' = [rt EXCEPT ![c] = active]
            /\ UNCHANGED draft
       ELSE /\ at' = [at EXCEPT ![c] = "none"]
            /\ draft' = [draft EXCEPT ![c] = Blank]
            /\ UNCHANGED rt
    /\ UNCHANGED <<hubVars, socketVars, sub, inbox, viewVars, stored, saving>>

\* The desktop installs the hydrated session with the driver.
Install(c) ==
    /\ at' = [at EXCEPT ![c] = "attached"]
    /\ view' = [view EXCEPT ![c] = draft[c]]
    /\ base' = [base EXCEPT ![c] = IF draft[c].rt = rt[c] THEN draft[c].seq ELSE 0]
    /\ draft' = [draft EXCEPT ![c] = Blank]
    /\ UNCHANGED <<hubVars, link, connects, wire, seqs, rt, stored, saving>>

\* Variant: registers the sender but leaves the buffered events behind.
SubscribeFresh(c) ==
    /\ at[c] \in {"asked", "started"}
    /\ sub' = [sub EXCEPT ![c] = rt[c]]
    /\ inbox' = [inbox EXCEPT ![c] = <<>>]
    /\ buffer' = [buffer EXCEPT ![c][rt[c]] = <<>>]
    /\ Install(c)

\* connect_remote: DaemonClient::subscribe, whether or not that client is
\* still connected.
Subscribe(c) ==
    /\ at[c] \in {"asked", "started"}
    /\ sub' = [sub EXCEPT ![c] = rt[c]]
    /\ inbox' = [inbox EXCEPT ![c] = buffer[c][rt[c]]]
    /\ buffer' = [buffer EXCEPT ![c][rt[c]] = <<>>]
    /\ Install(c)

\* The same on a client that was replaced meanwhile: nobody will send to it.
SubscribeReplaced(c) ==
    /\ at[c] = "orphaned"
    /\ UNCHANGED <<sub, inbox, buffer>>
    /\ Install(c)

\* Variant: forgets the replay cursor of the hydrated session.
SkippedNever(c, e) == FALSE

\* The forwarding thread skips what the hydrated session already contains.
Skipped(c, e) == e <= base[c]

\* The forwarding thread hands one event to the desktop, which folds it in.
Apply(c) ==
    /\ at[c] = "attached" /\ inbox[c] # <<>> /\ Head(inbox[c]) # 0
    /\ inbox' = [inbox EXCEPT ![c] = Tail(@)]
    /\ LET e == Head(inbox[c]) IN
          view' = IF Skipped(c, e) THEN view
                  ELSE [view EXCEPT ![c] =
                           [rt |-> rt[c], seq |-> e,
                            seen |-> (IF view[c].rt = rt[c] THEN view[c].seen ELSE {}) \cup {e}]]
    /\ UNCHANGED <<hubVars, socketVars, at, rt, sub, draft, base, stored, saving>>

Detached(c) ==
    /\ at' = [at EXCEPT ![c] = "none"]
    /\ rt' = [rt EXCEPT ![c] = None]
    /\ inbox' = [inbox EXCEPT ![c] = <<>>]
    /\ UNCHANGED <<hubVars, socketVars, draft, viewVars, stored, saving>>

\* ProcessExited ends the runtime of the desktop.
Exit(c) ==
    /\ at[c] = "attached" /\ inbox[c] # <<>> /\ Head(inbox[c]) = 0
    /\ Detached(c) /\ UNCHANGED sub

\* The desktop drops a runtime that was closed, and unsubscribes.
Leave(c) ==
    /\ at[c] = "attached" /\ rt[c] # active
    /\ Detached(c) /\ sub' = [sub EXCEPT ![c] = None]

-------------------------------------------------------------------------------
(***************************************************************************)
(* Desktops save their projections.                                        *)
(***************************************************************************)
Save(c) ==
    /\ link[c] # "off" /\ saving[c] = None /\ view[c] # stored
    /\ saving' = [saving EXCEPT ![c] = view[c]]
    /\ UNCHANGED <<hubVars, socketVars, attachVars, viewVars, stored>>

\* Variant: compares the cursors the wrong way round.
PrecedesSwapped(incoming, older) ==
    IF active # None /\ (stored.rt = active) # (incoming.rt = active)
    THEN stored.rt = active
    ELSE IF stored.rt # None /\ stored.rt = incoming.rt
    THEN stored.seq < incoming.seq
    ELSE older

\* session_projection_precedes; `older` is what updated_at says.
Precedes(incoming, older) ==
    IF active # None /\ (stored.rt = active) # (incoming.rt = active)
    THEN stored.rt = active
    ELSE IF stored.rt # None /\ stored.rt = incoming.rt
    THEN incoming.seq < stored.seq
    ELSE older

\* SaveTaskState: a stale projection gives only its metadata.
SaveArrives(c, older) ==
    /\ saving[c] # None /\ link[c] = "up"
    /\ stored' = IF Precedes(saving[c], older) THEN stored ELSE saving[c]
    /\ saving' = [saving EXCEPT ![c] = None]
    /\ UNCHANGED <<hubVars, socketVars, attachVars, viewVars>>

SaveFails(c) ==
    /\ saving[c] # None
    /\ saving' = [saving EXCEPT ![c] = None]
    /\ UNCHANGED <<hubVars, socketVars, attachVars, viewVars, stored>>

ClientStep(c) ==
    \/ Connect(c) \/ Lose(c) \/ Drain(c) \/ Read(c)
    \/ Hydrate(c) \/ Ask(c) \/ Subscribe(c) \/ SubscribeReplaced(c) \/ Apply(c) \/ Exit(c) \/ Leave(c)
    \/ Save(c) \/ (\E older \in BOOLEAN : SaveArrives(c, older)) \/ SaveFails(c)

Next ==
    \/ \E r \in Runtimes : Begin(r) \/ \E c \in Clients : Start(c, r)
    \/ End
    \/ \E replayable \in BOOLEAN : Emit(replayable)
    \/ \E c \in Clients : ClientStep(c)

Spec == Init /\ [][Next]_vars

\* The threads of a client run; nothing promises a save or a new connection.
\* Events are bounded, so no client starves another.
Progress == \E c \in Clients : Drain(c) \/ Apply(c) \/ Exit(c)
FairSpec == Spec /\ WF_vars(Progress)

-------------------------------------------------------------------------------
(***************************************************************************)
(* The invariant of the stream.                                            *)
(***************************************************************************)
\* What a desktop that attaches now could still get: the replayable events that
\* no buffer of its connection has dropped.
Retained == {e \in ToSet(journal) : e + MaxBuffered > next}

\* Events in the order of emission: at least as far apart as their places.
Ascending(s) == \A i, j \in 1..Len(s) : i < j => s[i] + (j - i) <= s[j]

HubInOrder ==
    /\ active \in begun \cup {None}
    /\ active = None => journal = <<>>
    /\ Ascending(journal) /\ \A i \in 1..Len(journal) : journal[i] <= next

SocketInOrder(c) ==
    /\ link[c] = "off" <=> connects[c] = 0
    /\ connects[c] = 0 => at[c] = "none" /\ \A r \in Runtimes : seqs[c][r] = 0
    /\ \A i \in 1..Len(wire[c]) :
          /\ wire[c][i].rt \in begun
          /\ wire[c][i].rt = active => wire[c][i].seq <= next
    /\ \A i, j \in 1..Len(wire[c]) :
          i < j /\ wire[c][i].rt = wire[c][j].rt => wire[c][i].seq < wire[c][j].seq
    /\ \A r \in Runtimes :
          /\ r \notin begun => seqs[c][r] = 0
          /\ r = active => seqs[c][r] <= next
          /\ Ascending(buffer[c][r])
          /\ \A i \in 1..Len(buffer[c][r]) : buffer[c][r][i] <= seqs[c][r]

InboxInOrder(c) ==
    /\ rt[c] \in begun \cup {None}
    /\ at[c] \in {"asked", "started", "orphaned", "attached"} => rt[c] # None
    /\ at[c] = "orphaned" => connects[c] > 1
    /\ sub[c] # None => at[c] = "attached" /\ sub[c] = rt[c]
    /\ at[c] = "attached" /\ link[c] \in {"up", "lost"} /\ connects[c] <= 1 => sub[c] = rt[c]
    /\ at[c] \notin {"orphaned", "attached"} => inbox[c] = <<>>
    /\ \A i \in 1..Len(inbox[c]) :
          /\ inbox[c][i] <= seqs[c][rt[c]]
          /\ inbox[c][i] = 0 => sub[c] = None
    /\ \A i, j \in 1..Len(inbox[c]) :
          i < j => inbox[c][i] # 0 /\ (inbox[c][j] = 0 \/ inbox[c][i] < inbox[c][j])

\* What waits for a desktop is skipped, or news to its projection.
ViewInOrder(c) ==
    at[c] = "attached" =>
        /\ view[c].rt = rt[c] =>
              /\ view[c].seq <= base[c] \/ view[c].seq <= seqs[c][rt[c]]
              /\ \A i \in 1..Len(inbox[c]) :
                    inbox[c][i] = 0 \/ inbox[c][i] <= base[c] \/ inbox[c][i] > view[c].seq
        /\ base[c] # 0 => view[c].rt = rt[c] /\ base[c] <= view[c].seq

Projections ==
    {stored} \cup {view[c] : c \in Clients} \cup {draft[c] : c \in Clients}
    \cup ({saving[c] : c \in Clients} \ {None})

ProjectionsInOrder ==
    \A v \in Projections :
        /\ v.rt \in begun \cup {None}
        /\ v.rt = active /\ active # None => v.seq <= next

\* A projection of the runtime in progress has every event up to its cursor.
Covers(v) == v.rt = active => {e \in Retained : e <= v.seq} \subseteq v.seen

\* What the connection has not read is on its way; what it has read is in the
\* buffer until the desktop follows, and with the desktop from then on.
Seen(c) == IF view[c].rt = rt[c] THEN view[c].seen ELSE {}
Reaches(c) ==
    \A e \in Retained :
        IF e > seqs[c][active]
        THEN link[c] = "up" => [rt |-> active, seq |-> e] \in ToSet(wire[c])
        ELSE IF at[c] = "attached" /\ rt[c] = active
        THEN e \in Seen(c) \cup ToSet(inbox[c])
        ELSE link[c] = "up" \/ at[c] \in {"asked", "started"} => e \in ToSet(buffer[c][active])

Gapless ==
    (\A c \in Clients : connects[c] <= 1) =>
        /\ \A v \in Projections : Covers(v)
        /\ \A c \in Clients : Reaches(c)

\* Every variable has its type, journals and buffers keep within their limits,
\* cursors follow what was emitted, and on first connections nothing that is
\* retained is missing between the journal and a projection.
StreamInv ==
    /\ TypeOK /\ HubInOrder
    /\ \A c \in Clients : SocketInOrder(c) /\ InboxInOrder(c) /\ ViewInOrder(c)
    /\ ProjectionsInOrder /\ Gapless

-------------------------------------------------------------------------------
(***************************************************************************)
(* Properties.                                                             *)
(***************************************************************************)
OnTheWay(c) == ToSet(inbox[c]) \cup {e.seq : e \in {x \in ToSet(wire[c]) : x.rt = rt[c]}}
Following(c) == at[c] = "attached" /\ link[c] = "up" /\ rt[c] = active /\ sub[c] = rt[c]
Followed(c) == Following(c) => Retained \subseteq view[c].seen \cup OnTheWay(c)

\* Replay, registration, buffering, hydration and subscription leave no gap: a
\* desktop that follows a runtime on its first connection has, or will get,
\* every event retained for it, and so do the projections desktops save.
NothingMissed ==
    (\A c \in Clients : connects[c] <= 1) =>
        /\ \A c \in Clients : Followed(c)
        /\ stored.rt = active /\ active # None =>
              {e \in Retained : e <= stored.seq} \subseteq stored.seen

\* "reconnecting with the cursors of the last seen events resumes every stream
\* without loss" (reconnect_remote in process.rs), on any connection.
ResumesWithoutLoss == \A c \in Clients : Followed(c)

\* An event is folded into a projection once, and in the order of emission.
FoldsInOrder ==
    [][\A c \in Clients :
          view'[c] # view[c] /\ view'[c].rt = view[c].rt /\ at[c] = at'[c]
              => view'[c].seq > view[c].seq]_vars

\* A late save of a desktop that is behind takes nothing back from the stored
\* projection of the runtime in progress.
StoredAdvances ==
    [][active # None /\ stored.rt = active /\ active' = active
          => stored'.rt = active /\ stored'.seq >= stored.seq]_vars

\* A stream of a connection that is lost ends: its task cannot remain working
\* for a daemon that no longer answers.  A desktop that subscribes to a client
\* whose socket thread has already gone is not told, and is not claimed to be.
StreamEnds ==
    \A c \in Clients :
        at[c] = "attached" /\ sub[c] = rt[c] /\ link[c] = "lost" ~> at[c] # "attached"
===============================================================================
