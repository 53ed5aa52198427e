----------------------------- MODULE BrowserBroker -----------------------------
(***************************************************************************)
(* The daemon's browser bridge: agents invoke actions on pages that a      *)
(* desktop publishes, or open pages through the one registered launcher.   *)
(* Every operation of the broker is atomic under its mutex; its callers    *)
(* are connection threads, the worker threads that run an invoke and wait  *)
(* for its answer, and the desktops, which receive requests and cancels in *)
(* the order of their channel.                                             *)
(***************************************************************************)
EXTENDS Naturals, Sequences, FiniteSets

CONSTANTS
    Callers, Guis,   \* connections; a reconnected peer is another connection
    Pages, Launchers,\* page ids of tabs, and of launchers
    Calls,           \* executions of BrowserInvoke, each on a worker thread
    Rpc, Caller,     \* the request id of a call, and the connection it came on
    Opens,           \* the calls that open a page
    None,
    MaxSpent,        \* MAX_BROWSER_SEEN_IDS_PER_CONNECTION
    MaxStones,       \* MAX_BROWSER_TOMBSTONES_PER_CONNECTION
    MaxPending,      \* MAX_BROWSER_PENDING_REQUESTS
    MaxChanges       \* bound: publications and registrations

Connections == Callers \cup Guis
BrokerConstants ==
    /\ Callers \cap Guis = {} /\ Pages \cap Launchers = {}
    /\ IsFiniteSet(Calls) /\ Opens \subseteq Calls /\ DOMAIN Rpc = Calls /\ Caller \in [Calls -> Callers]
    /\ None \notin Connections \cup Pages \cup Launchers
    /\ MaxSpent \in Nat /\ MaxStones \in Nat /\ MaxPending \in Nat /\ MaxChanges \in Nat

Rpcs == {Rpc[w] : w \in Calls}

VARIABLES
    connected,  \* live connections
    published,  \* publications, by the connection that owns them
    host, hostPage, \* the connection and page id of the launcher; None
    spent,      \* seen_request_ids
    stones,     \* cancelled_rpc_ids
    call,       \* a call: unsent, sent, waiting, done
    owner, page,    \* of a call that waits or has waited: the connection and page it was routed to
    pending,    \* the calls in BrokerState.pending
    inbox,      \* messages on their way to a desktop: <<call, "act" or "stop">>
    acting,     \* actions a desktop has accepted and not answered
    replies,    \* answers on their way from the desktops
    cancelled,  \* calls whose cancel was accepted before or while they ran
    changes

brokerVars == <<published, host, hostPage, spent, stones, pending>>
guiVars    == <<inbox, acting, replies>>
callVars   == <<call, owner, page, cancelled>>
vars == <<connected, brokerVars, guiVars, callVars, changes>>

Limits ==
    /\ \A k \in Callers : Cardinality(spent[k]) <= MaxSpent /\ Cardinality(stones[k]) <= MaxStones
    /\ Cardinality(pending) <= MaxPending
TypeOK ==
    /\ connected \subseteq Connections
    /\ published \in [Guis -> SUBSET Pages]
    /\ host \in Guis \cup {None} /\ hostPage \in Launchers \cup {None}
    /\ spent \in [Callers -> SUBSET Rpcs] /\ stones \in [Callers -> SUBSET Rpcs]
    /\ call \in [Calls -> {"unsent", "sent", "waiting", "done"}]
    /\ owner \in [Calls -> Guis \cup {None}]
    /\ page \in [Calls -> Pages \cup Launchers \cup {None}]
    /\ pending \subseteq Calls
    /\ Limits
    /\ inbox \in [Guis -> Seq(Calls \X {"act", "stop"})]
    /\ acting \in [Guis -> SUBSET Calls]
    /\ replies \subseteq Calls
    /\ cancelled \subseteq Calls
    /\ changes \in Nat

Init ==
    /\ connected = Connections
    /\ published = [g \in Guis |-> {}] /\ host = None /\ hostPage = None
    /\ spent = [k \in Callers |-> {}] /\ stones = [k \in Callers |-> {}]
    /\ call = [w \in Calls |-> "unsent"]
    /\ owner = [w \in Calls |-> None] /\ page = [w \in Calls |-> None]
    /\ pending = {}
    /\ inbox = [g \in Guis |-> <<>>] /\ acting = [g \in Guis |-> {}] /\ replies = {}
    /\ cancelled = {} /\ changes = 0

-------------------------------------------------------------------------------
(***************************************************************************)
(* Retiring pending calls: the owner is told to stop, the call is failed.  *)
(***************************************************************************)
\* Any order will do: the stops of one operation concern different calls.
Order(s) == CHOOSE q \in [1..Cardinality(s) -> s] :
                \A i, j \in 1..Cardinality(s) : q[i] = q[j] => i = j
Stops(g, gone) ==
    LET q == Order({w \in gone : owner[w] = g}) IN [i \in DOMAIN q |-> <<q[i], "stop">>]
Tell(gone) == inbox' = [g \in Guis |-> IF g \in connected THEN inbox[g] \o Stops(g, gone)
                                       ELSE inbox[g]]
Fail(gone) ==
    /\ pending' = pending \ gone
    /\ call' = [w \in Calls |-> IF w \in gone THEN "done" ELSE call[w]]

-------------------------------------------------------------------------------
(***************************************************************************)
(* Desktops publish pages and register launchers.                          *)
(***************************************************************************)
Change == changes < MaxChanges /\ changes' = changes + 1

\* Variant: replaces the pages and leaves their requests to time out.
PublishOnly(g, pages) ==
    /\ Change /\ g \in connected
    /\ \A h \in Guis \ {g} : published[h] \cap pages = {}
    /\ published' = [published EXCEPT ![g] = pages]
    /\ UNCHANGED <<connected, host, hostPage, spent, stones, pending, guiVars, callVars>>

\* A page another connection has published is refused, and changes nothing.
Publish(g, pages) ==
    /\ Change /\ g \in connected
    /\ \A h \in Guis \ {g} : published[h] \cap pages = {}
    /\ published' = [published EXCEPT ![g] = pages]
    /\ LET covered == pages \cup (IF host = g THEN {hostPage} ELSE {})
           gone == {w \in pending : owner[w] = g /\ page[w] \notin covered}
       IN  Tell(gone) /\ Fail(gone)
    /\ UNCHANGED <<connected, host, hostPage, spent, stones, acting, replies, owner, page,
                   cancelled>>

\* register_host: one launcher for everybody; a new identity retires the opens
\* of the old one, whoever had it.
RegisterHost(g, p) ==
    /\ Change /\ g \in connected
    /\ host' = g /\ hostPage' = p
    /\ LET gone == {w \in pending : w \in Opens /\ owner[w] = host /\ page[w] = hostPage
                                        /\ (host # g \/ hostPage # p)}
       IN  Tell(gone) /\ Fail(gone)
    /\ UNCHANGED <<connected, published, spent, stones, acting, replies, owner, page, cancelled>>

UnregisterHost(g) ==
    /\ Change /\ g \in connected /\ host = g
    /\ host' = None /\ hostPage' = None
    /\ LET gone == {w \in pending : w \in Opens /\ owner[w] = g /\ page[w] = hostPage}
       IN  Tell(gone) /\ Fail(gone)
    /\ UNCHANGED <<connected, published, spent, stones, acting, replies, owner, page, cancelled>>

-------------------------------------------------------------------------------
(***************************************************************************)
(* invoke, on its worker thread; `open` waits for a launcher first.        *)
(***************************************************************************)
\* The connection thread has read the request and started its worker.
Send(w) ==
    /\ call[w] = "unsent" /\ Caller[w] \in connected
    /\ call' = [call EXCEPT ![w] = "sent"]
    /\ UNCHANGED <<connected, brokerVars, guiVars, owner, page, cancelled, changes>>

\* Variant: does not look for a cancel that came first.
AdmitsCancelled(w) == Caller[w] \in connected

\* What invoke checks before it spends the request id, ...
Admits(w) ==
    /\ Caller[w] \in connected
    /\ Rpc[w] \notin stones[Caller[w]]
    /\ Cardinality(stones[Caller[w]]) < MaxStones

\* ... that the id is new, ...
Spends(w) == Cardinality(spent[Caller[w]]) < MaxSpent /\ Rpc[w] \notin spent[Caller[w]]

\* ... and whether the page it is routed to takes another request.
Takes(g, p) ==
    /\ g \in connected
    /\ \A v \in pending : page[v] # p
    /\ Cardinality(pending) < MaxPending

Routed(w, g, p) == IF w \in Opens THEN g = host /\ p = hostPage ELSE p \in published[g]

Invoke(w, g, p) ==
    /\ call[w] = "sent" /\ Admits(w) /\ Spends(w)
    /\ Routed(w, g, p) /\ Takes(g, p)
    /\ spent' = [spent EXCEPT ![Caller[w]] = @ \cup {Rpc[w]}]
    /\ call' = [call EXCEPT ![w] = "waiting"]
    /\ owner' = [owner EXCEPT ![w] = g] /\ page' = [page EXCEPT ![w] = p]
    /\ pending' = pending \cup {w}
    /\ inbox' = [inbox EXCEPT ![g] = Append(@, <<w, "act">>)]
    /\ UNCHANGED <<connected, published, host, hostPage, stones, acting, replies, cancelled, changes>>

\* Refused, with its id spent once the checks before that have passed; an open
\* may also have given up waiting for a launcher before it came to them.
Refuse(w) ==
    /\ call[w] = "sent"
    /\ call' = [call EXCEPT ![w] = "done"]
    /\ ~(Admits(w) /\ Spends(w) /\
          \E g \in Guis, p \in Pages \cup Launchers : Routed(w, g, p) /\ Takes(g, p))
    /\ \/ Admits(w) /\ Spends(w) /\ spent' = [spent EXCEPT ![Caller[w]] = @ \cup {Rpc[w]}]
       \/ (w \in Opens \/ ~(Admits(w) /\ Spends(w))) /\ UNCHANGED spent
    /\ UNCHANGED <<connected, published, host, hostPage, stones, pending, guiVars, owner, page,
                   cancelled, changes>>

\* No answer in BROWSER_REQUEST_TIMEOUT: cancel_target.
Timeout(w) ==
    /\ call[w] = "waiting"
    /\ Tell({w}) /\ Fail({w})
    /\ UNCHANGED <<connected, published, host, hostPage, spent, stones, acting, replies, owner,
                   page, cancelled, changes>>

\* The caller gives up.  A cancel that finds nothing leaves a tombstone, or is
\* refused when there are too many; it may overtake the worker of its request.
Cancel(w) ==
    LET k == Caller[w]
        met == {v \in pending : Caller[v] = k /\ Rpc[v] = Rpc[w]}
    IN  /\ k \in connected /\ call[w] # "unsent"
        /\ met = {} => Cardinality(stones[k]) < MaxStones
        /\ stones' = IF met = {} THEN [stones EXCEPT ![k] = @ \cup {Rpc[w]}] ELSE stones
        /\ cancelled' = cancelled \cup
               {v \in Calls : Caller[v] = k /\ Rpc[v] = Rpc[w] /\ call[v] # "done"}
        /\ Tell(met) /\ Fail(met)
        /\ UNCHANGED <<connected, published, host, hostPage, spent, acting, replies, owner, page,
                       changes>>

-------------------------------------------------------------------------------
(***************************************************************************)
(* Desktops act and answer.                                                *)
(***************************************************************************)
Deliver(g) ==
    /\ g \in connected /\ inbox[g] # <<>>
    /\ LET w == Head(inbox[g])[1] IN
          acting' = [acting EXCEPT ![g] = IF Head(inbox[g])[2] = "act" THEN @ \cup {w} ELSE @ \ {w}]
    /\ inbox' = [inbox EXCEPT ![g] = Tail(@)]
    /\ UNCHANGED <<connected, brokerVars, replies, callVars, changes>>

Answer(g, w) ==
    /\ g \in connected /\ w \in acting[g]
    /\ acting' = [acting EXCEPT ![g] = @ \ {w}]
    /\ replies' = replies \cup {w}
    /\ UNCHANGED <<connected, brokerVars, inbox, callVars, changes>>

\* complete: a late answer is ignored.
Complete(w) ==
    /\ w \in replies /\ replies' = replies \ {w}
    /\ Fail({w} \cap pending)
    /\ UNCHANGED <<connected, published, host, hostPage, spent, stones, inbox, acting, owner, page,
                   cancelled, changes>>

\* The desktop cancels what it was asked: it stops by itself.
OwnerCancels(g, w) ==
    /\ g \in connected /\ w \in acting[g] /\ w \in pending
    /\ acting' = [acting EXCEPT ![g] = @ \ {w}]
    /\ Fail({w})
    /\ UNCHANGED <<connected, published, host, hostPage, spent, stones, inbox, replies, owner, page,
                   cancelled, changes>>

\* Variant: only what the connection owned is failed.
DisconnectOwner(c) ==
    /\ c \in connected /\ connected' = connected \ {c}
    /\ published' = [g \in Guis |-> IF g = c THEN {} ELSE published[g]]
    /\ host' = IF host = c THEN None ELSE host
    /\ hostPage' = IF host = c THEN None ELSE hostPage
    /\ spent' = [k \in Callers |-> IF k = c THEN {} ELSE spent[k]]
    /\ stones' = [k \in Callers |-> IF k = c THEN {} ELSE stones[k]]
    /\ Fail({w \in pending : owner[w] = c \/ Caller[w] = c})
    /\ UNCHANGED <<inbox, acting, replies, owner, page, cancelled, changes>>

\* remove_connection.
Disconnect(c) ==
    /\ c \in connected /\ connected' = connected \ {c}
    /\ published' = [g \in Guis |-> IF g = c THEN {} ELSE published[g]]
    /\ host' = IF host = c THEN None ELSE host
    /\ hostPage' = IF host = c THEN None ELSE hostPage
    /\ spent' = [k \in Callers |-> IF k = c THEN {} ELSE spent[k]]
    /\ stones' = [k \in Callers |-> IF k = c THEN {} ELSE stones[k]]
    /\ Tell({w \in pending : Caller[w] = c /\ owner[w] # c})
    /\ Fail({w \in pending : owner[w] = c \/ Caller[w] = c})
    /\ UNCHANGED <<acting, replies, owner, page, cancelled, changes>>

Next ==
    \/ \E g \in Guis :
          \/ \E pages \in SUBSET Pages : Publish(g, pages)
          \/ \E p \in Launchers : RegisterHost(g, p)
          \/ UnregisterHost(g) \/ Deliver(g)
          \/ \E w \in Calls : Answer(g, w) \/ OwnerCancels(g, w)
    \/ \E w \in Calls :
          \/ Send(w) \/ Refuse(w) \/ Timeout(w) \/ Cancel(w) \/ Complete(w)
          \/ \E g \in Guis, p \in Pages \cup Launchers : Invoke(w, g, p)
    \/ \E c \in Connections : Disconnect(c)

Spec == Init /\ [][Next]_vars

-------------------------------------------------------------------------------
(***************************************************************************)
(* Properties.                                                             *)
(***************************************************************************)
Messages(g) == {inbox[g][i] : i \in 1..Len(inbox[g])}

\* No desktop acts on a page for a caller that has its answer already, or is
\* gone: an action in progress or on its way is pending, or is being stopped.
NothingRunsUnobserved ==
    \A g \in Guis \cap connected, w \in Calls :
        w \in acting[g] \/ <<w, "act">> \in Messages(g)
            => w \in pending \/ <<w, "stop">> \in Messages(g)

\* A cancel is final whatever it meets: its request, the worker of its request
\* still to run, or a repeated request with the same id.
CancelledNeverRuns == pending \cap cancelled = {}

\* An id a caller repeats is not executed a second time.
Asked(w) == owner[w] # None
RunsOnce ==
    \A v, w \in Calls : Asked(v) /\ Asked(w) /\ Rpc[v] = Rpc[w] /\ Caller[v] = Caller[w] => v = w

\* A pending request can be answered: its owner is connected and still has
\* the page or the launcher it was asked for.
PendingIsCovered ==
    \A w \in pending :
        /\ owner[w] \in connected /\ Caller[w] \in connected
        /\ Routed(w, owner[w], page[w])

\* What the properties rest on.  The calls that wait are the pending ones; ...
Waits ==
    /\ pending = {w \in Calls : call[w] = "waiting"}
    /\ \A w \in Calls : call[w] \in {"unsent", "sent"} => ~Asked(w)
\* ... an id that was asked or cancelled is not admitted again; ...
Barred ==
    \A w \in Calls : Caller[w] \in connected =>
        /\ Asked(w) => Rpc[w] \in spent[Caller[w]]
        /\ w \in cancelled /\ call[w] \in {"unsent", "sent"}
              => Rpc[w] \in spent[Caller[w]] \cup stones[Caller[w]]
\* ... and a desktop is asked once, before it is told to stop.
Mail ==
    /\ \A g \in Guis : \A i \in 1..Len(inbox[g]) : owner[inbox[g][i][1]] = g
    /\ \A g \in Guis : \A i, j \in 1..Len(inbox[g]) :
          i < j /\ inbox[g][i][1] = inbox[g][j][1] => inbox[g][j][2] = "stop"
    /\ \A g \in Guis : \A w \in acting[g] :
          owner[w] = g /\ w \notin replies /\ <<w, "act">> \notin Messages(g)
    /\ \A w \in replies : Asked(w) /\ <<w, "act">> \notin Messages(owner[w])
BrokerInv ==
    TypeOK /\ Waits /\ PendingIsCovered /\ CancelledNeverRuns /\ RunsOnce /\ Barred /\ Mail
        /\ NothingRunsUnobserved
===============================================================================
