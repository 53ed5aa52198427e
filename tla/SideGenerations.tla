---------------------------- MODULE SideGenerations ----------------------------
(***************************************************************************)
(* Side questions (`/btw`).  The desktop shows one card per session and    *)
(* gives every question an id; dropping the request of a card notifies the *)
(* daemon that the generation is cancelled.  The question is sent from a   *)
(* background thread and every request runs on a thread of its own, so the *)
(* cancel may overtake the generation: the daemon keeps the ids of such    *)
(* cancels in a bounded list of tombstones.                                *)
(***************************************************************************)
EXTENDS Naturals, Sequences, FiniteSets, SequencesExt

CONSTANTS
    Sessions, Ids,   \* generation ids, never used twice
    None,
    MaxGenerations   \* MAX_GENERATIONS: of the active map and of the tombstones

SideConstants ==
    None \notin Sessions \cup Ids /\ MaxGenerations \in Nat \ {0} /\ IsFiniteSet(Ids)

VARIABLES
    card,     \* btw_states: the id of the last question of a session; None
    waiting,  \* sessions whose card holds its request
    answer,   \* the id whose answer a card shows; None
    client,   \* the desktop's request_with_timeout: none, asking, waiting, over
    cancels,  \* CancelSessionGeneration on its way or on its thread
    worker,   \* the daemon's thread: none, called, active, checked, posted, over
    active,   \* Requests.active, with the
    flag,     \*   ids whose flag is set
    stones,   \* Requests.cancelled
    outcome,  \* what the worker is about to return: none, text, mismatch, error
    replies,  \* responses on their way to the desktop: <<id, outcome>>
    heard,    \* ids whose cancel the daemon has handled
    forgotten \* ids evicted from the tombstones

desktopVars == <<card, waiting, answer, client>>
daemonVars  == <<worker, active, flag, stones, outcome, heard, forgotten>>
vars == <<desktopVars, daemonVars, cancels, replies>>

TypeOK ==
    /\ card \in [Sessions -> Ids \cup {None}]
    /\ waiting \subseteq Sessions /\ \A s \in waiting : card[s] # None
    /\ answer \in [Sessions -> Ids \cup {None}]
    /\ client \in [Ids -> {"none", "asking", "waiting", "over"}]
    /\ cancels \subseteq Ids
    /\ worker \in [Ids -> {"none", "called", "active", "checked", "posted", "over"}]
    /\ active \subseteq Ids /\ flag \subseteq Ids
    /\ stones \in Seq(Ids)
    /\ Cardinality(active) <= MaxGenerations /\ Len(stones) <= MaxGenerations
    /\ outcome \in [Ids -> {"none", "text", "mismatch", "error"}]
    /\ replies \subseteq Ids \X {"text", "mismatch", "error"}
    /\ heard \subseteq Ids /\ forgotten \subseteq Ids

Init ==
    /\ card = [s \in Sessions |-> None] /\ waiting = {}
    /\ answer = [s \in Sessions |-> None]
    /\ client = [i \in Ids |-> "none"] /\ cancels = {}
    /\ worker = [i \in Ids |-> "none"]
    /\ active = {} /\ flag = {} /\ stones = <<>>
    /\ outcome = [i \in Ids |-> "none"] /\ replies = {}
    /\ heard = {} /\ forgotten = {}

-------------------------------------------------------------------------------
(***************************************************************************)
(* The desktop                                                             *)
(***************************************************************************)
\* Drop of PendingGeneration: the cancel joins the outgoing queue.
Dropped(s) == IF s \in waiting THEN cancels \cup {card[s]} ELSE cancels

\* ask_btw (and retry_btw): the card is replaced, and so is its request.
AskBtw(s, i) ==
    /\ client[i] = "none"
    /\ cancels' = Dropped(s)
    /\ card' = [card EXCEPT ![s] = i]
    /\ waiting' = waiting \cup {s}
    /\ answer' = [answer EXCEPT ![s] = None]
    /\ client' = [client EXCEPT ![i] = "asking"]
    /\ UNCHANGED <<daemonVars, replies>>

CancelBtw(s) ==
    /\ s \in waiting
    /\ cancels' = Dropped(s)
    /\ waiting' = waiting \ {s}
    /\ UNCHANGED <<card, answer, client, daemonVars, replies>>

\* The tab or the session is closed.
CloseCard(s) ==
    /\ card[s] # None
    /\ cancels' = Dropped(s)
    /\ card' = [card EXCEPT ![s] = None]
    /\ waiting' = waiting \ {s}
    /\ answer' = [answer EXCEPT ![s] = None]
    /\ UNCHANGED <<client, daemonVars, replies>>

\* The background thread sends the question; the daemon starts its thread.
SendQuestion(i) ==
    /\ client[i] = "asking"
    /\ client' = [client EXCEPT ![i] = "waiting"]
    /\ worker' = [worker EXCEPT ![i] = "called"]
    /\ UNCHANGED <<card, waiting, answer, cancels, active, flag, stones, outcome, replies,
                   heard, forgotten>>

\* finish_btw, only for the card that still holds this very request: no cancel.
FinishBtw(i, result) ==
    /\ client' = [client EXCEPT ![i] = "over"]
    /\ LET mine == {s \in waiting : card[s] = i}
       IN  /\ waiting' = waiting \ mine
           /\ answer' = [s \in Sessions |-> IF s \in mine /\ result = "text" THEN i
                                            ELSE answer[s]]
    /\ UNCHANGED <<card, cancels, daemonVars>>

Answered(i) ==
    /\ client[i] = "waiting"
    /\ \E result \in {"text", "mismatch", "error"} :
        /\ <<i, result>> \in replies
        /\ replies' = replies \ {<<i, result>>}
        /\ FinishBtw(i, result)

\* The connection is closed: the request fails, and a cancel is lost.
SendFails(i) ==
    /\ client[i] = "asking"
    /\ FinishBtw(i, "error")
    /\ UNCHANGED replies

CancelLost(i) ==
    /\ i \in cancels
    /\ cancels' = cancels \ {i}
    /\ UNCHANGED <<desktopVars, daemonVars, replies>>

\* 135 seconds; a response that comes later has no pending entry.
TimesOut(i) ==
    /\ client[i] = "waiting"
    /\ FinishBtw(i, "error")
    /\ UNCHANGED replies

-------------------------------------------------------------------------------
(***************************************************************************)
(* SessionGenerations: cancel, on a thread of its own                      *)
(***************************************************************************)
\* Variant: a cancel that finds no generation has nothing to do.
CancelOnlyActive(i) ==
    /\ i \in cancels
    /\ cancels' = cancels \ {i}
    /\ heard' = heard \cup {i}
    /\ flag' = IF i \in active THEN flag \cup {i} ELSE flag
    /\ UNCHANGED <<desktopVars, worker, active, stones, outcome, replies, forgotten>>

Cancel(i) ==
    /\ i \in cancels
    /\ cancels' = cancels \ {i}
    /\ heard' = heard \cup {i}
    /\ IF i \in active
         THEN flag' = flag \cup {i} /\ UNCHANGED <<stones, forgotten>>
         ELSE /\ UNCHANGED flag
              /\ IF Contains(stones, i)
                   THEN UNCHANGED <<stones, forgotten>>
                 ELSE IF Len(stones) = MaxGenerations
                   THEN stones' = Append(Tail(stones), i) /\ forgotten' = forgotten \cup {Head(stones)}
                 ELSE stones' = Append(stones, i) /\ UNCHANGED forgotten
    /\ UNCHANGED <<desktopVars, worker, active, outcome, replies>>

(***************************************************************************)
(* generate.  A thread returns once: its response answers the request.     *)
(***************************************************************************)
Refused(i) == Contains(stones, i) \/ i \in active \/ Cardinality(active) >= MaxGenerations

Refuse(i) ==
    /\ worker[i] = "called" /\ Refused(i)
    /\ worker' = [worker EXCEPT ![i] = "over"]
    /\ replies' = replies \cup {<<i, "error">>}
    /\ UNCHANGED <<desktopVars, cancels, active, flag, stones, outcome, heard, forgotten>>

Register(i) ==
    /\ worker[i] = "called" /\ ~Refused(i)
    /\ worker' = [worker EXCEPT ![i] = "active"]
    /\ active' = active \cup {i}
    /\ UNCHANGED <<desktopVars, cancels, flag, stones, outcome, replies, heard, forgotten>>

Settle(i, o) ==
    /\ outcome' = [outcome EXCEPT ![i] = o]
    /\ UNCHANGED <<desktopVars, cancels, worker, active, flag, stones, replies, heard, forgotten>>

Running(i, step) == worker[i] = step /\ outcome[i] = "none"

\* The server could not be acquired, or the lookup of the model failed or was
\* interrupted, or the session runs another model.
LookUpFails(i) ==
    /\ Running(i, "active")
    /\ \E o \in {"error", "mismatch"} : Settle(i, o)

\* A server, and the expected model or none expected.
LookUp(i) ==
    /\ Running(i, "active")
    /\ worker' = [worker EXCEPT ![i] = "checked"]
    /\ UNCHANGED <<desktopVars, cancels, active, flag, stones, outcome, replies, heard, forgotten>>

\* http_request_with_limit looks at the flag before it connects.
Post(i) ==
    /\ Running(i, "checked") /\ i \notin flag
    /\ worker' = [worker EXCEPT ![i] = "posted"]
    /\ UNCHANGED <<desktopVars, cancels, active, flag, stones, outcome, replies, heard, forgotten>>

PostCancelled(i) == Running(i, "checked") /\ i \in flag /\ Settle(i, "error")

\* The provider answers or refuses, the exchange times out; and the flag is
\* looked at between reads, ten times a second.
Generated(i) ==
    /\ Running(i, "posted") /\ i \notin flag
    /\ \E o \in {"text", "error"} : Settle(i, o)

Abandoned(i) == Running(i, "posted") /\ i \in flag /\ Settle(i, "error")

\* The entry is removed whatever the outcome, and the response sent.
Return(i) ==
    /\ outcome[i] # "none" /\ i \in active
    /\ worker' = [worker EXCEPT ![i] = "over"]
    /\ active' = active \ {i} /\ flag' = flag \ {i}
    /\ replies' = replies \cup {<<i, outcome[i]>>}
    /\ UNCHANGED <<desktopVars, cancels, stones, outcome, heard, forgotten>>

Generate(i) ==
    \/ Refuse(i) \/ Register(i) \/ LookUp(i) \/ LookUpFails(i) \/ Post(i) \/ PostCancelled(i)
    \/ Generated(i) \/ Abandoned(i) \/ Return(i)

Next ==
    \/ \E s \in Sessions : CancelBtw(s) \/ CloseCard(s) \/ \E i \in Ids : AskBtw(s, i)
    \/ \E i \in Ids :
          \/ SendQuestion(i) \/ SendFails(i) \/ Answered(i) \/ TimesOut(i)
          \/ Cancel(i) \/ CancelLost(i) \/ Generate(i)

Spec == Init /\ [][Next]_vars

-------------------------------------------------------------------------------
(***************************************************************************)
(* Properties                                                              *)
(***************************************************************************)
\* What they rest on: a generation is in the map while its thread is between
\* registration and return, and a cancel that was handled is remembered, by the
\* flag of the entry or by a tombstone, until the generation can no longer post;
\* a question that was not sent has no thread.
Registered == active = {i \in Ids : worker[i] \in {"active", "checked", "posted"}} /\ flag \subseteq active
Remembered ==
    \A i \in Ids :
        i \in heard /\ i \notin forgotten /\ worker[i] \notin {"posted", "over"}
            => IF i \in active THEN i \in flag ELSE Contains(stones, i)
Unsent == \A i \in Ids : client[i] \in {"none", "asking"} => worker[i] = "none"
SideInv == TypeOK /\ Registered /\ Remembered /\ Unsent

\* A card shows the answer to its own question, however late the answers of
\* the questions before it, of other sessions or of cancelled ones come in.
AnswerIsCurrent == \A s \in Sessions : answer[s] \in {None, card[s]}

\* A generation whose cancel the daemon has handled never sends its prompt,
\* whether the cancel came before the generation, while it waited for a server,
\* or while it looked up the model; but a tombstone may have been evicted.
CancelIsHeeded ==
    [][\A i \in Ids : worker[i] # "posted" /\ worker'[i] = "posted"
                          => i \notin heard \/ i \in forgotten]_vars
===============================================================================
