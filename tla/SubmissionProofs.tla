--------------------------- MODULE SubmissionProofs ---------------------------
(***************************************************************************)
(* The safety of the submission protocol, for every set of submissions and *)
(* runtimes and every number of crashes: SafetyInv is inductive, and the   *)
(* safety properties follow from it.                                       *)
(***************************************************************************)
EXTENDS Submission, TLAPS

USE DEF dbVars, memVars, lockVars, driverVars, workerFrame, runtimeFrame,
        readerFrame, providerFrame

-------------------------------------------------------------------------------
(***************************************************************************)
(* Type correctness.                                                       *)
(***************************************************************************)
LEMMA InitType == Init => TypeOK
BY NoneAssumption, BoundAssumption
   DEF Init, TypeOK, Receipts, States, Places, Inputs, Servers, TurnStatuses,
       SessionStatuses, Blank, Idle, Projection, Projections, NoReader,
       LockHolders, Swaps, Events, Hydrators

LEMMA HydratedType ==
    ASSUME TypeOK
    PROVE  /\ HydratedReceipts \in [Submissions -> Receipts]
           /\ HydratedStatus \in [Submissions -> TurnStatuses]
           /\ HydratedSession \in SessionStatuses
BY DEF TypeOK, HydratedReceipts, HydratedStatus, HydratedSession, Hydrators,
       TurnStatuses, SessionStatuses

LEMMA ReadType ==
    ASSUME TypeOK, NEW h \in Hydrators, HydrateRead(h)
    PROVE  /\ hydrating' \in SUBSET Hydrators
           /\ seen' \in [Hydrators -> [Submissions -> Receipts]]
           /\ pending' \in [Hydrators -> SUBSET Swaps]
<1>1. {[id |-> s, from |-> receipt[s], native |-> native[s]] :
                s \in {t \in Submissions : Repairable(t)
                                   /\ receipt[t] \in {"Preparing", "Dispatching"}}}
        \in SUBSET Swaps
  BY DEF TypeOK, Swaps
<1> QED BY <1>1 DEF HydrateRead, TypeOK

LEMMA EndType ==
    ASSUME TypeOK, EndLockedHydration
    PROVE  /\ hydrating' \in SUBSET Hydrators
           /\ seen' \in [Hydrators -> [Submissions -> Receipts]]
           /\ pending' \in [Hydrators -> SUBSET Swaps]
BY DEF EndLockedHydration, TypeOK, Blank, Receipts, Hydrators

LEMMA RequestType ==
    ASSUME TypeOK, RequestBody
    PROVE  TypeOK'
<1>id. request.kind \in {"Accept", "Dispatch", "Submit"} => request.id \in Submissions
  BY DEF TypeOK, LockHolders
<1>1. CASE AcceptSave
  BY <1>1, <1>id, HydratedType, EndType DEF AcceptSave, TypeOK, Receipts, States, TurnStatuses, SessionStatuses, Projections, LockHolders, Idle
<1>2. CASE AcceptReturn
  BY <1>2, HydratedType, EndType DEF AcceptReturn, TakeHydrated, TypeOK, LockHolders, Idle
<1>3. CASE DispatchClaim
  BY <1>3, HydratedType, EndType DEF DispatchClaim, TypeOK, Receipts, States, TurnStatuses, SessionStatuses, Projections, LockHolders, Places
<1>4. CASE DispatchReturn
  BY <1>4, HydratedType, EndType DEF DispatchReturn, TakeHydrated, TypeOK, LockHolders, Idle
<1>5. CASE DispatchSubmit
  BY <1>5 DEF DispatchSubmit, TypeOK, LockHolders, Idle, Places
<1>6. CASE DispatchSubmitFails
  <2>s. request.id \in Submissions
    BY <1>6, <1>id DEF DispatchSubmitFails
  <2>1. CASE receipt[request.id] = "Dispatching"
    <3>1. receipt' = [receipt EXCEPT ![request.id] = "NotSent"]
          /\ projected' = [projected EXCEPT ![request.id] = "NotSent"]
          /\ status' \in {status, [status EXCEPT ![request.id] = "Failed"]}
          /\ session' = "Idle"
          /\ disk' = [projected |-> projected', status |-> status', session |-> "Idle"]
      BY <1>6, <2>1 DEF DispatchSubmitFails
    <3>2. receipt' \in [Submissions -> Receipts] /\ projected' \in [Submissions -> Receipts]
      BY <3>1, <2>s DEF TypeOK, Receipts, States
    <3>3. status' \in [Submissions -> TurnStatuses]
      BY <3>1, <2>s DEF TypeOK, TurnStatuses
    <3>4. session' \in SessionStatuses
      BY <3>1 DEF SessionStatuses
    <3>5. disk' \in Projections
      BY <3>1, <3>2, <3>3, <3>4 DEF Projections
    <3> QED BY <1>6, <3>2, <3>3, <3>4, <3>5
            DEF DispatchSubmitFails, TypeOK, LockHolders, Idle, Places
  <2>2. CASE receipt[request.id] # "Dispatching"
    BY <1>6, <2>2 DEF DispatchSubmitFails, TypeOK, LockHolders, Idle, Places
  <2> QED BY <2>1, <2>2
<1>7. CASE ReadDone
  <2>1. [projected |-> HydratedReceipts, status |-> HydratedStatus,
         session |-> HydratedSession] \in Projections
    BY HydratedType DEF Projections
  <2>2. reader' \in [stage : {"none", "fetch", "cold", "reconcile"},
                     seen : [Submissions -> Receipts], before : Projections,
                     history : SUBSET Submissions]
    BY <1>7, <2>1, HydratedType DEF ReadDone, TypeOK
  <2>3. disk' \in Projections
    BY <1>7, <2>1 DEF ReadDone, TypeOK
  <2> QED BY <1>7, <2>2, <2>3, HydratedType, EndType DEF ReadDone, TakeHydrated, TypeOK, LockHolders, Idle
<1> QED BY <1>1, <1>2, <1>3, <1>4, <1>5, <1>6, <1>7 DEF RequestBody

LEMMA WorkerType ==
    ASSUME TypeOK, NEW r \in Runtimes, NEW s \in Submissions, Worker(r, s)
    PROVE  TypeOK'
<1>s. \A ev \in Seq(Events) : \A batch \in Seq(Events) : ev \o batch \in Seq(Events)
  OBVIOUS
<1>e. \A batch \in Seq(Events) :
          [events EXCEPT ![r] = @ \o batch] \in [Runtimes -> Seq(Events)]
  BY <1>s DEF TypeOK
<1>b. \A x, y \in Events : <<x, y>> \in Seq(Events) /\ <<x>> \in Seq(Events)
  OBVIOUS
<1>u. \A state \in Receipts : Updated(s, state) \in Events
  BY DEF Updated, Events
<1>f. Finished(FALSE) \in Events
  BY DEF Finished, Events
<1>1. CASE WorkerDeadServer(r, s)
  <2>1. "NotSent" \in Receipts
    BY DEF States, Receipts
  <2>2. Updated(s, "NotSent") \in Events
    BY <1>u, <2>1
  <2>3. events' \in [Runtimes -> Seq(Events)]
    <3>1. <<Updated(s, "NotSent"), Finished(FALSE)>> \in Seq(Events)
          /\ <<Finished(FALSE)>> \in Seq(Events)
      BY <2>2, <1>f, <1>b
    <3> QED BY <1>1, <1>e, <3>1 DEF WorkerDeadServer, Send
  <2> QED BY <1>1, <2>3 DEF WorkerDeadServer, TypeOK, Receipts, States, Places
<1>2. CASE WorkerClaim(r, s)
  <2>1. Updated(s, "Dispatching") \in Events
    BY <1>u DEF Receipts, States
  <2>2. <<Updated(s, "Dispatching")>> \in Seq(Events)
    BY <2>1
  <2>3. events' \in [Runtimes -> Seq(Events)]
    <3>1. CASE receipt[s] = "Dispatching"
      <4>1. Send(r, <<Updated(s, "Dispatching")>>)
        BY <1>2, <3>1 DEF WorkerClaim
      <4> QED BY <4>1, <2>2, <1>e DEF Send
    <3>2. CASE receipt[s] # "Dispatching"
      BY <1>2, <3>2 DEF WorkerClaim, TypeOK
    <3> QED BY <3>1, <3>2
  <2>4. place' \in [Submissions -> Places]
    <3>1. \E at \in {"claimed", "done"} : place' = [place EXCEPT ![s] = at]
      BY <1>2 DEF WorkerClaim
    <3> QED BY <3>1 DEF TypeOK, Places
  <2>5. /\ native' \in [Submissions -> BOOLEAN]
        /\ via' \in [Submissions -> Runtimes \cup {None}]
    BY <1>2 DEF WorkerClaim, TypeOK
  <2>6. fence' \in [Runtimes -> Submissions \cup {None}]
    BY <1>2 DEF WorkerClaim, TypeOK
  <2> QED BY <1>2, <2>3, <2>4, <2>5, <2>6 DEF WorkerClaim, TypeOK
<1>3. CASE WorkerCannotSend(s)
  BY <1>3 DEF WorkerCannotSend, TypeOK, Receipts, States, Places
<1>4. CASE WorkerPost(s)
  BY <1>4 DEF WorkerPost, TypeOK, Places, Inputs
<1>5. CASE via[s] = r /\ WorkerRecord(s)
  <2>1. Updated(s, outcome[s]) \in Events
    BY <1>u DEF TypeOK
  <2> DEFINE told  == IF receipt[s] = "Dispatching" THEN <<Updated(s, outcome[s])>> ELSE <<>>
             ended == IF outcome[s] \in Failures /\ fence[r] # None
                      THEN <<Finished(FALSE)>> ELSE <<>>
  <2>2. told \in Seq(Events) /\ ended \in Seq(Events)
    <3>1. <<>> \in Seq(Events)
      OBVIOUS
    <3> QED BY <3>1, <2>1, <1>f, <1>b
  <2>3. told \o ended \in Seq(Events)
    BY <2>2, <1>s
  <2>4. events' = [events EXCEPT ![r] = @ \o (told \o ended)]
    BY <1>5 DEF WorkerRecord, Send
  <2> HIDE DEF told, ended
  <2>5. events' \in [Runtimes -> Seq(Events)]
    BY <2>3, <2>4, <1>e
  <2> QED BY <1>5, <2>5 DEF WorkerRecord, TypeOK, Receipts, Places
<1>6. CASE \E state \in {"Accepted", "Rejected", "Unknown"} : WorkerAnswered(s, state)
  BY <1>6 DEF WorkerAnswered, TypeOK, Receipts, States, Places
<1> QED BY <1>1, <1>2, <1>3, <1>4, <1>5, <1>6 DEF Worker

LEMMA RuntimeType ==
    ASSUME TypeOK, NEW r \in Runtimes,
           StartBegin(r) \/ Started(r) \/ StartFails(r) \/ Detach(r) \/ ServerDies(r)
    PROVE  TypeOK'
BY DEF StartBegin, Started, StartFails, Detach, ServerDies, TypeOK, Servers

LEMMA EventType ==
    ASSUME TypeOK, NEW r \in Runtimes, ApplyEvent(r)
    PROVE  TypeOK'
<1>1. events[r] \in Seq(Events) /\ events[r] # <<>>
  BY DEF ApplyEvent, TypeOK
<1>2. Head(events[r]) \in Events /\ Tail(events[r]) \in Seq(Events)
  BY <1>1
<1>3. events' \in [Runtimes -> Seq(Events)]
  BY <1>2 DEF ApplyEvent, TypeOK
<1>4. Head(events[r]).kind = "updated" => Head(events[r]).state \in Receipts
  BY <1>2 DEF Events
<1>5. projected' \in [Submissions -> Receipts]
  BY <1>4 DEF ApplyEvent, TypeOK
<1>6. /\ status' \in [Submissions -> TurnStatuses]
      /\ session' \in SessionStatuses
  BY DEF ApplyEvent, TypeOK, TurnStatuses, SessionStatuses
<1>7. disk' \in Projections
  BY <1>5, <1>6 DEF ApplyEvent, TypeOK, Projections
<1> QED BY <1>3, <1>5, <1>6, <1>7 DEF ApplyEvent, TypeOK

LEMMA TurnEndsType ==
    ASSUME TypeOK, NEW r \in Runtimes, NEW success \in BOOLEAN, TurnEnds(r, success)
    PROVE  TypeOK'
<1>1. fence[r] \in Submissions
  BY DEF TurnEnds, TypeOK
<1>2. Updated(fence[r], "Accepted") \in Events /\ Finished(success) \in Events
  BY <1>1 DEF Updated, Finished, Events, Receipts, States
<1>3. events' \in [Runtimes -> Seq(Events)]
  BY <1>2 DEF TurnEnds, Send, TypeOK
<1> QED BY <1>3 DEF TurnEnds, TypeOK, Receipts, States

LEMMA ReaderType ==
    ASSUME TypeOK,
           ReaderCold \/ ReaderFetch \/ ReaderMerge \/ ReaderGivesUp
               \/ \E s \in Submissions : ReaderConfirm(s)
    PROVE  TypeOK'
<1>1. CASE ReaderCold \/ ReaderFetch
  <2>1. InSession \subseteq Submissions
    BY DEF InSession, TypeOK
  <2> QED BY <1>1, <2>1 DEF ReaderCold, ReaderFetch, TypeOK
<1>2. CASE ReaderMerge
  BY <1>2 DEF ReaderMerge, TypeOK, NoReader, Blank, Receipts, Projections,
              TurnStatuses, SessionStatuses
<1>3. CASE ReaderGivesUp
  BY <1>3 DEF ReaderGivesUp, TypeOK, NoReader, Blank, Receipts, Projections,
              TurnStatuses, SessionStatuses
<1>4. ASSUME NEW s \in Submissions, ReaderConfirm(s) PROVE TypeOK'
  <2>1. "Accepted" \in Receipts
    BY DEF Receipts, States
  <2>2. [reader.seen EXCEPT ![s] = "Accepted"] \in [Submissions -> Receipts]
    BY <2>1 DEF TypeOK
  <2>3. reader' \in [stage : {"none", "fetch", "cold", "reconcile"},
                     seen : [Submissions -> Receipts], before : Projections,
                     history : SUBSET Submissions]
    BY <1>4, <2>2 DEF ReaderConfirm, TypeOK
  <2>4. receipt' \in [Submissions -> Receipts] /\ native' \in [Submissions -> BOOLEAN]
    <3>1. \/ UNCHANGED <<receipt, native>>
          \/ /\ receipt' = [receipt EXCEPT ![s] = "Accepted"]
             /\ native' = [native EXCEPT ![s] = TRUE]
      BY <1>4 DEF ReaderConfirm
    <3>2. receipt' \in [Submissions -> Receipts]
      BY <3>1, <2>1 DEF TypeOK
    <3>3. native' \in [Submissions -> BOOLEAN]
      BY <3>1 DEF TypeOK
    <3> QED BY <3>2, <3>3
  <2> QED BY <1>4, <2>3, <2>4 DEF ReaderConfirm, TypeOK
<1> QED BY <1>1, <1>2, <1>3, <1>4

LEMMA OtherType ==
    ASSUME TypeOK,
           \/ \E s \in Submissions : Abandon(s) \/ Disconnect(s) \/ ProviderStores(s)
                                      \/ ProviderDrops(s) \/ ProviderFinishes(s)
           \/ Crash
    PROVE  TypeOK'
<1>1. ASSUME NEW s \in Submissions, Abandon(s) PROVE TypeOK'
  <2>1. /\ projected' \in [Submissions -> Receipts]
        /\ status' \in [Submissions -> TurnStatuses]
        /\ session' \in SessionStatuses
    BY <1>1 DEF Abandon, TypeOK, Receipts, States, TurnStatuses, SessionStatuses
  <2>2. disk' \in Projections
    BY <1>1, <2>1 DEF Abandon, TypeOK, Projections
  <2> QED BY <1>1, <2>1, <2>2 DEF Abandon, TypeOK, Receipts, States
<1>2. ASSUME NEW s \in Submissions, Disconnect(s) PROVE TypeOK'
  BY <1>2 DEF Disconnect, TypeOK
<1>3. ASSUME NEW s \in Submissions,
             ProviderStores(s) \/ ProviderDrops(s) \/ ProviderFinishes(s)
      PROVE  TypeOK'
  BY <1>3 DEF ProviderStores, ProviderDrops, ProviderFinishes, TypeOK, Inputs
<1>4. CASE Crash
  BY <1>4, NoneAssumption, BoundAssumption
     DEF Crash, TypeOK, Idle, LockHolders, Blank, Receipts, NoReader, Projections,
         TurnStatuses, SessionStatuses, Servers, Places, Hydrators, Swaps
<1> QED BY <1>1, <1>2, <1>3, <1>4

LEMMA HydrationType ==
    ASSUME TypeOK, Hydration
    PROVE  TypeOK'
<1>1. ASSUME NEW h \in Hydrators, HydrateUpdate(h) PROVE TypeOK'
  <2>1. PICK swap \in pending[h] :
            LET current == receipt[swap.id] = swap.from
                state   == IF current THEN Repaired(swap.from) ELSE receipt[swap.id]
            IN  /\ receipt' = [receipt EXCEPT ![swap.id] = state]
                /\ native' = IF current THEN [native EXCEPT ![swap.id] = swap.native]
                                        ELSE native
                /\ seen' = [seen EXCEPT ![h][swap.id] = state]
                /\ pending' = [pending EXCEPT ![h] = @ \ {swap}]
    BY <1>1 DEF HydrateUpdate
  <2>2. PICK s \in Submissions, known \in BOOLEAN : s = swap.id /\ known = swap.native
    BY DEF TypeOK, Swaps
  <2> DEFINE state == IF receipt[s] = swap.from THEN Repaired(swap.from) ELSE receipt[s]
  <2>3. state \in Receipts
    BY DEF Repaired, Receipts, States, TypeOK
  <2>4. receipt' \in [Submissions -> Receipts]
    <3>1. receipt' = [receipt EXCEPT ![s] = state]
      BY <2>1, <2>2
    <3> HIDE DEF state
    <3> QED BY <2>3, <3>1 DEF TypeOK
  <2>5. native' \in [Submissions -> BOOLEAN]
    <3>1. native' \in {native, [native EXCEPT ![s] = known]}
      BY <2>1, <2>2
    <3> QED BY <3>1 DEF TypeOK
  <2>6. seen' \in [Hydrators -> [Submissions -> Receipts]]
    <3>1. seen' = [seen EXCEPT ![h][s] = state]
      BY <2>1, <2>2
    <3> HIDE DEF state
    <3>2. [seen[h] EXCEPT ![s] = state] \in [Submissions -> Receipts]
      BY <2>3 DEF TypeOK
    <3> QED BY <3>1, <3>2 DEF TypeOK
  <2>7. pending' \in [Hydrators -> SUBSET Swaps]
    BY <2>1 DEF TypeOK
  <2> QED BY <1>1, <2>4, <2>5, <2>6, <2>7 DEF HydrateUpdate, TypeOK
<1>2. CASE AdmitHydrate
  BY <1>2, ReadType DEF AdmitHydrate, TypeOK, Hydrators
<1>3. CASE AdmitHydrated
  BY <1>3 DEF AdmitHydrated, TypeOK, Blank, Receipts
<1> QED BY <1>1, <1>2, <1>3 DEF Hydration

LEMMA BeginType ==
    ASSUME TypeOK,
           \/ Read
           \/ \E s \in Submissions : Accept(s) \/ \E r \in Runtimes : Dispatch(s, r)
    PROVE  TypeOK'
<1>1. ASSUME NEW kind, NEW s, NEW r, BeginRequest(kind, s, r),
             [kind |-> kind, id |-> s, rt |-> r] \in LockHolders
      PROVE  TypeOK'
  BY <1>1, ReadType DEF BeginRequest, TypeOK, Hydrators
<1>2. CASE Read
  BY <1>2, <1>1 DEF Read, LockHolders
<1>3. ASSUME NEW s \in Submissions, Accept(s) PROVE TypeOK'
  BY <1>3, <1>1 DEF Accept, LockHolders
<1>4. ASSUME NEW s \in Submissions, NEW r \in Runtimes, Dispatch(s, r) PROVE TypeOK'
  BY <1>4, <1>1 DEF Dispatch, LockHolders
<1> QED BY <1>2, <1>3, <1>4

LEMMA StepType ==
    ASSUME TypeOK, [Next]_vars
    PROVE  TypeOK'
<1>1. CASE UNCHANGED vars
  BY <1>1 DEF vars, TypeOK
<1>2. CASE Next
  BY <1>2, BeginType, HydrationType, RequestType, WorkerType, RuntimeType, EventType,
     TurnEndsType, ReaderType, OtherType
     DEF Next
<1> QED BY <1>1, <1>2

\* Type correctness: in every reachable state of the protocol every variable
\* holds a value of its type.
THEOREM TypeCorrect == Spec => []TypeOK
BY InitType, StepType, PTL DEF Spec

-------------------------------------------------------------------------------
(***************************************************************************)
(* The inductive invariant holds initially.                                *)
(***************************************************************************)
LEMMA InitSafety == Init => SafetyInv
<1> SUFFICES ASSUME Init PROVE SafetyInv
  OBVIOUS
<1>1. Ends
  BY NoneAssumption DEF Init, Ends, Adrift, Blank, Projection
<1> QED
  BY <1>1, InitType
     DEF Init, SafetyInv, LockInv, Consistent, KnownVerdicts, NothingMissed, OneUnsettled,
         Truthful, TypeOK, Idle, Blank, Requests, Failures, Verdicts, Unsettled, Projection,
         NoReader

-------------------------------------------------------------------------------
(***************************************************************************)
(* How the receipts move.                                                  *)
(***************************************************************************)
Advances ==
    {<<"Absent", "Preparing">>, <<"Preparing", "Dispatching">>, <<"Preparing", "NotSent">>,
     <<"Dispatching", "Unknown">>, <<"Dispatching", "NotSent">>,
     <<"Dispatching", "Rejected">>, <<"Dispatching", "Accepted">>,
     <<"Unknown", "Accepted">>}

Quiet == UNCHANGED <<receipt, place, outcome, input, posts>>

\* Only these actions touch the row, the Prompt or the input of a submission.
LEMMA QuietSteps ==
    ASSUME Next
    PROVE  \/ Quiet
           \/ \E h \in Hydrators : HydrateUpdate(h)
           \/ AcceptSave \/ DispatchClaim \/ DispatchSubmit \/ DispatchSubmitFails
           \/ \E s \in Submissions :
                 \/ Abandon(s) \/ ReaderConfirm(s)
                 \/ ProviderStores(s) \/ ProviderDrops(s) \/ ProviderFinishes(s)
                 \/ \E r \in Runtimes : Worker(r, s)
           \/ \E r \in Runtimes : \E success \in BOOLEAN : TurnEnds(r, success)
           \/ Crash
<1>1. CASE Read \/ \E s \in Submissions : Accept(s) \/ \E r \in Runtimes : Dispatch(s, r)
  BY <1>1 DEF Read, Accept, Dispatch, BeginRequest, Quiet
<1>2. CASE AdmitHydrate \/ AdmitHydrated
  BY <1>2 DEF AdmitHydrate, AdmitHydrated, Quiet
<1>3. CASE AcceptReturn \/ DispatchReturn \/ ReadDone
  BY <1>3 DEF AcceptReturn, DispatchReturn, ReadDone, Quiet
<1>4. CASE \E s \in Submissions : Disconnect(s)
  BY <1>4 DEF Disconnect, Quiet
<1>5. CASE \E r \in Runtimes : StartBegin(r) \/ Started(r) \/ StartFails(r) \/ Detach(r)
                               \/ ServerDies(r) \/ ApplyEvent(r)
  BY <1>5 DEF StartBegin, Started, StartFails, Detach, ServerDies, ApplyEvent, Quiet
<1>6. CASE ReaderCold \/ ReaderFetch \/ ReaderMerge \/ ReaderGivesUp
  BY <1>6 DEF ReaderCold, ReaderFetch, ReaderMerge, ReaderGivesUp, Quiet
<1> QED BY <1>1, <1>2, <1>3, <1>4, <1>5, <1>6 DEF Next, Hydration, RequestBody

LEMMA StepConsistent ==
    ASSUME SafetyInv, Next
    PROVE  /\ \A s \in Submissions : Consistent(s)'
           /\ \A s \in Submissions :
                 receipt'[s] = receipt[s] \/ <<receipt[s], receipt'[s]>> \in Advances
<1> SUFFICES ASSUME NEW s \in Submissions
             PROVE  /\ Consistent(s)'
                    /\ receipt'[s] = receipt[s] \/ <<receipt[s], receipt'[s]>> \in Advances
  OBVIOUS
<1> USE DEF Failures, Stored, Unconfirmed, Verdicts
<1>0. TypeOK /\ Consistent(s) /\ LockInv
  BY DEF SafetyInv
<1>1. CASE Quiet
  BY <1>0, <1>1 DEF Quiet, Consistent
<1>2. ASSUME NEW h \in Hydrators, HydrateUpdate(h)
      PROVE  /\ Consistent(s)'
             /\ receipt'[s] = receipt[s] \/ <<receipt[s], receipt'[s]>> \in Advances
  <2>1. PICK swap \in pending[h] :
            receipt' = [receipt EXCEPT ![swap.id] =
                IF receipt[swap.id] = swap.from THEN Repaired(swap.from) ELSE receipt[swap.id]]
    BY <1>2 DEF HydrateUpdate
  <2>2. swap.id \in Submissions /\ swap.from \in {"Preparing", "Dispatching"}
    BY <1>0, <1>2 DEF TypeOK, Swaps
  <2>3. \/ receipt'[s] = receipt[s]
        \/ receipt[s] = "Preparing" /\ receipt'[s] = "NotSent"
        \/ receipt[s] = "Dispatching" /\ receipt'[s] = "Unknown"
    <3>1. PICK t \in Submissions, from \in {"Preparing", "Dispatching"} :
              t = swap.id /\ from = swap.from
      BY <2>2
    <3>2. receipt' = [receipt EXCEPT ![t] =
                         IF receipt[t] = from THEN Repaired(from) ELSE receipt[t]]
      BY <2>1, <3>1
    <3>3. receipt'[s] = IF s = t /\ receipt[s] = from THEN Repaired(from) ELSE receipt[s]
      BY <3>2, <1>0 DEF TypeOK
    <3> QED BY <3>3 DEF Repaired
  <2> QED BY <2>3, <1>0, <1>2 DEF HydrateUpdate, Consistent, Advances
<1>3. CASE AcceptSave
  BY <1>0, <1>3 DEF AcceptSave, Consistent, TypeOK, Advances
<1>4. CASE DispatchClaim
  BY <1>0, <1>4 DEF DispatchClaim, Dispatchable, Consistent, TypeOK, Advances
<1>5. CASE DispatchSubmit
  BY <1>0, <1>5 DEF DispatchSubmit, LockInv, Consistent, TypeOK
<1>6. CASE DispatchSubmitFails
  BY <1>0, <1>6 DEF DispatchSubmitFails, LockInv, Consistent, TypeOK, Advances
<1>7. ASSUME NEW t \in Submissions,
             Abandon(t) \/ ReaderConfirm(t) \/ ProviderStores(t) \/ ProviderDrops(t)
                 \/ ProviderFinishes(t)
      PROVE  /\ Consistent(s)'
             /\ receipt'[s] = receipt[s] \/ <<receipt[s], receipt'[s]>> \in Advances
  <2>1. CASE Abandon(t)
    BY <1>0, <2>1 DEF Abandon, Consistent, TypeOK, Advances
  <2>2. CASE ReaderConfirm(t)
    BY <1>0, <2>2 DEF ReaderConfirm, SafetyInv, Consistent, TypeOK, Advances
  <2>3. CASE ProviderStores(t)
    BY <1>0, <2>3 DEF ProviderStores, Consistent, TypeOK
  <2>4. CASE ProviderDrops(t)
    BY <1>0, <2>4 DEF ProviderDrops, Consistent, TypeOK
  <2>5. CASE ProviderFinishes(t)
    BY <1>0, <2>5 DEF ProviderFinishes, Consistent, TypeOK
  <2> QED BY <1>7, <2>1, <2>2, <2>3, <2>4, <2>5
<1>8. ASSUME NEW t \in Submissions, NEW r \in Runtimes, Worker(r, t)
      PROVE  /\ Consistent(s)'
             /\ receipt'[s] = receipt[s] \/ <<receipt[s], receipt'[s]>> \in Advances
  <2>0. Consistent(t)
    BY DEF SafetyInv
  <2>1. CASE WorkerDeadServer(r, t)
    BY <1>0, <2>0, <2>1 DEF WorkerDeadServer, Consistent, TypeOK, Advances
  <2>2. CASE WorkerClaim(r, t)
    BY <1>0, <2>0, <2>2 DEF WorkerClaim, Consistent, TypeOK
  <2>3. CASE WorkerCannotSend(t)
    BY <1>0, <2>0, <2>3 DEF WorkerCannotSend, Consistent, TypeOK
  <2>4. CASE WorkerPost(t)
    BY <1>0, <2>0, <2>4 DEF WorkerPost, Consistent, TypeOK
  <2>5. CASE WorkerRecord(t)
    BY <1>0, <2>0, <2>5 DEF WorkerRecord, Consistent, TypeOK, Advances
  <2>6. CASE \E state \in {"Accepted", "Rejected", "Unknown"} : WorkerAnswered(t, state)
    BY <1>0, <2>0, <2>6 DEF WorkerAnswered, Consistent, TypeOK
  <2> QED BY <1>8, <2>1, <2>2, <2>3, <2>4, <2>5, <2>6 DEF Worker
<1>9. ASSUME NEW r \in Runtimes, NEW success \in BOOLEAN, TurnEnds(r, success)
      PROVE  /\ Consistent(s)'
             /\ receipt'[s] = receipt[s] \/ <<receipt[s], receipt'[s]>> \in Advances
  BY <1>0, <1>9 DEF TurnEnds, Consistent, TypeOK, Advances
<1>10. CASE Crash
  BY <1>0, <1>10 DEF Crash, Consistent, TypeOK, Blank
<1> QED BY QuietSteps, <1>1, <1>2, <1>3, <1>4, <1>5, <1>6, <1>7, <1>8, <1>9, <1>10

-------------------------------------------------------------------------------
(***************************************************************************)
(* The lock.                                                               *)
(***************************************************************************)
LEMMA StepLock ==
    ASSUME SafetyInv, Next
    PROVE  LockInv'
<1> USE DEF Requests
<1>0. TypeOK /\ LockInv
  BY DEF SafetyInv
<1>1. CASE UNCHANGED <<request, hydrating, place>>
  BY <1>0, <1>1 DEF LockInv
<1>2. ASSUME NEW kind \in Requests, NEW s, NEW r, BeginRequest(kind, s, r)
      PROVE  LockInv'
  BY <1>0, <1>2 DEF BeginRequest, HydrateRead, Free, LockInv
<1>3. CASE Read \/ \E s \in Submissions : Accept(s) \/ \E r \in Runtimes : Dispatch(s, r)
  BY <1>2, <1>3 DEF Read, Accept, Dispatch
<1>4. CASE Hydration
  <2>1. UNCHANGED <<request, place>> /\ ("locked" \in hydrating' <=> "locked" \in hydrating)
    BY <1>4 DEF Hydration, HydrateUpdate, AdmitHydrate, AdmitHydrated, HydrateRead
  <2> QED BY <2>1, <1>0 DEF LockInv
<1>5. CASE AcceptSave \/ AcceptReturn \/ DispatchReturn \/ ReadDone
  <2>1. request' = Idle /\ hydrating' = hydrating \ {"locked"} /\ UNCHANGED place
        /\ request.kind \in Requests
    BY <1>5 DEF AcceptSave, AcceptReturn, DispatchReturn, ReadDone, EndLockedHydration
  <2> QED BY <2>1, <1>0 DEF LockInv, Idle
<1>6. CASE DispatchClaim
  <2>1. request' = [kind |-> "Submit", id |-> request.id, rt |-> request.rt]
        /\ request.kind = "Dispatch" /\ request.id \in Submissions
    BY <1>0, <1>6 DEF DispatchClaim, TypeOK, LockHolders
  <2>2. hydrating' = hydrating \ {"locked"} /\ place' = [place EXCEPT ![request.id] = "submitting"]
    BY <1>6 DEF DispatchClaim, EndLockedHydration
  <2> QED BY <2>1, <2>2, <1>0 DEF LockInv, TypeOK
<1>7. CASE DispatchSubmit
  BY <1>0, <1>7 DEF DispatchSubmit, LockInv, Idle, TypeOK
<1>8. CASE DispatchSubmitFails
  BY <1>0, <1>8 DEF DispatchSubmitFails, LockInv, Idle, TypeOK
<1>9. ASSUME NEW t \in Submissions, NEW r \in Runtimes, Worker(r, t)
      PROVE  LockInv'
  <2>1. UNCHANGED <<request, hydrating>>
    BY <1>9 DEF Worker, WorkerDeadServer, WorkerClaim, WorkerCannotSend, WorkerPost,
                WorkerRecord, WorkerAnswered
  <2>2. place[t] # "submitting" /\ \E at \in Places \ {"submitting"} :
            place' = [place EXCEPT ![t] = at]
    BY <1>9 DEF Worker, WorkerDeadServer, WorkerClaim, WorkerCannotSend, WorkerPost,
                WorkerRecord, WorkerAnswered, Places
  <2> QED BY <2>1, <2>2, <1>0 DEF LockInv, TypeOK
<1>10. CASE Crash
  BY <1>0, <1>10 DEF Crash, LockInv, Idle, TypeOK
<1>11. CASE \E s \in Submissions :
               \/ Abandon(s) \/ Disconnect(s) \/ ReaderConfirm(s)
               \/ ProviderStores(s) \/ ProviderDrops(s) \/ ProviderFinishes(s)
  BY <1>11, <1>1 DEF Abandon, Disconnect, ReaderConfirm, ProviderStores, ProviderDrops,
                     ProviderFinishes
<1>12. CASE \E r \in Runtimes :
               \/ StartBegin(r) \/ Started(r) \/ StartFails(r) \/ Detach(r) \/ ServerDies(r)
               \/ ApplyEvent(r) \/ \E success \in BOOLEAN : TurnEnds(r, success)
  BY <1>12, <1>1 DEF StartBegin, Started, StartFails, Detach, ServerDies, ApplyEvent, TurnEnds
<1>13. CASE ReaderCold \/ ReaderFetch \/ ReaderMerge \/ ReaderGivesUp
  BY <1>13, <1>1 DEF ReaderCold, ReaderFetch, ReaderMerge, ReaderGivesUp
<1> QED BY <1>3, <1>4, <1>5, <1>6, <1>7, <1>8, <1>9, <1>10, <1>11, <1>12, <1>13
        DEF Next, RequestBody

-------------------------------------------------------------------------------
(***************************************************************************)
(* Admission: one unsettled submission at a time.                          *)
(***************************************************************************)
LEMMA Gate ==
    ASSUME SafetyInv, request.kind = "Accept", Hydrated, SessionGateOpen
    PROVE  \A s \in Submissions : receipt[s] \notin Unsettled
<1> SUFFICES ASSUME NEW s \in Submissions, receipt[s] \in Unsettled
             PROVE  FALSE
  OBVIOUS
<1>0. TypeOK /\ KnownVerdicts /\ NothingMissed /\ "locked" \in hydrating
  BY DEF SafetyInv, Hydrated
<1>1. s \in InSession
  BY <1>0 DEF NothingMissed, Unsettled
<1>2. seen["locked"][s] \notin Unsettled
  BY <1>1 DEF SessionGateOpen, HasUnsettledSubmissions, HydratedReceipts
<1>3. seen["locked"][s] \in Receipts
  BY <1>0 DEF TypeOK, Hydrators
<1>4. seen["locked"][s] \in Verdicts
  BY <1>0, <1>2, <1>3 DEF NothingMissed, Receipts, States, Verdicts, Failures, Unsettled
<1>5. receipt[s] = seen["locked"][s]
  BY <1>0, <1>4 DEF KnownVerdicts
<1> QED BY <1>2, <1>5

\* Only an AcceptSave under the lock adds a row, and it adds one.
LEMMA StepRows ==
    ASSUME SafetyInv, Next, ~AcceptSave, NEW s \in Submissions, receipt[s] = "Absent"
    PROVE  receipt'[s] = "Absent"
<1>0. TypeOK /\ Consistent(s) /\ LockInv /\ reader.history \subseteq {t \in Submissions : input[t] \in Stored}
  BY DEF SafetyInv
<1>1. CASE Quiet
  BY <1>1 DEF Quiet
<1>2. ASSUME NEW h \in Hydrators, HydrateUpdate(h) PROVE receipt'[s] = "Absent"
  <2>1. PICK swap \in pending[h] :
            receipt' = [receipt EXCEPT ![swap.id] =
                IF receipt[swap.id] = swap.from THEN Repaired(swap.from) ELSE receipt[swap.id]]
    BY <1>2 DEF HydrateUpdate
  <2>2. swap.from \in {"Preparing", "Dispatching"}
    BY <1>0, <1>2 DEF TypeOK, Swaps
  <2> QED BY <2>1, <2>2, <1>0 DEF TypeOK
<1>3. CASE DispatchClaim \/ DispatchSubmit \/ DispatchSubmitFails
  BY <1>0, <1>3 DEF DispatchClaim, Dispatchable, DispatchSubmit, DispatchSubmitFails, TypeOK
<1>4. ASSUME NEW t \in Submissions,
             \/ Abandon(t) \/ ReaderConfirm(t)
             \/ ProviderStores(t) \/ ProviderDrops(t) \/ ProviderFinishes(t)
      PROVE  receipt'[s] = "Absent"
  <2>1. CASE Abandon(t)
    BY <1>0, <2>1 DEF Abandon, TypeOK
  <2>2. CASE ReaderConfirm(t)
    BY <1>0, <2>2 DEF ReaderConfirm, TypeOK, Unconfirmed
  <2>3. CASE ProviderStores(t) \/ ProviderDrops(t) \/ ProviderFinishes(t)
    BY <2>3 DEF ProviderStores, ProviderDrops, ProviderFinishes
  <2> QED BY <1>4, <2>1, <2>2, <2>3
<1>5. ASSUME NEW t \in Submissions, NEW r \in Runtimes, Worker(r, t)
      PROVE  receipt'[s] = "Absent"
  BY <1>0, <1>5 DEF Worker, WorkerDeadServer, WorkerClaim, WorkerCannotSend, WorkerPost,
                    WorkerRecord, WorkerAnswered, TypeOK
<1>6. ASSUME NEW r \in Runtimes, NEW success \in BOOLEAN, TurnEnds(r, success)
      PROVE  receipt'[s] = "Absent"
  BY <1>0, <1>6 DEF TurnEnds, TypeOK, Unconfirmed
<1>7. CASE Crash
  BY <1>7 DEF Crash
<1> QED BY QuietSteps, <1>1, <1>2, <1>3, <1>4, <1>5, <1>6, <1>7

LEMMA StepUnsettled ==
    ASSUME SafetyInv, Next, ~AcceptSave, NEW s \in Submissions, receipt'[s] \in Unsettled
    PROVE  receipt[s] \in Unsettled
BY StepRows, StepConsistent DEF Advances, Unsettled

LEMMA StepOneUnsettled ==
    ASSUME SafetyInv, Next
    PROVE  OneUnsettled'
<1>0. OneUnsettled /\ TypeOK
  BY DEF SafetyInv
<1>1. CASE AcceptSave
  <2>1. /\ receipt' = [receipt EXCEPT ![request.id] = "Preparing"]
        /\ \A s \in Submissions : receipt[s] \notin Unsettled
    BY <1>1, Gate DEF AcceptSave
  <2> QED BY <2>1, <1>0 DEF OneUnsettled, TypeOK
<1>2. CASE ~AcceptSave
  BY <1>0, <1>2, StepUnsettled DEF OneUnsettled
<1> QED BY <1>1, <1>2

-------------------------------------------------------------------------------
(***************************************************************************)
(* Verdicts: what memory, events and hydrations hold of them is true.      *)
(***************************************************************************)
VerdictsStay ==
    \A s \in Submissions : receipt[s] \in Verdicts => receipt'[s] = receipt[s]

LEMMA StepVerdicts ==
    ASSUME SafetyInv, Next
    PROVE  VerdictsStay
BY StepConsistent DEF VerdictsStay, Advances, Verdicts, Failures

\* What the holder of the lock has seen is old or is the row itself.
LEMMA StepSeen ==
    ASSUME SafetyInv, Next, "locked" \in hydrating', NEW s \in Submissions
    PROVE  \/ seen'["locked"][s] = receipt'[s]
           \/ /\ ~AcceptSave
              /\ "locked" \in hydrating
              /\ seen'["locked"][s] = seen["locked"][s]
<1>0. TypeOK
  BY DEF SafetyInv
<1>1. CASE UNCHANGED <<hydrating, seen>>
  <2>1. ~AcceptSave
    BY <1>1 DEF AcceptSave, EndLockedHydration
  <2> QED BY <1>1, <2>1
<1>2. CASE Read \/ \E t \in Submissions : Accept(t) \/ \E r \in Runtimes : Dispatch(t, r)
  BY <1>0, <1>2 DEF Read, Accept, Dispatch, BeginRequest, HydrateRead, TypeOK, Hydrators
<1>3. ASSUME NEW h \in Hydrators, HydrateUpdate(h)
      PROVE  \/ seen'["locked"][s] = receipt'[s]
             \/ /\ ~AcceptSave
                /\ "locked" \in hydrating
                /\ seen'["locked"][s] = seen["locked"][s]
  <2>1. PICK t, state :
            /\ t \in Submissions
            /\ seen' = [seen EXCEPT ![h][t] = state]
            /\ receipt' = [receipt EXCEPT ![t] = state]
    <3>1. PICK swap \in pending[h] :
              LET current == receipt[swap.id] = swap.from
                  state   == IF current THEN Repaired(swap.from) ELSE receipt[swap.id]
              IN  /\ receipt' = [receipt EXCEPT ![swap.id] = state]
                  /\ seen' = [seen EXCEPT ![h][swap.id] = state]
      BY <1>3 DEF HydrateUpdate
    <3>2. swap.id \in Submissions
      BY <1>0, <1>3 DEF TypeOK, Swaps
    <3> QED BY <3>1, <3>2
  <2>2. UNCHANGED <<hydrating, request>>
    BY <1>3 DEF HydrateUpdate
  <2>3. ~AcceptSave
    BY <2>2 DEF AcceptSave, EndLockedHydration
  <2>4. CASE h = "locked" /\ s = t
    BY <2>1, <2>4, <1>0 DEF TypeOK, Hydrators
  <2>5. CASE ~(h = "locked" /\ s = t)
    BY <2>1, <2>2, <2>3, <2>5, <1>0 DEF TypeOK, Hydrators
  <2> QED BY <2>4, <2>5
<1>4. CASE AdmitHydrate \/ AdmitHydrated
  <2>1. seen'["locked"] = seen["locked"] /\ request' = request /\ "locked" \in hydrating
    BY <1>0, <1>4 DEF AdmitHydrate, AdmitHydrated, HydrateRead, TypeOK, Hydrators
  <2>2. ~AcceptSave
    BY <2>1 DEF AcceptSave, EndLockedHydration
  <2> QED BY <2>1, <2>2
<1>5. CASE AcceptSave \/ AcceptReturn \/ DispatchClaim \/ DispatchReturn \/ ReadDone
  BY <1>5 DEF AcceptSave, AcceptReturn, DispatchClaim, DispatchReturn, ReadDone,
              EndLockedHydration
<1>6. CASE Crash
  BY <1>6 DEF Crash
<1>7. CASE DispatchSubmit \/ DispatchSubmitFails
  BY <1>1, <1>7 DEF DispatchSubmit, DispatchSubmitFails
<1>8. ASSUME NEW t \in Submissions, NEW r \in Runtimes, Worker(r, t)
      PROVE  UNCHANGED <<hydrating, seen>>
  BY <1>8 DEF Worker, WorkerDeadServer, WorkerClaim, WorkerCannotSend, WorkerPost,
              WorkerRecord, WorkerAnswered
<1>9. CASE \E t \in Submissions :
               \/ Abandon(t) \/ Disconnect(t) \/ ReaderConfirm(t)
               \/ ProviderStores(t) \/ ProviderDrops(t) \/ ProviderFinishes(t)
  BY <1>9, <1>1 DEF Abandon, Disconnect, ReaderConfirm, ProviderStores, ProviderDrops,
                    ProviderFinishes
<1>10. CASE \E r \in Runtimes :
               \/ StartBegin(r) \/ Started(r) \/ StartFails(r) \/ Detach(r) \/ ServerDies(r)
               \/ ApplyEvent(r) \/ \E success \in BOOLEAN : TurnEnds(r, success)
  BY <1>10, <1>1 DEF StartBegin, Started, StartFails, Detach, ServerDies, ApplyEvent, TurnEnds
<1>11. CASE ReaderCold \/ ReaderFetch \/ ReaderMerge \/ ReaderGivesUp
  BY <1>11, <1>1 DEF ReaderCold, ReaderFetch, ReaderMerge, ReaderGivesUp
<1> QED BY <1>1, <1>2, <1>3, <1>4, <1>5, <1>6, <1>7, <1>8, <1>9, <1>10, <1>11
        DEF Next, RequestBody, Hydration

LEMMA StepTurns ==
    ASSUME Next, ~AcceptSave
    PROVE  turns' = turns
<1>1. ASSUME NEW s \in Submissions, NEW r \in Runtimes, Worker(r, s)
      PROVE  turns' = turns
  BY <1>1 DEF Worker, WorkerDeadServer, WorkerClaim, WorkerCannotSend, WorkerPost,
              WorkerRecord, WorkerAnswered
<1>2. CASE \E s \in Submissions :
               \/ Accept(s) \/ Abandon(s) \/ Disconnect(s) \/ ReaderConfirm(s)
               \/ ProviderStores(s) \/ ProviderDrops(s) \/ ProviderFinishes(s)
               \/ \E r \in Runtimes : Dispatch(s, r)
  BY <1>2 DEF Accept, Dispatch, BeginRequest, Abandon, Disconnect, ReaderConfirm,
              ProviderStores, ProviderDrops, ProviderFinishes
<1>3. CASE \E r \in Runtimes :
               \/ StartBegin(r) \/ Started(r) \/ StartFails(r) \/ Detach(r) \/ ServerDies(r)
               \/ ApplyEvent(r) \/ \E success \in BOOLEAN : TurnEnds(r, success)
  BY <1>3 DEF StartBegin, Started, StartFails, Detach, ServerDies, ApplyEvent, TurnEnds
<1>4. CASE Read \/ Hydration \/ ReaderCold \/ ReaderFetch \/ ReaderMerge \/ ReaderGivesUp \/ Crash
  BY <1>4 DEF Read, BeginRequest, Hydration, HydrateUpdate, AdmitHydrate, AdmitHydrated,
              ReaderCold, ReaderFetch, ReaderMerge, ReaderGivesUp, Crash
<1>5. CASE AcceptReturn \/ DispatchClaim \/ DispatchReturn \/ DispatchSubmit
               \/ DispatchSubmitFails \/ ReadDone
  BY <1>5 DEF AcceptReturn, DispatchClaim, DispatchReturn, DispatchSubmit,
              DispatchSubmitFails, ReadDone, TakeHydrated
<1> QED BY <1>1, <1>2, <1>3, <1>4, <1>5 DEF Next, RequestBody

LEMMA StepNothingMissed ==
    ASSUME SafetyInv, Next
    PROVE  NothingMissed'
<1>0. TypeOK /\ NothingMissed /\ KnownVerdicts
  BY DEF SafetyInv
<1>1. ASSUME NEW s \in Submissions, receipt'[s] # "Absent"
      PROVE  s \in InSession'
  <2>1. CASE AcceptSave
    <3>1. /\ receipt' = [receipt EXCEPT ![request.id] = "Preparing"]
          /\ turns' = Append(turns, request.id)
          /\ request.id \in Submissions
      BY <2>1, <1>0 DEF AcceptSave, TypeOK, LockHolders
    <3>2. /\ Len(turns') = Len(turns) + 1
          /\ turns'[Len(turns) + 1] = request.id
          /\ \A i \in 1..Len(turns) : turns'[i] = turns[i]
          /\ Len(turns) \in Nat
      BY <3>1, <1>0 DEF TypeOK
    <3>3. CASE s = request.id
      BY <3>2, <3>3 DEF InSession
    <3>4. CASE s # request.id
      <4>1. PICK i \in 1..Len(turns) : turns[i] = s
        BY <1>0, <1>1, <3>1, <3>4 DEF NothingMissed, InSession, TypeOK
      <4> QED BY <4>1, <3>2 DEF InSession
    <3> QED BY <3>3, <3>4
  <2>2. CASE ~AcceptSave
    <3>1. receipt[s] # "Absent"
      BY <2>2, <1>1, StepRows
    <3> QED BY <2>2, <3>1, StepTurns, <1>0 DEF NothingMissed, InSession
  <2> QED BY <2>1, <2>2
<1>2. ASSUME NEW s \in Submissions, "locked" \in hydrating',
             seen'["locked"][s] = "Absent"
      PROVE  receipt'[s] \notin Unsettled
  <2>1. CASE seen'["locked"][s] = receipt'[s]
    BY <2>1, <1>2 DEF Unsettled
  <2>2. CASE ~AcceptSave /\ "locked" \in hydrating /\ seen'["locked"][s] = seen["locked"][s]
    BY <2>2, <1>0, <1>2, StepUnsettled DEF NothingMissed
  <2> QED BY <1>2, <2>1, <2>2, StepSeen
<1> QED BY <1>1, <1>2 DEF NothingMissed

\* Where the receipt shown in memory comes from.
FromEvent(s, r) ==
    /\ events[r] # <<>>
    /\ Head(events[r]).kind = "updated" /\ Head(events[r]).id = s
    /\ projected'[s] = Head(events[r]).state

LEMMA StepProjected ==
    ASSUME SafetyInv, Next, NEW s \in Submissions
    PROVE  /\ \/ projected'[s] = projected[s]
              \/ projected'[s] = receipt'[s]
              \/ projected'[s] \notin Verdicts
              \/ Hydrated /\ projected'[s] = HydratedReceipts[s]
              \/ \E r \in Runtimes : FromEvent(s, r)
              \/ projected'[s] = disk.projected[s]
           /\ \/ disk'.projected[s] = disk.projected[s]
              \/ disk'.projected[s] = projected'[s]
              \/ Hydrated /\ disk'.projected[s] = HydratedReceipts[s]
<1>0. TypeOK
  BY DEF SafetyInv
<1>h. HydratedReceipts \in [Submissions -> Receipts]
  BY <1>0, HydratedType
<1> USE DEF Verdicts, Failures
<1>1. CASE UNCHANGED <<projected, disk>>
  BY <1>1
<1>2. CASE AcceptSave
  BY <1>0, <1>h, <1>2 DEF AcceptSave, TypeOK
<1>3. CASE AcceptReturn \/ DispatchReturn \/ ReadDone
  BY <1>3 DEF AcceptReturn, DispatchReturn, ReadDone, TakeHydrated
<1>4. CASE DispatchClaim
  BY <1>0, <1>h, <1>4 DEF DispatchClaim, TypeOK
<1>5. CASE DispatchSubmitFails
  <2>1. CASE receipt[request.id] = "Dispatching"
    <3>1. /\ receipt' = [receipt EXCEPT ![request.id] = "NotSent"]
          /\ projected' = [projected EXCEPT ![request.id] = "NotSent"]
          /\ disk' = [projected |-> projected', status |-> status', session |-> "Idle"]
      BY <1>5, <2>1 DEF DispatchSubmitFails
    <3> QED BY <3>1, <1>0 DEF TypeOK
  <2>2. CASE receipt[request.id] # "Dispatching"
    BY <1>5, <2>2 DEF DispatchSubmitFails
  <2> QED BY <2>1, <2>2
<1>6. ASSUME NEW t \in Submissions, Abandon(t)
      PROVE  /\ projected'[s] = projected[s] \/ projected'[s] = receipt'[s]
             /\ disk'.projected[s] = disk.projected[s] \/ disk'.projected[s] = projected'[s]
  <2>1. CASE receipt[t] = "Preparing"
    <3>1. /\ receipt' = [receipt EXCEPT ![t] = "NotSent"]
          /\ projected' = [projected EXCEPT ![t] = "NotSent"]
          /\ disk' = [projected |-> projected', status |-> status', session |-> session']
      BY <1>6, <2>1 DEF Abandon
    <3> QED BY <3>1, <1>0 DEF TypeOK
  <2>2. CASE receipt[t] # "Preparing"
    BY <1>6, <2>2 DEF Abandon
  <2> QED BY <2>1, <2>2
<1>7. ASSUME NEW r \in Runtimes, ApplyEvent(r)
      PROVE  /\ projected'[s] = projected[s] \/ FromEvent(s, r)
             /\ disk'.projected[s] = disk.projected[s] \/ disk'.projected[s] = projected'[s]
  <2>1. /\ events[r] # <<>>
        /\ \/ projected' = projected
           \/ /\ Head(events[r]).kind = "updated"
              /\ projected' = [projected EXCEPT ![Head(events[r]).id] = Head(events[r]).state]
        /\ \/ disk' = disk
           \/ disk' = [projected |-> projected', status |-> status', session |-> session']
    BY <1>7 DEF ApplyEvent
  <2> QED BY <2>1, <1>0 DEF TypeOK, FromEvent
<1>8. CASE ReaderMerge
  BY <1>8 DEF ReaderMerge
<1>9. CASE Crash
  BY <1>9 DEF Crash
<1>10. ASSUME NEW t \in Submissions, NEW r \in Runtimes, Worker(r, t)
       PROVE  UNCHANGED <<projected, disk>>
  BY <1>10 DEF Worker, WorkerDeadServer, WorkerClaim, WorkerCannotSend, WorkerPost,
               WorkerRecord, WorkerAnswered
<1>11. CASE Read \/ \E t \in Submissions : Accept(t) \/ \E r \in Runtimes : Dispatch(t, r)
  BY <1>1, <1>11 DEF Read, Accept, Dispatch, BeginRequest
<1>12. CASE Hydration \/ DispatchSubmit
  BY <1>1, <1>12 DEF Hydration, HydrateUpdate, AdmitHydrate, AdmitHydrated, DispatchSubmit
<1>13. CASE \E t \in Submissions :
               \/ Disconnect(t) \/ ReaderConfirm(t)
               \/ ProviderStores(t) \/ ProviderDrops(t) \/ ProviderFinishes(t)
  BY <1>1, <1>13 DEF Disconnect, ReaderConfirm, ProviderStores, ProviderDrops, ProviderFinishes
<1>14. CASE \E r \in Runtimes :
               \/ StartBegin(r) \/ Started(r) \/ StartFails(r) \/ Detach(r) \/ ServerDies(r)
               \/ \E success \in BOOLEAN : TurnEnds(r, success)
  BY <1>1, <1>14 DEF StartBegin, Started, StartFails, Detach, ServerDies, TurnEnds
<1>15. CASE ReaderCold \/ ReaderFetch \/ ReaderGivesUp
  BY <1>1, <1>15 DEF ReaderCold, ReaderFetch, ReaderGivesUp
<1> HIDE DEF Verdicts, Failures
<1> QED BY <1>1, <1>2, <1>3, <1>4, <1>5, <1>6, <1>7, <1>8, <1>9, <1>10, <1>11, <1>12,
           <1>13, <1>14, <1>15
        DEF Next, RequestBody

\* An event that was truthful stays truthful.
LEMMA TruthStays ==
    ASSUME VerdictsStay, NEW e \in Events, Truthful(e, receipt)
    PROVE  Truthful(e, receipt')
<1>1. CASE e.kind = "updated" /\ e.state \in Verdicts
  <2>1. e.id \in Submissions
    BY <1>1 DEF Events
  <2> QED BY <1>1, <2>1 DEF Truthful, VerdictsStay
<1>2. CASE ~(e.kind = "updated" /\ e.state \in Verdicts)
  BY <1>2 DEF Truthful
<1> QED BY <1>1, <1>2

TruthfulQueues(queues, rec) ==
    \A r \in Runtimes : \A i \in 1..Len(queues[r]) : Truthful(queues[r][i], rec)

LEMMA SendTruthful ==
    ASSUME TypeOK, TruthfulQueues(events, receipt), VerdictsStay, NEW r \in Runtimes,
           NEW batch \in Seq(Events), Send(r, batch),
           \A i \in 1..Len(batch) : Truthful(batch[i], receipt')
    PROVE  TruthfulQueues(events', receipt')
<1> SUFFICES ASSUME NEW q \in Runtimes, NEW i \in 1..Len(events'[q])
             PROVE  Truthful(events'[q][i], receipt')
  BY DEF TruthfulQueues
<1>0. events[q] \in Seq(Events)
  BY DEF TypeOK
<1>1. CASE i \in 1..Len(events[q])
  <2>1. events'[q][i] = events[q][i]
    BY <1>0, <1>1 DEF Send, TypeOK
  <2>2. events[q][i] \in Events /\ Truthful(events[q][i], receipt)
    BY <1>0, <1>1 DEF TruthfulQueues
  <2> QED BY <2>1, <2>2, TruthStays
<1>2. CASE i \notin 1..Len(events[q])
  <2>1. q = r
    BY <1>2 DEF Send, TypeOK
  <2>2. events'[q] = events[q] \o batch
    BY <2>1 DEF Send, TypeOK
  <2>3. i - Len(events[q]) \in 1..Len(batch) /\ events'[q][i] = batch[i - Len(events[q])]
    BY <1>0, <2>2, <1>2
  <2> QED BY <2>3
<1> QED BY <1>1, <1>2

LEMMA StepQueues ==
    ASSUME SafetyInv, Next
    PROVE  TruthfulQueues(events', receipt')
<1>0. TypeOK /\ TruthfulQueues(events, receipt) /\ VerdictsStay
  BY StepVerdicts DEF SafetyInv, KnownVerdicts, TruthfulQueues
<1>1. ASSUME NEW r \in Runtimes, events' = [events EXCEPT ![r] = Tail(@)], events[r] # <<>>
      PROVE  TruthfulQueues(events', receipt')
  <2> SUFFICES ASSUME NEW q \in Runtimes, NEW i \in 1..Len(events'[q])
               PROVE  Truthful(events'[q][i], receipt')
    BY DEF TruthfulQueues
  <2>0. events[q] \in Seq(Events)
    BY <1>0 DEF TypeOK
  <2>1. PICK j \in 1..Len(events[q]) : events'[q][i] = events[q][j]
    <3>1. CASE q = r
      <4>1. events'[q] = Tail(events[q])
        BY <1>0, <1>1, <3>1 DEF TypeOK
      <4> QED BY <4>1, <2>0, <1>1, <3>1
    <3>2. CASE q # r
      BY <1>0, <1>1, <3>2 DEF TypeOK
    <3> QED BY <3>1, <3>2
  <2>2. events[q][j] \in Events /\ Truthful(events[q][j], receipt)
    BY <2>0, <1>0 DEF TruthfulQueues
  <2> QED BY <1>0, <2>1, <2>2, TruthStays
<1>2. CASE UNCHANGED events
  <2> SUFFICES ASSUME NEW q \in Runtimes, NEW i \in 1..Len(events'[q])
               PROVE  Truthful(events'[q][i], receipt')
    BY DEF TruthfulQueues
  <2>1. events[q][i] \in Events /\ Truthful(events[q][i], receipt) /\ events'[q][i] = events[q][i]
    BY <1>0, <1>2 DEF TypeOK, TruthfulQueues
  <2> QED BY <1>0, <2>1, TruthStays
<1>e. <<>> \in Seq(Events) /\ 1..Len(<<>>) = {}
  OBVIOUS
<1>b. \A x, y \in Events : <<x, y>> \in Seq(Events) /\ <<x>> \in Seq(Events)
  OBVIOUS
<1>f. \A success \in BOOLEAN :
          Finished(success) \in Events /\ Truthful(Finished(success), receipt')
  BY DEF Finished, Events, Truthful
<1>u. \A s \in Submissions : \A state \in Receipts :
          /\ Updated(s, state) \in Events
          /\ state \notin Verdicts \/ state = receipt'[s] => Truthful(Updated(s, state), receipt')
  BY DEF Updated, Events, Truthful
<1>t. \A x, y \in Events :
          Truthful(x, receipt') /\ Truthful(y, receipt') =>
              /\ \A i \in 1..Len(<<x, y>>) : Truthful(<<x, y>>[i], receipt')
              /\ \A i \in 1..Len(<<x>>) : Truthful(<<x>>[i], receipt')
  OBVIOUS
<1>3. ASSUME NEW r \in Runtimes, NEW s \in Submissions, Worker(r, s)
      PROVE  TruthfulQueues(events', receipt')
  <2>1. CASE WorkerDeadServer(r, s)
    <3>1. CASE receipt[s] = "Dispatching"
      <4>1. receipt'[s] = "NotSent" /\ "NotSent" \in Receipts
        BY <1>0, <2>1, <3>1 DEF WorkerDeadServer, TypeOK, Receipts, States
      <4>2. Updated(s, "NotSent") \in Events /\ Truthful(Updated(s, "NotSent"), receipt')
        BY <4>1, <1>u
      <4>3. Send(r, <<Updated(s, "NotSent"), Finished(FALSE)>>)
        BY <2>1, <3>1 DEF WorkerDeadServer
      <4> QED BY <4>2, <4>3, <1>0, <1>b, <1>f, <1>t, SendTruthful
    <3>2. CASE receipt[s] # "Dispatching"
      <4>1. Send(r, <<Finished(FALSE)>>)
        BY <2>1, <3>2 DEF WorkerDeadServer
      <4> QED BY <4>1, <1>0, <1>b, <1>f, <1>t, SendTruthful
    <3> QED BY <3>1, <3>2
  <2>2. CASE WorkerClaim(r, s)
    <3>1. CASE receipt[s] = "Dispatching"
      <4>1. "Dispatching" \in Receipts /\ "Dispatching" \notin Verdicts
        BY DEF Receipts, States, Verdicts, Failures
      <4>2. Updated(s, "Dispatching") \in Events
                /\ Truthful(Updated(s, "Dispatching"), receipt')
        BY <4>1, <1>u
      <4>3. Send(r, <<Updated(s, "Dispatching")>>)
        BY <2>2, <3>1 DEF WorkerClaim
      <4> QED BY <4>2, <4>3, <1>0, <1>b, <1>t, SendTruthful
    <3>2. CASE receipt[s] # "Dispatching"
      BY <2>2, <3>2, <1>2 DEF WorkerClaim
    <3> QED BY <3>1, <3>2
  <2>3. CASE WorkerRecord(s) /\ via[s] = r
    <3> DEFINE told  == IF receipt[s] = "Dispatching" THEN <<Updated(s, outcome[s])>> ELSE <<>>
               ended == IF outcome[s] \in Failures /\ fence[r] # None
                        THEN <<Finished(FALSE)>> ELSE <<>>
    <3>1. Send(r, told \o ended)
      BY <2>3 DEF WorkerRecord
    <3>2. receipt[s] = "Dispatching" => receipt'[s] = outcome[s]
      BY <1>0, <2>3 DEF WorkerRecord, TypeOK
    <3>3. /\ Updated(s, outcome[s]) \in Events
          /\ receipt[s] = "Dispatching" => Truthful(Updated(s, outcome[s]), receipt')
      BY <3>2, <1>0, <1>u DEF TypeOK
    <3>4. told \in Seq(Events) /\ \A i \in 1..Len(told) : Truthful(told[i], receipt')
      BY <1>e, <3>3, <1>b, <1>t
    <3>5. ended \in Seq(Events) /\ \A i \in 1..Len(ended) : Truthful(ended[i], receipt')
      <4>1. CASE ended = <<>>
        BY <4>1, <1>e
      <4>2. CASE ended = <<Finished(FALSE)>>
        BY <4>2, <1>f, <1>b, <1>t
      <4> QED BY <4>1, <4>2
    <3> HIDE DEF told, ended
    <3>6. /\ told \o ended \in Seq(Events)
          /\ \A i \in 1..Len(told \o ended) : Truthful((told \o ended)[i], receipt')
      <4>1. ASSUME NEW i \in 1..Len(told \o ended)
            PROVE  Truthful((told \o ended)[i], receipt')
        <5>1. CASE i \in 1..Len(told)
          <6>1. (told \o ended)[i] = told[i]
            BY <3>4, <3>5, <5>1
          <6> QED BY <6>1, <5>1, <3>4
        <5>2. CASE i \notin 1..Len(told)
          <6>1. (told \o ended)[i] = ended[i - Len(told)] /\ i - Len(told) \in 1..Len(ended)
            BY <3>4, <3>5, <5>2
          <6> QED BY <6>1, <3>5
        <5> QED BY <5>1, <5>2
      <4> QED BY <4>1, <3>4, <3>5
    <3> QED BY <3>1, <3>6, <1>0, SendTruthful
  <2>4. CASE WorkerCannotSend(s) \/ WorkerPost(s)
               \/ \E state \in {"Accepted", "Rejected", "Unknown"} : WorkerAnswered(s, state)
    BY <2>4, <1>2 DEF WorkerCannotSend, WorkerPost, WorkerAnswered
  <2> QED BY <1>3, <2>1, <2>2, <2>3, <2>4 DEF Worker
<1>4. ASSUME NEW r \in Runtimes, NEW success \in BOOLEAN, TurnEnds(r, success)
      PROVE  TruthfulQueues(events', receipt')
  <2> DEFINE s == fence[r]
  <2>0. s \in Submissions
    BY <1>0, <1>4 DEF TurnEnds, TypeOK
  <2>1. CASE receipt[s] \in Unconfirmed
    <3>1. receipt'[s] = "Accepted" /\ "Accepted" \in Receipts
      BY <1>0, <1>4, <2>0, <2>1 DEF TurnEnds, TypeOK, Receipts, States
    <3>2. Updated(s, "Accepted") \in Events /\ Truthful(Updated(s, "Accepted"), receipt')
      BY <2>0, <3>1, <1>u
    <3>3. Send(r, <<Updated(s, "Accepted"), Finished(success)>>)
      BY <1>4, <2>1 DEF TurnEnds
    <3> QED BY <3>2, <3>3, <1>0, <1>b, <1>f, <1>t, SendTruthful
  <2>2. CASE receipt[s] \notin Unconfirmed
    <3>1. Send(r, <<Finished(success)>>)
      BY <1>4, <2>2 DEF TurnEnds
    <3> QED BY <3>1, <1>0, <1>b, <1>f, <1>t, SendTruthful
  <2> QED BY <2>1, <2>2
<1>5. ASSUME NEW r \in Runtimes, ApplyEvent(r)
      PROVE  TruthfulQueues(events', receipt')
  BY <1>5, <1>1 DEF ApplyEvent
<1>6. CASE Crash
  BY <1>6 DEF Crash, TruthfulQueues
<1>7. CASE Read \/ \E s \in Submissions : Accept(s) \/ \E r \in Runtimes : Dispatch(s, r)
  BY <1>2, <1>7 DEF Read, Accept, Dispatch, BeginRequest
<1>8. CASE Hydration \/ RequestBody
  BY <1>2, <1>8 DEF Hydration, HydrateUpdate, AdmitHydrate, AdmitHydrated, RequestBody,
     AcceptSave, AcceptReturn, DispatchClaim, DispatchReturn, DispatchSubmit,
     DispatchSubmitFails, ReadDone
<1>9. CASE \E s \in Submissions :
               \/ Abandon(s) \/ Disconnect(s) \/ ReaderConfirm(s)
               \/ ProviderStores(s) \/ ProviderDrops(s) \/ ProviderFinishes(s)
  BY <1>2, <1>9 DEF Abandon, Disconnect, ReaderConfirm, ProviderStores, ProviderDrops,
                    ProviderFinishes
<1>10. CASE \E r \in Runtimes :
               StartBegin(r) \/ Started(r) \/ StartFails(r) \/ Detach(r) \/ ServerDies(r)
  BY <1>2, <1>10 DEF StartBegin, Started, StartFails, Detach, ServerDies
<1>11. CASE ReaderCold \/ ReaderFetch \/ ReaderMerge \/ ReaderGivesUp
  BY <1>2, <1>11 DEF ReaderCold, ReaderFetch, ReaderMerge, ReaderGivesUp
<1> QED BY <1>3, <1>4, <1>5, <1>6, <1>7, <1>8, <1>9, <1>10, <1>11 DEF Next

LEMMA StepKnownVerdicts ==
    ASSUME SafetyInv, Next
    PROVE  KnownVerdicts'
<1>0. TypeOK /\ KnownVerdicts /\ VerdictsStay
  BY StepVerdicts DEF SafetyInv
<1>h. ASSUME NEW s \in Submissions, Hydrated, HydratedReceipts[s] \in Verdicts
      PROVE  HydratedReceipts[s] = receipt[s]
  BY <1>0, <1>h DEF HydratedReceipts, Hydrated, KnownVerdicts
<1>1. ASSUME NEW s \in Submissions, projected'[s] \in Verdicts
      PROVE  projected'[s] = receipt'[s]
  <2>1. CASE \E r \in Runtimes : FromEvent(s, r)
    <3>1. PICK r \in Runtimes : FromEvent(s, r)
      BY <2>1
    <3>2. Head(events[r]) = events[r][1] /\ 1 \in 1..Len(events[r])
      BY <1>0, <3>1 DEF FromEvent, TypeOK
    <3>3. Truthful(Head(events[r]), receipt)
      BY <1>0, <3>2 DEF KnownVerdicts
    <3> QED BY <1>0, <1>1, <3>1, <3>3 DEF FromEvent, Truthful, VerdictsStay
  <2>2. CASE ~ \E r \in Runtimes : FromEvent(s, r)
    BY <1>0, <1>1, <1>h, <2>2, StepProjected DEF KnownVerdicts, VerdictsStay
  <2> QED BY <2>1, <2>2
<1>2. ASSUME NEW s \in Submissions, disk'.projected[s] \in Verdicts
      PROVE  disk'.projected[s] = receipt'[s]
  BY <1>0, <1>1, <1>2, <1>h, StepProjected DEF KnownVerdicts, VerdictsStay
<1>3. ASSUME NEW s \in Submissions, "locked" \in hydrating', seen'["locked"][s] \in Verdicts
      PROVE  seen'["locked"][s] = receipt'[s]
  BY <1>0, <1>3, StepSeen DEF KnownVerdicts, VerdictsStay
<1> QED BY <1>1, <1>2, <1>3, StepQueues DEF KnownVerdicts, TruthfulQueues

\* An input the provider stored stays stored.
LEMMA StepHistory ==
    ASSUME SafetyInv, Next
    PROVE  /\ reader'.history \subseteq {s \in Submissions : input'[s] \in Stored}
           /\ \A s \in Submissions : input[s] \in Stored => input'[s] \in Stored
<1>0. TypeOK /\ reader.history \subseteq {s \in Submissions : input[s] \in Stored}
  BY DEF SafetyInv
<1>1. ASSUME NEW s \in Submissions, input[s] \in Stored
      PROVE  input'[s] \in Stored
  <2>0. Consistent(s)
    BY DEF SafetyInv
  <2>1. CASE UNCHANGED input
    BY <1>1, <2>1
  <2>2. ASSUME NEW t \in Submissions, ProviderStores(t) \/ ProviderDrops(t) \/ ProviderFinishes(t)
        PROVE  input'[s] \in Stored
    BY <1>0, <1>1, <2>2 DEF ProviderStores, ProviderDrops, ProviderFinishes, TypeOK, Stored
  <2>3. ASSUME NEW t \in Submissions, WorkerPost(t) PROVE input'[s] \in Stored
    BY <1>0, <1>1, <2>0, <2>3 DEF WorkerPost, TypeOK, Stored, Consistent
  <2>4. ASSUME NEW t \in Submissions, NEW r \in Runtimes, Worker(r, t)
        PROVE  input'[s] \in Stored
    BY <2>1, <2>3, <2>4 DEF Worker, WorkerDeadServer, WorkerClaim, WorkerCannotSend,
       WorkerRecord, WorkerAnswered
  <2>5. CASE Quiet
    BY <2>1, <2>5 DEF Quiet
  <2>6. CASE AcceptSave \/ DispatchClaim \/ DispatchSubmit \/ DispatchSubmitFails \/ Crash
    BY <2>1, <2>6 DEF AcceptSave, DispatchClaim, DispatchSubmit, DispatchSubmitFails, Crash
  <2>7. CASE \/ \E h \in Hydrators : HydrateUpdate(h)
             \/ \E t \in Submissions : Abandon(t) \/ ReaderConfirm(t)
             \/ \E r \in Runtimes : \E success \in BOOLEAN : TurnEnds(r, success)
    BY <2>1, <2>7 DEF HydrateUpdate, Abandon, ReaderConfirm, TurnEnds
  <2> QED BY QuietSteps, <2>2, <2>4, <2>5, <2>6, <2>7
<1>2. reader'.history \subseteq reader.history
          \/ reader'.history \subseteq {s \in Submissions : input'[s] \in Stored}
  <2>1. CASE UNCHANGED reader
    BY <2>1
  <2>2. CASE ReadDone
    BY <2>2 DEF ReadDone
  <2>3. CASE ReaderFetch
    <3>1. reader'.history = {s \in InSession : input[s] \in Stored} /\ input' = input
      BY <2>3 DEF ReaderFetch
    <3>2. InSession \subseteq Submissions
      BY <1>0 DEF InSession, TypeOK
    <3> QED BY <3>1, <3>2
  <2>4. ASSUME NEW s \in Submissions, ReaderConfirm(s)
        PROVE  reader'.history = reader.history
    BY <2>4 DEF ReaderConfirm
  <2>5. CASE ReaderCold \/ ReaderMerge \/ ReaderGivesUp \/ Crash
    <3>1. CASE ReaderCold
      BY <3>1 DEF ReaderCold
    <3>2. CASE ReaderMerge
      BY <3>2 DEF ReaderMerge, NoReader
    <3>3. CASE ReaderGivesUp \/ Crash
      BY <3>3 DEF ReaderGivesUp, Crash, NoReader
    <3> QED BY <2>5, <3>1, <3>2, <3>3
  <2>6. ASSUME NEW r \in Runtimes, NEW s \in Submissions, Worker(r, s)
        PROVE  UNCHANGED reader
    BY <2>6 DEF Worker, WorkerDeadServer, WorkerClaim, WorkerCannotSend, WorkerPost,
                WorkerRecord, WorkerAnswered
  <2>7. CASE Read \/ Hydration \/ AcceptSave \/ AcceptReturn \/ DispatchClaim
                 \/ DispatchReturn \/ DispatchSubmit \/ DispatchSubmitFails
    BY <2>1, <2>7 DEF Read, BeginRequest, Hydration, HydrateUpdate, AdmitHydrate,
       AdmitHydrated, AcceptSave, AcceptReturn, DispatchClaim, DispatchReturn,
       DispatchSubmit, DispatchSubmitFails
  <2>8. CASE \E s \in Submissions :
                 \/ Accept(s) \/ Abandon(s) \/ Disconnect(s)
                 \/ ProviderStores(s) \/ ProviderDrops(s) \/ ProviderFinishes(s)
                 \/ \E r \in Runtimes : Dispatch(s, r)
    BY <2>1, <2>8 DEF Accept, Dispatch, BeginRequest, Abandon, Disconnect, ProviderStores,
       ProviderDrops, ProviderFinishes
  <2>9. CASE \E r \in Runtimes :
                 \/ StartBegin(r) \/ Started(r) \/ StartFails(r) \/ Detach(r)
                 \/ ServerDies(r) \/ ApplyEvent(r)
                 \/ \E success \in BOOLEAN : TurnEnds(r, success)
    BY <2>1, <2>9 DEF StartBegin, Started, StartFails, Detach, ServerDies, ApplyEvent, TurnEnds
  <2> QED BY <2>2, <2>3, <2>4, <2>5, <2>6, <2>7, <2>8, <2>9 DEF Next, RequestBody
<1> QED BY <1>0, <1>1, <1>2

-------------------------------------------------------------------------------
(***************************************************************************)
(* How turns end.                                                          *)
(***************************************************************************)
Links == <<server, attached, via>>

\* Only these actions change which driver is attached or has a Prompt.
LEMMA LinkSteps ==
    ASSUME Next
    PROVE  \/ UNCHANGED Links
           \/ DispatchClaim \/ DispatchReturn \/ DispatchSubmitFails \/ Crash
           \/ \E r \in Runtimes :
                 \/ StartBegin(r) \/ Started(r) \/ StartFails(r) \/ Detach(r) \/ ServerDies(r)
                 \/ \E s \in Submissions : Worker(r, s)
<1>1. CASE Read \/ \E s \in Submissions : Accept(s) \/ \E r \in Runtimes : Dispatch(s, r)
  BY <1>1 DEF Read, Accept, Dispatch, BeginRequest, Links
<1>2. CASE Hydration
  BY <1>2 DEF Hydration, HydrateUpdate, AdmitHydrate, AdmitHydrated, Links
<1>3. CASE AcceptSave \/ AcceptReturn \/ DispatchSubmit \/ ReadDone
  BY <1>3 DEF AcceptSave, AcceptReturn, DispatchSubmit, ReadDone, Links
<1>4. CASE \E s \in Submissions :
               \/ Abandon(s) \/ Disconnect(s) \/ ReaderConfirm(s)
               \/ ProviderStores(s) \/ ProviderDrops(s) \/ ProviderFinishes(s)
  BY <1>4 DEF Abandon, Disconnect, ReaderConfirm, ProviderStores, ProviderDrops,
              ProviderFinishes, Links
<1>5. CASE \E r \in Runtimes : ApplyEvent(r) \/ \E success \in BOOLEAN : TurnEnds(r, success)
  BY <1>5 DEF ApplyEvent, TurnEnds, Links
<1>6. CASE ReaderCold \/ ReaderFetch \/ ReaderMerge \/ ReaderGivesUp
  BY <1>6 DEF ReaderCold, ReaderFetch, ReaderMerge, ReaderGivesUp, Links
<1> QED BY <1>1, <1>2, <1>3, <1>4, <1>5, <1>6 DEF Next, RequestBody

\* A Prompt goes to a driver with its claim, and from it for good.
LEMMA StepVia ==
    ASSUME SafetyInv, Next, NEW s \in Submissions
    PROVE  \/ via'[s] = via[s] \/ via'[s] = None
           \/ /\ DispatchClaim /\ receipt[s] = "Preparing" /\ via'[s] \in Runtimes
              /\ server[via'[s]] = "live" /\ server' = server /\ attached' = attached
<1>0. TypeOK
  BY DEF SafetyInv
<1>1. CASE UNCHANGED Links
  BY <1>1 DEF Links
<1>2. CASE DispatchClaim
  <2>1. request.id \in Submissions /\ request.rt \in Runtimes
    BY <1>0, <1>2 DEF DispatchClaim, TypeOK, LockHolders
  <2>2. /\ via' = [via EXCEPT ![request.id] = request.rt] /\ receipt[request.id] = "Preparing"
        /\ server[request.rt] = "live" /\ server' = server /\ attached' = attached
    BY <1>2 DEF DispatchClaim, Dispatchable
  <2> QED BY <1>0, <1>2, <2>1, <2>2 DEF TypeOK
<1>3. CASE DispatchReturn \/ DispatchSubmitFails \/ Crash
  BY <1>0, <1>3 DEF DispatchReturn, DispatchSubmitFails, Crash, TypeOK
<1>4. ASSUME NEW r \in Runtimes,
             StartBegin(r) \/ Started(r) \/ StartFails(r) \/ Detach(r) \/ ServerDies(r)
      PROVE  via' = via
  BY <1>4 DEF StartBegin, Started, StartFails, Detach, ServerDies
<1>5. ASSUME NEW r \in Runtimes, NEW t \in Submissions, Worker(r, t)
      PROVE  via'[s] = via[s] \/ via'[s] = None
  BY <1>0, <1>5 DEF Worker, WorkerDeadServer, WorkerClaim, WorkerCannotSend, WorkerPost,
                    WorkerRecord, WorkerAnswered, TypeOK
<1> QED BY LinkSteps, <1>1, <1>2, <1>3, <1>4, <1>5

\* Drivers are started once, attached once, and only then given a Prompt.
LEMMA StepGone ==
    ASSUME SafetyInv, Next, NEW r \in Runtimes
    PROVE  /\ Gone(r) => Gone(r)'
           /\ server'[r] \in {"unstarted", "starting"} =>
                 /\ server[r] \in {"unstarted", "starting"}
                 /\ attached' # r
<1>0. TypeOK /\ (server[r] \in {"unstarted", "starting"} => attached # r)
  BY DEF SafetyInv, Ends
<1>1. CASE UNCHANGED Links
  BY <1>0, <1>1 DEF Links, Gone
<1>2. CASE DispatchClaim \/ DispatchSubmitFails
  BY <1>0, <1>2 DEF DispatchClaim, DispatchSubmitFails, Gone
<1>3. CASE DispatchReturn
  BY <1>0, <1>3, NoneAssumption DEF DispatchReturn, Gone
<1>4. CASE Crash
  BY <1>0, <1>4, NoneAssumption DEF Crash, Gone, TypeOK
<1>5. ASSUME NEW q \in Runtimes,
             StartBegin(q) \/ Started(q) \/ StartFails(q) \/ Detach(q) \/ ServerDies(q)
      PROVE  /\ Gone(r) => Gone(r)'
             /\ server'[r] \in {"unstarted", "starting"} =>
                   /\ server[r] \in {"unstarted", "starting"}
                   /\ attached' # r
  BY <1>0, <1>5, NoneAssumption
     DEF StartBegin, Started, StartFails, Detach, ServerDies, Gone, TypeOK
<1>6. ASSUME NEW q \in Runtimes, NEW s \in Submissions, Worker(q, s)
      PROVE  UNCHANGED <<server, attached>>
  BY <1>6 DEF Worker, WorkerDeadServer, WorkerClaim, WorkerCannotSend, WorkerPost,
              WorkerRecord, WorkerAnswered
<1> QED BY LinkSteps, <1>0, <1>1, <1>2, <1>3, <1>4, <1>5, <1>6 DEF Gone

LEMMA StepLinks ==
    ASSUME SafetyInv, Next, NEW r \in Runtimes, server'[r] \in {"unstarted", "starting"}
    PROVE  attached' # r /\ \A s \in Submissions : via'[s] # r
<1>1. server[r] \in {"unstarted", "starting"} /\ attached' # r
  BY StepGone
<1>2. ASSUME NEW s \in Submissions PROVE via'[s] # r
  <2>1. via[s] # r
    BY <1>1 DEF SafetyInv, Ends
  <2> QED BY <1>1, <2>1, StepVia, NoneAssumption
<1> QED BY <1>1, <1>2

LEMMA StepAdrift ==
    ASSUME SafetyInv, Next, NEW s \in Submissions,
           receipt[s] \notin {"Absent", "Preparing"}, Adrift(s)
    PROVE  Adrift(s)'
<1>1. via'[s] = via[s] \/ via'[s] = None
  BY StepVia
<1>2. via[s] \in Runtimes \cup {None}
  BY DEF SafetyInv, TypeOK
<1> QED BY <1>1, <1>2, StepGone DEF Adrift, Gone

\* The claims that a hydration takes for interrupted are nobody's any more.
LEMMA ReadAdrift ==
    ASSUME SafetyInv, NEW h \in Hydrators, HydrateRead(h), UNCHANGED Links, receipt' = receipt,
           NEW g \in Hydrators, NEW swap \in pending'[g], swap.from = "Dispatching"
    PROVE  \/ swap \in pending[g]
           \/ /\ swap.id \in Submissions /\ receipt[swap.id] = "Dispatching" /\ Adrift(swap.id)
<1>1. CASE g # h
  BY <1>1 DEF HydrateRead, SafetyInv, TypeOK
<1>2. CASE g = h
  <2>1. PICK s \in Submissions :
            /\ Repairable(s)
            /\ swap = [id |-> s, from |-> receipt[s], native |-> native[s]]
    BY <1>2 DEF HydrateRead, SafetyInv, TypeOK
  <2>2. swap.id = s /\ receipt[s] = "Dispatching" /\ attached = None
    BY <2>1 DEF Repairable
  <2>3. CASE via[s] \in Runtimes
    <3>1. server[via[s]] \notin {"unstarted", "starting"}
      BY <2>3 DEF SafetyInv, Ends
    <3> QED BY <2>2, <2>3, <3>1, NoneAssumption DEF Adrift, Gone
  <2>4. CASE via[s] = None
    BY <2>2, <2>4 DEF Adrift
  <2> QED BY <2>2, <2>3, <2>4 DEF SafetyInv, TypeOK
<1> QED BY <1>1, <1>2

\* Only these actions decide on an update.
LEMMA StepPending ==
    ASSUME SafetyInv, Next, NEW g \in Hydrators, NEW swap \in pending'[g]
    PROVE  \/ swap \in pending[g]
           \/ \E h \in Hydrators : HydrateRead(h) /\ UNCHANGED Links /\ receipt' = receipt
<1>0. TypeOK
  BY DEF SafetyInv
<1>1. CASE Read \/ AdmitHydrate \/ \E s \in Submissions : Accept(s) \/ \E r \in Runtimes : Dispatch(s, r)
  BY <1>1 DEF Read, Accept, Dispatch, BeginRequest, AdmitHydrate, Links, Hydrators
<1>2. CASE AdmitHydrated
  BY <1>2 DEF AdmitHydrated
<1>9. ASSUME NEW h \in Hydrators, HydrateUpdate(h) PROVE swap \in pending[g]
  <2>1. PICK u : pending' = [pending EXCEPT ![h] = @ \ {u}]
    BY <1>9 DEF HydrateUpdate
  <2> QED BY <1>0, <2>1 DEF TypeOK
<1>3. CASE RequestBody
  BY <1>3 DEF RequestBody, AcceptSave, AcceptReturn, DispatchClaim, DispatchReturn, DispatchSubmit,
              DispatchSubmitFails, ReadDone, EndLockedHydration
<1>4. CASE \E s \in Submissions :
               \/ Abandon(s) \/ Disconnect(s) \/ ReaderConfirm(s)
               \/ ProviderStores(s) \/ ProviderDrops(s) \/ ProviderFinishes(s)
  BY <1>4 DEF Abandon, Disconnect, ReaderConfirm, ProviderStores, ProviderDrops, ProviderFinishes
<1>5. CASE \E r \in Runtimes :
               \/ StartBegin(r) \/ Started(r) \/ StartFails(r) \/ Detach(r) \/ ServerDies(r)
               \/ ApplyEvent(r) \/ \E success \in BOOLEAN : TurnEnds(r, success)
  BY <1>5 DEF StartBegin, Started, StartFails, Detach, ServerDies, ApplyEvent, TurnEnds
<1>6. CASE \E s \in Submissions, r \in Runtimes : Worker(r, s)
  BY <1>6 DEF Worker, WorkerDeadServer, WorkerClaim, WorkerCannotSend, WorkerPost, WorkerRecord,
              WorkerAnswered
<1>7. CASE ReaderCold \/ ReaderFetch \/ ReaderMerge \/ ReaderGivesUp
  BY <1>7 DEF ReaderCold, ReaderFetch, ReaderMerge, ReaderGivesUp
<1>8. CASE Crash
  BY <1>8 DEF Crash
<1> QED BY <1>1, <1>2, <1>3, <1>4, <1>5, <1>6, <1>7, <1>8, <1>9 DEF Next, Hydration

\* No claim is in doubt, or about to be, that an attached driver could end.
LEMMA StepDoubt ==
    ASSUME SafetyInv, Next
    PROVE  /\ \A g \in Hydrators : \A swap \in pending'[g] :
                 swap.from = "Dispatching" =>
                     receipt'[swap.id] \notin {"Absent", "Preparing"} /\ Adrift(swap.id)'
           /\ \A s \in Submissions : receipt'[s] = "Unknown" => Adrift(s)'
<1>0. TypeOK /\ Ends
  BY DEF SafetyInv
<1>1. ASSUME NEW s \in Submissions, receipt[s] \notin {"Absent", "Preparing"}
      PROVE  receipt'[s] \notin {"Absent", "Preparing"}
  BY <1>1, StepConsistent DEF Advances
<1>2. ASSUME NEW g \in Hydrators, NEW swap \in pending'[g], swap.from = "Dispatching"
      PROVE  receipt'[swap.id] \notin {"Absent", "Preparing"} /\ Adrift(swap.id)'
  <2>1. CASE swap \in pending[g]
    <3>1. /\ swap.id \in Submissions
          /\ receipt[swap.id] \notin {"Absent", "Preparing"} /\ Adrift(swap.id)
      BY <1>0, <1>2, <2>1 DEF Ends, TypeOK, Swaps
    <3> QED BY <1>1, <3>1, StepAdrift
  <2>2. CASE swap \notin pending[g]
    <3>1. PICK h \in Hydrators : HydrateRead(h) /\ UNCHANGED Links /\ receipt' = receipt
      BY <2>2, StepPending
    <3>2. swap.id \in Submissions /\ receipt[swap.id] = "Dispatching" /\ Adrift(swap.id)
      BY <1>2, <2>2, <3>1, ReadAdrift
    <3> QED BY <1>1, <3>2, StepAdrift
  <2> QED BY <2>1, <2>2
<1>3. ASSUME NEW s \in Submissions, receipt'[s] = "Unknown", receipt[s] = "Unknown"
      PROVE  Adrift(s)'
  BY <1>0, <1>3, StepAdrift DEF Ends
<1>4. ASSUME NEW s \in Submissions, receipt'[s] = "Unknown", receipt[s] # "Unknown"
      PROVE  Adrift(s)'
  <2>1. CASE Quiet \/ AcceptSave \/ DispatchClaim \/ DispatchSubmit \/ DispatchSubmitFails \/ Crash
    BY <1>0, <1>4, <2>1 DEF Quiet, AcceptSave, DispatchClaim, DispatchSubmit,
       DispatchSubmitFails, Crash, TypeOK
  <2>2. ASSUME NEW h \in Hydrators, HydrateUpdate(h) PROVE Adrift(s)'
    <3>1. PICK swap \in pending[h] :
              receipt' = [receipt EXCEPT ![swap.id] =
                  IF receipt[swap.id] = swap.from THEN Repaired(swap.from) ELSE receipt[swap.id]]
      BY <2>2 DEF HydrateUpdate
    <3>2. swap.id \in Submissions /\ swap.from \in {"Preparing", "Dispatching"}
      BY <1>0, <3>1 DEF TypeOK, Swaps
    <3>3. swap.id = s /\ receipt'[s] =
              IF receipt[s] = swap.from THEN Repaired(swap.from) ELSE receipt[s]
      BY <1>0, <1>4, <3>1, <3>2 DEF TypeOK
    <3>4. swap.from = "Dispatching" /\ receipt[s] = "Dispatching"
      BY <1>4, <3>2, <3>3 DEF Repaired
    <3>5. Adrift(s)
      BY <1>0, <3>1, <3>3, <3>4 DEF Ends
    <3> QED BY <3>4, <3>5, StepAdrift
  <2>3. ASSUME NEW t \in Submissions,
               Abandon(t) \/ ReaderConfirm(t) \/ ProviderStores(t) \/ ProviderDrops(t)
                   \/ ProviderFinishes(t)
        PROVE  FALSE
    BY <1>0, <1>4, <2>3 DEF Abandon, ReaderConfirm, ProviderStores, ProviderDrops,
       ProviderFinishes, TypeOK
  <2>4. ASSUME NEW t \in Submissions, NEW r \in Runtimes, Worker(r, t) PROVE Adrift(s)'
    <3>1. CASE WorkerRecord(t)
      <4>1. t = s /\ via'[s] = None
        BY <1>0, <1>4, <3>1 DEF WorkerRecord, TypeOK
      <4> QED BY <4>1 DEF Adrift
    <3>2. CASE ~WorkerRecord(t)
      BY <1>0, <1>4, <2>4, <3>2 DEF Worker, WorkerDeadServer, WorkerClaim, WorkerCannotSend,
         WorkerPost, WorkerAnswered, TypeOK
    <3> QED BY <3>1, <3>2
  <2>5. ASSUME NEW r \in Runtimes, NEW success \in BOOLEAN, TurnEnds(r, success) PROVE FALSE
    BY <1>0, <1>4, <2>5 DEF TurnEnds, TypeOK
  <2> QED BY QuietSteps, <2>1, <2>2, <2>3, <2>4, <2>5
<1> QED BY <1>2, <1>3, <1>4

\* What is over stays over.
LEMMA StepOver ==
    ASSUME SafetyInv, Next, NEW s \in Submissions, Over(s)
    PROVE  Over(s)'
<1>0. TypeOK /\ LockInv /\ \A t \in Submissions : Consistent(t)
  BY DEF SafetyInv
<1>1. CASE receipt[s] \in Failures
  BY <1>1, StepVerdicts DEF VerdictsStay, Verdicts, Over
<1>2. CASE input[s] = "finished"
  <2>1. input'[s] = "finished"
    <3>1. CASE Quiet
      BY <1>2, <3>1 DEF Quiet
    <3>2. CASE \/ AcceptSave \/ DispatchClaim \/ DispatchSubmit \/ DispatchSubmitFails \/ Crash
               \/ \E h \in Hydrators : HydrateUpdate(h)
      BY <1>2, <3>2 DEF AcceptSave, DispatchClaim, DispatchSubmit, DispatchSubmitFails, Crash,
         HydrateUpdate
    <3>3. ASSUME NEW t \in Submissions,
                 Abandon(t) \/ ReaderConfirm(t) \/ ProviderStores(t) \/ ProviderDrops(t)
                     \/ ProviderFinishes(t)
          PROVE  input'[s] = "finished"
      BY <1>0, <1>2, <3>3 DEF Abandon, ReaderConfirm, ProviderStores, ProviderDrops,
         ProviderFinishes, TypeOK
    <3>4. ASSUME NEW t \in Submissions, NEW r \in Runtimes, Worker(r, t)
          PROVE  input'[s] = "finished"
      <4>1. place[t] = "claimed" => input[t] = "none"
        BY <1>0 DEF Consistent
      <4> QED BY <1>0, <1>2, <3>4, <4>1 DEF Worker, WorkerDeadServer, WorkerClaim,
              WorkerCannotSend, WorkerPost, WorkerRecord, WorkerAnswered, TypeOK
    <3>5. ASSUME NEW r \in Runtimes, NEW success \in BOOLEAN, TurnEnds(r, success)
          PROVE  input'[s] = "finished"
      BY <1>2, <3>5 DEF TurnEnds
    <3> QED BY QuietSteps, <3>1, <3>2, <3>3, <3>4, <3>5
  <2> QED BY <2>1 DEF Over
<1> QED BY <1>1, <1>2 DEF Over

LEMMA NoNewEnd ==
    ASSUME NEW a \in Seq(Events), NEW b \in Seq(Events), NEW i \in 1..Len(a \o b),
           \A j \in 1..Len(b) : b[j].kind = "updated", (a \o b)[i].kind = "finished"
    PROVE  \E j \in 1..Len(a) : a[j].kind = "finished"
<1>1. CASE i \in 1..Len(a)
  BY <1>1
<1>2. CASE i \notin 1..Len(a)
  <2>1. i - Len(a) \in 1..Len(b) /\ (a \o b)[i] = b[i - Len(a)]
    BY <1>2
  <2> QED BY <2>1
<1> QED BY <1>1, <1>2

\* A worker tells of an end only when its Prompt can never run, or when the
\* driver is gone and nobody applies what it tells.
LEMMA WorkerEnds ==
    ASSUME SafetyInv, Next, NEW r \in Runtimes, NEW s \in Submissions, Worker(r, s),
           NEW q \in Runtimes, NEW i \in 1..Len(events'[q]), events'[q][i].kind = "finished"
    PROVE  \/ \E j \in 1..Len(events[q]) : events[q][j].kind = "finished"
           \/ Gone(q)' \/ Over(s)'
<1>0. TypeOK /\ Ends /\ Consistent(s)
  BY DEF SafetyInv
<1>1. events[q] \in Seq(Events)
  BY <1>0 DEF TypeOK
<1>2. CASE events'[q] = events[q]
  BY <1>2
<1>3. ASSUME NEW b \in Seq(Events), \A j \in 1..Len(b) : b[j].kind = "updated",
             events'[q] = events[q] \o b
      PROVE  \E j \in 1..Len(events[q]) : events[q][j].kind = "finished"
  BY <1>1, <1>3, NoNewEnd
<1>4. ASSUME NEW state \in Receipts
      PROVE  /\ <<Updated(s, state)>> \in Seq(Events)
             /\ \A j \in 1..Len(<<Updated(s, state)>>) : <<Updated(s, state)>>[j].kind = "updated"
  BY DEF Updated, Events
<1>5. CASE q # r
  BY <1>0, <1>2, <1>5 DEF Worker, WorkerDeadServer, WorkerClaim, WorkerCannotSend, WorkerPost,
     WorkerRecord, WorkerAnswered, Send, TypeOK
<1>6. receipt[s] = "Unknown" /\ via[s] = r => Gone(r)'
  BY <1>0, StepGone, NoneAssumption DEF Ends, Adrift
<1>7. CASE q = r /\ WorkerDeadServer(r, s)
  <2>1. via[s] = r /\ receipt[s] \in Unconfirmed
    BY <1>0, <1>7 DEF WorkerDeadServer, Consistent
  <2>2. CASE receipt[s] = "Dispatching"
    BY <1>0, <1>7, <2>2 DEF WorkerDeadServer, TypeOK, Over, Failures
  <2> QED BY <1>6, <1>7, <2>1, <2>2 DEF Unconfirmed
<1>8. CASE q = r /\ WorkerClaim(r, s)
  <2>1. CASE receipt[s] = "Dispatching"
    <3>1. events'[q] = events[q] \o <<Updated(s, "Dispatching")>> /\ "Dispatching" \in Receipts
      BY <1>0, <1>8, <2>1 DEF WorkerClaim, Send, TypeOK, Receipts, States
    <3> QED BY <1>3, <1>4, <3>1
  <2>2. CASE receipt[s] # "Dispatching"
    BY <1>2, <1>8, <2>2 DEF WorkerClaim
  <2> QED BY <2>1, <2>2
<1>9. CASE q = r /\ via[s] = r /\ WorkerRecord(s)
  <2>1. CASE outcome[s] \in Failures
    <3>1. \/ receipt[s] \in {"Dispatching", "Unknown"}
          \/ receipt[s] = "Accepted" /\ input[s] \in Stored
      BY <1>0, <1>9 DEF WorkerRecord, Consistent, Unconfirmed
    <3>2. input[s] \notin Stored
      BY <1>0, <1>9, <2>1 DEF WorkerRecord, Consistent, Failures, Stored
    <3>3. CASE receipt[s] = "Dispatching"
      BY <1>0, <1>9, <2>1, <3>3 DEF WorkerRecord, TypeOK, Over
    <3> QED BY <1>6, <1>9, <3>1, <3>2, <3>3
  <2>2. CASE outcome[s] \notin Failures
    <3> DEFINE b == IF receipt[s] = "Dispatching" THEN <<Updated(s, outcome[s])>> ELSE <<>>
    <3>1. b \in Seq(Events) /\ \A j \in 1..Len(b) : b[j].kind = "updated"
      BY <1>0, <1>4 DEF TypeOK
    <3>2. b \o <<>> = b
      BY <3>1
    <3>3. events'[q] = events[q] \o (b \o <<>>)
      BY <1>0, <1>9, <2>2 DEF WorkerRecord, Send, TypeOK
    <3> QED BY <1>3, <3>1, <3>2, <3>3
  <2> QED BY <2>1, <2>2
<1>10. CASE WorkerCannotSend(s) \/ WorkerPost(s)
               \/ \E state \in {"Accepted", "Rejected", "Unknown"} : WorkerAnswered(s, state)
  BY <1>2, <1>10 DEF WorkerCannotSend, WorkerPost, WorkerAnswered
<1> QED BY <1>5, <1>7, <1>8, <1>9, <1>10 DEF Worker

\* Whoever tells of an end: the driver is gone, or some input is over.
LEMMA StepEvents ==
    ASSUME SafetyInv, Next, NEW q \in Runtimes, NEW i \in 1..Len(events'[q]),
           events'[q][i].kind = "finished"
    PROVE  Gone(q)' \/ \E s \in Submissions : Over(s)'
<1>0. TypeOK /\ Ends
  BY DEF SafetyInv
<1>1. ASSUME NEW j \in 1..Len(events[q]), events[q][j].kind = "finished"
      PROVE  Gone(q)' \/ \E s \in Submissions : Over(s)'
  <2>1. Gone(q) \/ \E s \in Submissions : Over(s)
    BY <1>0, <1>1 DEF Ends
  <2> QED BY <2>1, StepGone, StepOver
<1>2. CASE UNCHANGED events
  BY <1>1, <1>2
<1>3. ASSUME NEW r \in Runtimes, NEW s \in Submissions, Worker(r, s)
      PROVE  Gone(q)' \/ \E t \in Submissions : Over(t)'
  BY <1>1, <1>3, WorkerEnds
<1>4. ASSUME NEW r \in Runtimes, NEW success \in BOOLEAN, TurnEnds(r, success)
      PROVE  \E s \in Submissions : Over(s)'
  <2>1. fence[r] \in Submissions /\ input'[fence[r]] = "finished"
    BY <1>0, <1>4 DEF TurnEnds, TypeOK
  <2> QED BY <2>1 DEF Over
<1>5. ASSUME NEW r \in Runtimes, ApplyEvent(r)
      PROVE  Gone(q)' \/ \E s \in Submissions : Over(s)'
  <2>1. events[r] \in Seq(Events) /\ events[r] # <<>> /\ events' = [events EXCEPT ![r] = Tail(events[r])]
    BY <1>0, <1>5 DEF ApplyEvent, TypeOK
  <2>2. events[q] \in Seq(Events)
    BY <1>0 DEF TypeOK
  <2>3. PICK j \in 1..Len(events[q]) : events'[q][i] = events[q][j]
    <3>1. CASE q = r
      <4>1. events'[q] = Tail(events[q])
        BY <1>0, <2>1, <3>1 DEF TypeOK
      <4> QED BY <4>1, <2>1, <2>2, <3>1
    <3>2. CASE q # r
      BY <1>0, <2>1, <3>2 DEF TypeOK
    <3> QED BY <3>1, <3>2
  <2> QED BY <1>1, <2>3
<1>6. CASE Crash
  BY <1>6 DEF Crash
<1>7. CASE Read \/ \E s \in Submissions : Accept(s) \/ \E r \in Runtimes : Dispatch(s, r)
  BY <1>2, <1>7 DEF Read, Accept, Dispatch, BeginRequest
<1>8. CASE Hydration \/ RequestBody
  BY <1>2, <1>8 DEF Hydration, HydrateUpdate, AdmitHydrate, AdmitHydrated, RequestBody,
     AcceptSave, AcceptReturn, DispatchClaim, DispatchReturn, DispatchSubmit,
     DispatchSubmitFails, ReadDone
<1>9. CASE \E s \in Submissions :
               \/ Abandon(s) \/ Disconnect(s) \/ ReaderConfirm(s)
               \/ ProviderStores(s) \/ ProviderDrops(s) \/ ProviderFinishes(s)
  BY <1>2, <1>9 DEF Abandon, Disconnect, ReaderConfirm, ProviderStores, ProviderDrops,
                    ProviderFinishes
<1>10. CASE \E r \in Runtimes :
               StartBegin(r) \/ Started(r) \/ StartFails(r) \/ Detach(r) \/ ServerDies(r)
  BY <1>2, <1>10 DEF StartBegin, Started, StartFails, Detach, ServerDies
<1>11. CASE ReaderCold \/ ReaderFetch \/ ReaderMerge \/ ReaderGivesUp
  BY <1>2, <1>11 DEF ReaderCold, ReaderFetch, ReaderMerge, ReaderGivesUp
<1> QED BY <1>3, <1>4, <1>5, <1>6, <1>7, <1>8, <1>9, <1>10, <1>11 DEF Next

\* A hydration closes the turns whose input is known never to run.
LEMMA HydratedCloses ==
    ASSUME SafetyInv, Hydrated, NEW s \in Submissions
    PROVE  \/ HydratedStatus[s] = status[s]
           \/ status[s] = "Running" /\ HydratedStatus[s] = "Interrupted" /\ receipt[s] \in Failures
<1>1. "locked" \in hydrating
  BY DEF Hydrated
<1>2. s \in InSession => HydratedReceipts[s] = seen["locked"][s]
  BY DEF HydratedReceipts
<1>3. seen["locked"][s] \in Failures => receipt[s] \in Failures
  BY <1>1 DEF SafetyInv, KnownVerdicts, Verdicts
<1> QED BY <1>2, <1>3 DEF HydratedStatus

\* How turns are closed: in memory first or with the disk, and, except by an
\* event, only those whose input is over.
LEMMA StepClosed ==
    ASSUME SafetyInv, Next, NEW s \in Submissions
    PROVE  /\ \/ disk'.status[s] = status'[s]
              \/ /\ disk'.status[s] = disk.status[s]
                 /\ status'[s] = status[s] \/ status'[s] # "Running"
           /\ status[s] = "Running" /\ status'[s] # "Running" =>
                  input[s] = "finished" \/ receipt'[s] \in Failures
                      \/ \E t \in Submissions : Over(t)
<1>0. TypeOK /\ Ends
  BY DEF SafetyInv
<1>1. CASE UNCHANGED <<status, disk>>
  BY <1>1
<1>2. ASSUME Hydrated, status' = HydratedStatus, disk' = disk \/ disk'.status = HydratedStatus
      PROVE  /\ \/ disk'.status[s] = status'[s]
                \/ /\ disk'.status[s] = disk.status[s]
                   /\ status'[s] = status[s] \/ status'[s] # "Running"
             /\ status[s] = "Running" /\ status'[s] # "Running" => receipt'[s] \in Failures
  BY <1>2, HydratedCloses, StepVerdicts DEF VerdictsStay, Verdicts
<1>3. CASE AcceptReturn \/ DispatchReturn \/ ReadDone
  BY <1>2, <1>3 DEF AcceptReturn, DispatchReturn, ReadDone, TakeHydrated
<1>4. CASE DispatchClaim
  BY <1>2, <1>4 DEF DispatchClaim
<1>5. CASE AcceptSave
  <2>1. /\ Hydrated /\ status' = [HydratedStatus EXCEPT ![request.id] = "Running"]
        /\ disk'.status = status'
    BY <1>5 DEF AcceptSave
  <2>2. status'[s] = "Running" \/ status'[s] = HydratedStatus[s]
    BY <2>1, <1>0, HydratedType
  <2> QED BY <2>1, <2>2, HydratedCloses, StepVerdicts DEF VerdictsStay, Verdicts
<1>6. CASE DispatchSubmitFails
  <2>1. CASE receipt[request.id] = "Dispatching"
    <3>1. /\ receipt' = [receipt EXCEPT ![request.id] = "NotSent"]
          /\ status' = status \/ status' = [status EXCEPT ![request.id] = "Failed"]
          /\ disk'.status = status'
      BY <1>6, <2>1 DEF DispatchSubmitFails
    <3> QED BY <1>0, <3>1 DEF TypeOK, Failures
  <2> QED BY <1>1, <1>6, <2>1 DEF DispatchSubmitFails
<1>7. ASSUME NEW t \in Submissions, Abandon(t)
      PROVE  /\ \/ disk'.status[s] = status'[s]
                \/ disk'.status[s] = disk.status[s] /\ status'[s] = status[s]
             /\ status[s] = "Running" /\ status'[s] # "Running" => receipt'[s] \in Failures
  <2>1. CASE receipt[t] = "Preparing"
    <3>1. /\ receipt' = [receipt EXCEPT ![t] = "NotSent"]
          /\ status' = status \/ status' = [status EXCEPT ![t] = "Failed"]
          /\ disk'.status = status'
      BY <1>7, <2>1 DEF Abandon
    <3>0. /\ receipt \in [Submissions -> Receipts] /\ status \in [Submissions -> TurnStatuses]
          /\ "NotSent" \in Failures
      BY <1>0 DEF TypeOK, Failures
    <3>2. CASE s = t
      BY <3>0, <3>1, <3>2
    <3>3. CASE s # t
      BY <3>0, <3>1, <3>3
    <3> QED BY <3>2, <3>3
  <2> QED BY <1>7, <2>1 DEF Abandon
<1>8. ASSUME NEW r \in Runtimes, ApplyEvent(r)
      PROVE  /\ \/ disk'.status[s] = status'[s]
                \/ disk'.status[s] = disk.status[s] /\ status'[s] = status[s]
             /\ status[s] = "Running" /\ status'[s] # "Running" => \E t \in Submissions : Over(t)
  <2>1. CASE UNCHANGED <<status, disk>>
    BY <2>1
  <2>2. CASE /\ Head(events[r]).kind = "finished" /\ attached = r
             /\ disk'.status = status'
    <3>1. 1 \in 1..Len(events[r]) /\ events[r][1].kind = "finished"
      BY <1>0, <1>8, <2>2 DEF ApplyEvent, TypeOK
    <3>2. ~Gone(r)
      BY <2>2 DEF Gone
    <3> QED BY <1>0, <2>2, <3>1, <3>2 DEF Ends
  <2>3. \/ UNCHANGED <<status, disk>>
        \/ /\ Head(events[r]).kind = "finished" /\ attached = r
           /\ disk' = [projected |-> projected', status |-> status', session |-> session']
    BY <1>8 DEF ApplyEvent
  <2> QED BY <2>1, <2>2, <2>3
<1>9. CASE ReaderMerge
  <2>1. /\ disk'.status = status'
        /\ status[s] = "Running" /\ status'[s] # "Running" => input[s] = "finished"
    BY <1>9 DEF ReaderMerge
  <2> QED BY <2>1
<1>10. CASE Crash
  <2>1. disk' = disk /\ status' = disk.status
    BY <1>10 DEF Crash
  <2> QED BY <1>0, <2>1 DEF Ends
<1>11. CASE Read \/ \E t \in Submissions : Accept(t) \/ \E r \in Runtimes : Dispatch(t, r)
  BY <1>1, <1>11 DEF Read, Accept, Dispatch, BeginRequest
<1>12. CASE Hydration \/ DispatchSubmit
  BY <1>1, <1>12 DEF Hydration, HydrateUpdate, AdmitHydrate, AdmitHydrated, DispatchSubmit
<1>13. CASE \E t \in Submissions :
               \/ Disconnect(t) \/ ReaderConfirm(t)
               \/ ProviderStores(t) \/ ProviderDrops(t) \/ ProviderFinishes(t)
  BY <1>1, <1>13 DEF Disconnect, ReaderConfirm, ProviderStores, ProviderDrops, ProviderFinishes
<1>14. CASE \E r \in Runtimes :
               \/ StartBegin(r) \/ Started(r) \/ StartFails(r) \/ Detach(r) \/ ServerDies(r)
               \/ \E success \in BOOLEAN : TurnEnds(r, success)
  BY <1>1, <1>14 DEF StartBegin, Started, StartFails, Detach, ServerDies, TurnEnds
<1>15. ASSUME NEW r \in Runtimes, NEW t \in Submissions, Worker(r, t)
       PROVE  UNCHANGED <<status, disk>>
  BY <1>15 DEF Worker, WorkerDeadServer, WorkerClaim, WorkerCannotSend, WorkerPost,
               WorkerRecord, WorkerAnswered
<1>16. CASE ReaderCold \/ ReaderFetch \/ ReaderGivesUp
  BY <1>1, <1>16 DEF ReaderCold, ReaderFetch, ReaderGivesUp
<1> QED BY <1>1, <1>3, <1>4, <1>5, <1>6, <1>7, <1>8, <1>9, <1>10, <1>11, <1>12, <1>13, <1>14,
           <1>15, <1>16 DEF Next, RequestBody

LEMMA StepEnds ==
    ASSUME SafetyInv, Next
    PROVE  Ends'
<1>1. ASSUME NEW s \in Submissions, disk'.status[s] # "Running" PROVE status'[s] # "Running"
  <2>1. disk.status[s] # "Running" => status[s] # "Running"
    BY DEF SafetyInv, Ends
  <2> QED BY <1>1, <2>1, StepClosed
<1>2. \A r \in Runtimes :
          server'[r] \in {"unstarted", "starting"} =>
              attached' # r /\ \A s \in Submissions : via'[s] # r
  BY StepLinks
<1>3. \A q \in Runtimes : \A i \in 1..Len(events'[q]) :
          events'[q][i].kind = "finished" => Gone(q)' \/ \E s \in Submissions : Over(s)'
  BY StepEvents
<1> QED BY <1>1, <1>2, <1>3, StepDoubt DEF Ends

-------------------------------------------------------------------------------
LEMMA StepSafety ==
    ASSUME SafetyInv, [Next]_vars
    PROVE  SafetyInv'
<1>1. CASE Next
  <2>1. TypeOK'
    BY <1>1, StepType DEF SafetyInv
  <2> QED BY <1>1, <2>1, StepConsistent, StepLock, StepKnownVerdicts, StepNothingMissed,
             StepHistory, StepOneUnsettled, StepEnds
          DEF SafetyInv
<1>2. CASE UNCHANGED vars
  BY <1>2 DEF vars, SafetyInv, TypeOK, LockInv, Consistent, KnownVerdicts, Truthful,
              NothingMissed, InSession, OneUnsettled, Ends, Adrift, Gone, Over
<1> QED BY <1>1, <1>2

\* The invariant behind the protocol's safety holds in every reachable state.
THEOREM Safety == Spec => []SafetyInv
BY InitSafety, StepSafety, PTL DEF Spec

\* At most one POST per submission, for any retries, takeovers and crashes.
THEOREM PostsOnce == Spec => []AtMostOnePost
<1>1. SafetyInv => AtMostOnePost
  <2>1. ASSUME SafetyInv, NEW s \in Submissions PROVE posts[s] <= 1
    <3>1. posts[s] = 0 \/ posts[s] = 1
      BY <2>1 DEF SafetyInv, Consistent
    <3> QED BY <3>1
  <2> QED BY <2>1 DEF AtMostOnePost
<1> QED BY <1>1, Safety, PTL

\* A reported failure means the input is neither stored nor can still be sent.
THEOREM FailuresAreFinal == Spec => []FailureIsFinal
<1>1. SafetyInv => FailureIsFinal
  BY DEF SafetyInv, Consistent, FailureIsFinal, Failures, Unconfirmed
<1> QED BY <1>1, Safety, PTL

\* A reported acceptance means the provider holds the input.
THEOREM AcceptancesAreTrue == Spec => []AcceptedIsStored
<1>1. SafetyInv => AcceptedIsStored
  BY DEF SafetyInv, Consistent, AcceptedIsStored
<1> QED BY <1>1, Safety, PTL

\* The session admits one unsettled submission at a time.
THEOREM AdmitsOne == Spec => []OneUnsettled
<1>1. SafetyInv => OneUnsettled
  BY DEF SafetyInv
<1> QED BY <1>1, Safety, PTL

\* Memory never shows a verdict that the table does not hold.
THEOREM VerdictsAreRecorded == Spec => []VerdictIsRecorded
<1>1. SafetyInv => VerdictIsRecorded
  BY DEF SafetyInv, KnownVerdicts, VerdictIsRecorded, Verdicts
<1> QED BY <1>1, Safety, PTL

\* Receipts only move forward.
THEOREM ReceiptsAdvance == Spec => ReceiptsOnlyAdvance
<1>1. SafetyInv /\ [Next]_vars =>
          [\A s \in Submissions :
              \/ receipt'[s] = receipt[s]
              \/ Rank(receipt[s]) < Rank(receipt'[s])
                    /\ (receipt[s] = "Unknown" => receipt'[s] = "Accepted")
              \/ receipt[s] = "Absent"]_vars
  <2> SUFFICES ASSUME SafetyInv, Next, NEW s \in Submissions
               PROVE  \/ receipt'[s] = receipt[s]
                      \/ Rank(receipt[s]) < Rank(receipt'[s])
                            /\ (receipt[s] = "Unknown" => receipt'[s] = "Accepted")
                      \/ receipt[s] = "Absent"
    OBVIOUS
  <2>1. /\ Rank("Preparing") = 0 /\ Rank("Dispatching") = 1 /\ Rank("Unknown") = 2
        /\ Rank("Accepted") = 3 /\ Rank("NotSent") = 3 /\ Rank("Rejected") = 3
    BY DEF Rank
  <2>2. receipt'[s] = receipt[s] \/ <<receipt[s], receipt'[s]>> \in Advances
    BY StepConsistent
  <2> QED BY <2>1, <2>2 DEF Advances
<1> QED BY <1>1, Safety, PTL DEF Spec, ReceiptsOnlyAdvance

\* In a session with one submission a running turn is closed only when its
\* execution is over or its input is known never to run.  With a second one the
\* event that reports the end of the first may close the second (ApplyEvent).
THEOREM OneTurnClosedWhenOver ==
    (\A s, t \in Submissions : s = t) => (Spec => TurnClosedOnlyWhenOver)
<1> SUFFICES ASSUME \A s, t \in Submissions : s = t PROVE Spec => TurnClosedOnlyWhenOver
  OBVIOUS
<1>1. ASSUME SafetyInv, Next, NEW s \in Submissions,
             status[s] = "Running", status'[s] # "Running"
      PROVE  input[s] = "finished" \/ receipt'[s] \in Failures
  <2>1. \/ input[s] = "finished" \/ receipt'[s] \in Failures
        \/ \E t \in Submissions : Over(t)
    BY <1>1, StepClosed
  <2>2. CASE \E t \in Submissions : Over(t)
    <3>1. input[s] = "finished" \/ receipt[s] \in Failures
      BY <2>2 DEF Over
    <3> QED BY <1>1, <3>1, StepVerdicts DEF VerdictsStay, Verdicts
  <2> QED BY <2>1, <2>2
<1>2. SafetyInv /\ [Next]_vars =>
         [\A s \in Submissions :
             status[s] = "Running" /\ status'[s] # "Running" =>
                 input[s] = "finished" \/ receipt'[s] \in Failures]_vars
  BY <1>1
<1> QED BY <1>2, Safety, PTL DEF Spec, TurnClosedOnlyWhenOver

-------------------------------------------------------------------------------
(***************************************************************************)
(* The protocol implements InputDelivery.                                  *)
(***************************************************************************)
fateOf == [s \in Submissions |-> Fate(s)]
toldOf == [s \in Submissions |-> Told(receipt[s])]

LEMMA ToldValues ==
    /\ Told("Absent") = "nothing" /\ Told("Preparing") = "nothing"
    /\ Told("Dispatching") = "nothing" /\ Told("Unknown") = "unsure"
    /\ Told("Accepted") = "delivered"
    /\ Told("NotSent") = "failed" /\ Told("Rejected") = "failed"
BY DEF Told

LEMMA InitPromise == Init => Delivery!PromiseInit
BY ToldValues DEF Init, Delivery!PromiseInit, Fate, Blank

InputMoves ==
    {<<"none", "wire">>, <<"wire", "stored">>, <<"wire", "refused">>, <<"wire", "lost">>,
     <<"stored", "finished">>}

\* A step changes at most one row or one input.
LEMMA StepLocal ==
    ASSUME SafetyInv, Next
    PROVE  \/ UNCHANGED <<receipt, input>>
           \/ \E t \in Submissions :
                 \/ input' = input /\ \E state : receipt' = [receipt EXCEPT ![t] = state]
                 \/ /\ receipt' = receipt
                    /\ \E move \in InputMoves :
                          input[t] = move[1] /\ input' = [input EXCEPT ![t] = move[2]]
<1> DEFINE Row(t)  == input' = input /\ \E state : receipt' = [receipt EXCEPT ![t] = state]
           Wire(t) == /\ receipt' = receipt
                      /\ \E move \in InputMoves :
                            input[t] = move[1] /\ input' = [input EXCEPT ![t] = move[2]]
<1>0. TypeOK /\ LockInv
  BY DEF SafetyInv
<1>1. CASE Quiet
  BY <1>1 DEF Quiet
<1>2. ASSUME NEW h \in Hydrators, HydrateUpdate(h)
      PROVE  \E t \in Submissions : Row(t)
  <2>1. PICK swap \in pending[h] : \E state : receipt' = [receipt EXCEPT ![swap.id] = state]
    BY <1>2 DEF HydrateUpdate
  <2>2. swap.id \in Submissions /\ input' = input
    BY <1>0, <1>2 DEF HydrateUpdate, TypeOK, Swaps
  <2> QED BY <2>1, <2>2
<1>3. CASE AcceptSave \/ DispatchClaim
  <2>1. request.id \in Submissions
    BY <1>0, <1>3 DEF AcceptSave, DispatchClaim, TypeOK, LockHolders
  <2>2. Row(request.id)
    BY <1>3 DEF AcceptSave, DispatchClaim
  <2> QED BY <2>1, <2>2
<1>4. CASE DispatchSubmit \/ Crash
  BY <1>4 DEF DispatchSubmit, Crash
<1>5. CASE DispatchSubmitFails
  <2>1. request.id \in Submissions
    BY <1>0, <1>5 DEF DispatchSubmitFails, TypeOK, LockHolders
  <2>2. UNCHANGED <<receipt, input>> \/ Row(request.id)
    BY <1>5 DEF DispatchSubmitFails
  <2> QED BY <2>1, <2>2
<1>6. ASSUME NEW t \in Submissions, Abandon(t) \/ ReaderConfirm(t)
      PROVE  UNCHANGED <<receipt, input>> \/ Row(t)
  BY <1>6 DEF Abandon, ReaderConfirm
<1>7. ASSUME NEW t \in Submissions,
             ProviderStores(t) \/ ProviderDrops(t) \/ ProviderFinishes(t)
      PROVE  Wire(t)
  <2>1. <<"wire", "stored">> \in InputMoves /\ <<"wire", "refused">> \in InputMoves
        /\ <<"wire", "lost">> \in InputMoves /\ <<"stored", "finished">> \in InputMoves
    BY DEF InputMoves
  <2> QED BY <1>7, <2>1 DEF ProviderStores, ProviderDrops, ProviderFinishes
<1>8. ASSUME NEW t \in Submissions, NEW r \in Runtimes, Worker(r, t)
      PROVE  UNCHANGED <<receipt, input>> \/ Row(t) \/ Wire(t)
  <2>1. CASE WorkerPost(t)
    <3>1. Consistent(t) /\ place[t] = "claimed"
      BY <2>1 DEF WorkerPost, SafetyInv
    <3>2. input[t] = "none" /\ <<"none", "wire">> \in InputMoves
      BY <3>1 DEF Consistent, InputMoves
    <3> QED BY <2>1, <3>2 DEF WorkerPost
  <2>2. CASE WorkerDeadServer(r, t) \/ WorkerRecord(t)
    BY <2>2 DEF WorkerDeadServer, WorkerRecord
  <2>3. CASE WorkerClaim(r, t) \/ WorkerCannotSend(t)
               \/ \E state \in {"Accepted", "Rejected", "Unknown"} : WorkerAnswered(t, state)
    BY <2>3 DEF WorkerClaim, WorkerCannotSend, WorkerAnswered
  <2> QED BY <1>8, <2>1, <2>2, <2>3 DEF Worker
<1>9. ASSUME NEW r \in Runtimes, NEW success \in BOOLEAN, TurnEnds(r, success)
      PROVE  UNCHANGED <<receipt, input>> \/ \E t \in Submissions : Row(t)
  <2>1. fence[r] \in Submissions
    BY <1>0, <1>9 DEF TurnEnds, TypeOK
  <2>2. UNCHANGED <<receipt, input>> \/ Row(fence[r])
    BY <1>9 DEF TurnEnds
  <2> QED BY <2>1, <2>2
<1> QED BY QuietSteps, <1>1, <1>2, <1>3, <1>4, <1>5, <1>6, <1>7, <1>8, <1>9

\* What a change of one row, or of one input, is in the promise.
LEMMA RowStep ==
    ASSUME SafetyInv, SafetyInv', Next, NEW t \in Submissions, input' = input,
           NEW state, receipt' = [receipt EXCEPT ![t] = state]
    PROVE  [Delivery!PromiseNext]_<<fateOf, toldOf>>
<1> USE DEF Stored, Failures
<1>0. /\ TypeOK /\ Consistent(t) /\ Consistent(t)'
      /\ \A s \in Submissions \ {t} : receipt'[s] = receipt[s]
  BY DEF SafetyInv, TypeOK
<1>1. \A s \in Submissions \ {t} :
          Fate(s)' = Fate(s) /\ Told(receipt'[s]) = Told(receipt[s])
  BY <1>0 DEF Fate
<1>2. receipt'[t] = receipt[t] \/ <<receipt[t], receipt'[t]>> \in Advances
  BY StepConsistent
<1>3. ASSUME Fate(t)' = Fate(t), Told(receipt'[t]) = Told(receipt[t])
      PROVE  UNCHANGED <<fateOf, toldOf>>
  BY <1>1, <1>3 DEF fateOf, toldOf
<1>4. CASE receipt'[t] = receipt[t]
  BY <1>3, <1>4 DEF Fate
<1>5. CASE receipt[t] = "Absent" /\ receipt'[t] = "Preparing"
  <2>1. AcceptSave
    BY <1>5, StepRows
  <2>2. \A s \in Submissions : receipt[s] \notin Unsettled
    BY <2>1, Gate DEF AcceptSave
  <2>3. input[t] = "none"
    BY <1>0, <1>5 DEF Consistent
  <2>4. Fate(t) = "new" /\ Fate(t)' = "pending"
    BY <1>5, <2>3 DEF Fate
  <2>5. Told(receipt'[t]) = Told(receipt[t])
    BY <1>5, ToldValues
  <2>6. \A s \in Submissions : Fate(s) = "new" \/ Told(receipt[s]) \in Delivery!Settled
    <3> SUFFICES ASSUME NEW s \in Submissions, receipt[s] # "Absent"
                 PROVE  Told(receipt[s]) \in Delivery!Settled
      BY DEF Fate
    <3>1. receipt[s] \in Failures \cup {"Accepted"}
      BY <1>0, <2>2 DEF TypeOK, Receipts, States, Unsettled
    <3> QED BY <3>1, ToldValues DEF Delivery!Settled
  <2>7. fateOf' = [fateOf EXCEPT ![t] = "pending"]
    BY <1>1, <2>4 DEF fateOf
  <2>8. toldOf' = toldOf
    BY <1>1, <2>5 DEF toldOf
  <2>9. Delivery!Submit(t)
    BY <2>4, <2>6, <2>7, <2>8 DEF Delivery!Submit, fateOf, toldOf
  <2> QED BY <2>9 DEF Delivery!PromiseNext
<1>6. CASE receipt[t] = "Preparing" /\ receipt'[t] = "Dispatching"
  BY <1>3, <1>6, ToldValues DEF Fate
<1>7. CASE receipt[t] \in {"Preparing", "Dispatching"} /\ receipt'[t] \in Failures
  <2>1. input[t] \notin Stored
    BY <1>0, <1>7 DEF Consistent
  <2>2. Fate(t) \in {"pending", "dropped"} /\ Fate(t)' = "dropped"
    BY <1>7, <2>1 DEF Fate
  <2>3. Told(receipt[t]) = "nothing" /\ Told(receipt'[t]) = "failed"
    BY <1>7, ToldValues
  <2>4. fateOf' = [fateOf EXCEPT ![t] = "dropped"] /\ toldOf' = [toldOf EXCEPT ![t] = "failed"]
    BY <1>1, <2>2, <2>3 DEF fateOf, toldOf
  <2>5. Delivery!Fail(t)
    BY <2>2, <2>3, <2>4 DEF Delivery!Fail, fateOf, toldOf
  <2> QED BY <2>5 DEF Delivery!PromiseNext
<1>8. CASE receipt[t] = "Dispatching" /\ receipt'[t] = "Unknown"
  <2>1. Fate(t) # "new" /\ Fate(t)' = Fate(t)
    BY <1>8 DEF Fate
  <2>2. Told(receipt[t]) = "nothing" /\ Told(receipt'[t]) = "unsure"
    BY <1>8, ToldValues
  <2>3. fateOf' = fateOf /\ toldOf' = [toldOf EXCEPT ![t] = "unsure"]
    BY <1>1, <2>1, <2>2 DEF fateOf, toldOf
  <2>4. Delivery!Doubt(t)
    BY <2>1, <2>2, <2>3 DEF Delivery!Doubt, fateOf, toldOf
  <2> QED BY <2>4 DEF Delivery!PromiseNext
<1>9. CASE receipt[t] \in {"Dispatching", "Unknown"} /\ receipt'[t] = "Accepted"
  <2>1. Fate(t) = "delivered" /\ Fate(t)' = "delivered"
    BY <1>0, <1>9 DEF Fate, Consistent
  <2>2. Told(receipt[t]) \in {"nothing", "unsure"} /\ Told(receipt'[t]) = "delivered"
    BY <1>9, ToldValues
  <2>3. fateOf' = fateOf /\ toldOf' = [toldOf EXCEPT ![t] = "delivered"]
    BY <1>1, <2>1, <2>2 DEF fateOf, toldOf
  <2>4. Delivery!Confirm(t)
    BY <2>1, <2>2, <2>3 DEF Delivery!Confirm, Delivery!Settled, fateOf, toldOf
  <2> QED BY <2>4 DEF Delivery!PromiseNext
<1> QED BY <1>2, <1>3, <1>4, <1>5, <1>6, <1>7, <1>8, <1>9 DEF Advances

LEMMA InputStep ==
    ASSUME SafetyInv, SafetyInv', Next, NEW t \in Submissions, receipt' = receipt,
           NEW move \in InputMoves, input[t] = move[1], input' = [input EXCEPT ![t] = move[2]]
    PROVE  [Delivery!PromiseNext]_<<fateOf, toldOf>>
<1> USE DEF Stored, Failures
<1>0. /\ TypeOK /\ Consistent(t) /\ Consistent(t)'
      /\ \A s \in Submissions \ {t} : input'[s] = input[s]
      /\ input'[t] = move[2]
  BY DEF SafetyInv, TypeOK
<1>1. \A s \in Submissions \ {t} : Fate(s)' = Fate(s)
  BY <1>0 DEF Fate
<1>2. toldOf' = toldOf
  BY DEF toldOf
<1>3. receipt[t] # "Absent"
  BY <1>0 DEF Consistent, InputMoves
<1>4. CASE move \in {<<"none", "wire">>, <<"stored", "finished">>}
  <2>1. Fate(t)' = Fate(t)
    BY <1>0, <1>3, <1>4 DEF Fate
  <2> QED BY <1>1, <1>2, <2>1 DEF fateOf
<1>5. CASE move = <<"wire", "stored">>
  <2>1. receipt[t] \in {"Dispatching", "Unknown"}
    <3>1. receipt[t] \notin Failures \cup {"Accepted", "Absent", "Preparing"}
      BY <1>0, <1>5 DEF Consistent
    <3> QED BY <3>1, <1>0 DEF TypeOK, Receipts, States
  <2>2. Fate(t) = "pending" /\ Fate(t)' = "delivered" /\ Told(receipt[t]) \in {"nothing", "unsure"}
    BY <1>0, <1>5, <2>1, ToldValues DEF Fate
  <2>3. fateOf' = [fateOf EXCEPT ![t] = "delivered"]
    BY <1>1, <2>2 DEF fateOf
  <2>4. Delivery!Deliver(t)
    BY <1>2, <2>2, <2>3 DEF Delivery!Deliver, Delivery!Settled, fateOf, toldOf
  <2> QED BY <2>4 DEF Delivery!PromiseNext
<1>6. CASE move \in {<<"wire", "refused">>, <<"wire", "lost">>}
  <2>1. Fate(t) = "pending" /\ Fate(t)' = "dropped"
    BY <1>0, <1>3, <1>6 DEF Fate, Consistent
  <2>2. fateOf' = [fateOf EXCEPT ![t] = "dropped"]
    BY <1>1, <2>1 DEF fateOf
  <2>3. Delivery!Drop(t)
    BY <1>2, <2>1, <2>2 DEF Delivery!Drop, fateOf, toldOf
  <2> QED BY <2>3 DEF Delivery!PromiseNext
<1> QED BY <1>4, <1>5, <1>6 DEF InputMoves

LEMMA StepPromise ==
    ASSUME SafetyInv, SafetyInv', [Next]_vars
    PROVE  [Delivery!PromiseNext]_<<fateOf, toldOf>>
<1>1. ASSUME UNCHANGED <<receipt, input>>
      PROVE  UNCHANGED <<fateOf, toldOf>>
  BY <1>1 DEF fateOf, toldOf, Fate
<1>2. CASE UNCHANGED vars
  BY <1>1, <1>2 DEF vars
<1>3. CASE Next
  BY <1>1, <1>3, StepLocal, RowStep, InputStep
<1> QED BY <1>2, <1>3

\* The protocol, with all its threads, caches, retries and crashes, implements
\* InputDelivery.
THEOREM Implements == Spec => KeepsPromise
<1>1. Init => Delivery!PromiseInit
  BY InitPromise
<1>2. SafetyInv /\ SafetyInv' /\ [Next]_vars => [Delivery!PromiseNext]_<<fateOf, toldOf>>
  BY StepPromise
<1> QED BY <1>1, <1>2, Safety, PTL DEF Spec, KeepsPromise, Delivery!Promise, fateOf, toldOf
===============================================================================
