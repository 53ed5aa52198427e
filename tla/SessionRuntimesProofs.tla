------------------------- MODULE SessionRuntimesProofs -------------------------
(***************************************************************************)
(* Safety of SessionRuntimes for any number of runtimes, requests,         *)
(* launches and panics.                                                    *)
(***************************************************************************)
EXTENDS SessionRuntimes, TLAPS

-------------------------------------------------------------------------------
(***************************************************************************)
(* Parts of the invariant whose variables a step leaves alone.             *)
(***************************************************************************)
LEMMA HoldingKept ==
    ASSUME RuntimesInv,
           UNCHANGED <<mailbox, worker, job, gate, sched, backend>>
    PROVE  Holding'
BY DEF RuntimesInv, Holding

LEMMA FreshKept ==
    ASSUME RuntimesInv,
           UNCHANGED <<hub, backend, known, srt, used, job, sched, worker, ok>>
    PROVE  Fresh'
BY DEF RuntimesInv, Fresh

LEMMA WaitingKept ==
    ASSUME RuntimesInv,
           UNCHANGED <<queue, used, srt>>
    PROVE  Waiting'
BY DEF RuntimesInv, Waiting

LEMMA HeardKept ==
    ASSUME RuntimesInv,
           UNCHANGED <<crossed, worker, sched, job, hub, srt, removed, known, backend, kept>>
    PROVE  Heard'
BY DEF RuntimesInv, Heard, WorkerStarts, SchedStarts

LEMMA GoneKept ==
    ASSUME RuntimesInv,
           UNCHANGED <<worker, ok, job, removed, crossed, sched, backend, srt>>
    PROVE  Gone'
BY DEF RuntimesInv, Gone

LEMMA InitInv == ASSUME RuntimesConstants, Init PROVE RuntimesInv
<1>1. TypeOK
  <2>1. /\ live \in BOOLEAN /\ mailbox \in BOOLEAN /\ ok \in BOOLEAN
        /\ crossed \in BOOLEAN /\ kept \in BOOLEAN
    BY DEF Init
  <2>2. sent \in 0..MaxRequests /\ queue \in Seq(Requests)
    BY DEF RuntimesConstants, Init
  <2> QED BY <2>1, <2>2 DEF Init, TypeOK
<1>2. Holding /\ Fresh /\ Waiting /\ Heard /\ Gone
  BY DEF RuntimesConstants, Init, Holding, Fresh, Waiting, Heard, Gone, WorkerStarts, SchedStarts
<1> QED BY <1>1, <1>2 DEF RuntimesInv

LEMMA JobTyped ==
    ASSUME RuntimesInv, job # None
    PROVE  job.rt \in Runtimes /\ job.id \in Ids /\ job.kind \in Kinds
BY DEF RuntimesInv, TypeOK, Requests

-------------------------------------------------------------------------------
(***************************************************************************)
(* Requests and the mailbox.                                               *)
(***************************************************************************)
LEMMA DispatchKeeps ==
    ASSUME RuntimesConstants, RuntimesInv, NEW kind \in Kinds, NEW r \in Runtimes, Dispatch(kind, r)
    PROVE  RuntimesInv'
<1> USE DEF Dispatch, schedVars
<1>1. TypeOK'
  <2> DEFINE request == [id |-> sent + 1, kind |-> kind, rt |-> r]
  <2>1. request \in Requests
    BY DEF RuntimesConstants, RuntimesInv, TypeOK, Requests, Ids
  <2>2. queue' \in Seq(Requests)
    <3>1. queue' = Append(queue, request) \/ queue' = <<request>>
      OBVIOUS
    <3> HIDE DEF request
    <3>2. queue \in Seq(Requests)
      BY DEF RuntimesInv, TypeOK
    <3>3. Append(queue, request) \in Seq(Requests) /\ <<request>> \in Seq(Requests)
      BY <2>1, <3>2
    <3> QED BY <3>1, <3>3
  <2>3. mailbox' \in BOOLEAN
    BY DEF RuntimesInv, TypeOK
  <2>4. sent' \in 0..MaxRequests
    BY DEF RuntimesConstants, RuntimesInv, TypeOK
  <2> QED BY <2>2, <2>3, <2>4 DEF RuntimesInv, TypeOK
<1>2. Holding'
  BY DEF RuntimesInv, TypeOK, Holding
<1>3. Fresh'
  BY DEF RuntimesConstants, RuntimesInv, TypeOK, Holding, Fresh
<1>4. Waiting'
  <2> DEFINE request == [id |-> sent + 1, kind |-> kind, rt |-> r]
  <2>1. request.rt = r /\ request.kind = kind
    OBVIOUS
  <2>2. queue' = Append(queue, request) \/ queue' = <<request>>
    OBVIOUS
  <2>3. used' \subseteq Runtimes /\ used \subseteq used' /\ r \in used' /\ srt \in used \cup {None}
        /\ r # None /\ (kind = "Start" => r \notin used)
    BY DEF RuntimesConstants, RuntimesInv, TypeOK, Fresh
  <2> HIDE DEF request
  <2>4. CASE queue' = Append(queue, request)
    <3>1. queue \in Seq(Requests) /\ Len(queue') = Len(queue) + 1
      BY <2>4 DEF RuntimesInv, TypeOK
    <3>2. \A i \in 1..Len(queue) : queue'[i] = queue[i]
      BY <2>4, <3>1
    <3>3. queue'[Len(queue) + 1] = request
      BY <2>4, <3>1
    <3> QED BY <2>1, <2>3, <3>1, <3>2, <3>3 DEF RuntimesInv, Waiting
  <2>5. CASE queue' = <<request>>
    BY <2>1, <2>3, <2>5 DEF RuntimesInv, Waiting
  <2> QED BY <2>2, <2>4, <2>5
<1>5. Heard'
  BY DEF RuntimesConstants, RuntimesInv, TypeOK, Holding, Fresh, Heard, Gone, WorkerStarts, SchedStarts
<1>6. Gone'
  BY DEF RuntimesConstants, RuntimesInv, TypeOK, Holding, Gone, WorkerStarts
<1> QED BY <1>1, <1>2, <1>3, <1>4, <1>5, <1>6 DEF RuntimesInv

LEMMA ReceiveKeeps ==
    ASSUME RuntimesConstants, RuntimesInv, Receive
    PROVE  RuntimesInv'
<1> USE DEF Receive, schedVars, coreVars
<1>a. job' = queue[1] /\ job' \in Requests /\ 1 \in 1..Len(queue)
  BY DEF RuntimesInv, TypeOK
<1>1. TypeOK'
  BY DEF RuntimesConstants, RuntimesInv, TypeOK
<1>2. Holding'
  BY DEF RuntimesInv, TypeOK, Holding
<1>3. Fresh'
  BY <1>a DEF RuntimesInv, TypeOK, Holding, Fresh, Waiting
<1>4. Waiting'
  BY DEF RuntimesConstants, RuntimesInv, TypeOK, Fresh, Waiting
<1>5. Heard'
  BY DEF RuntimesConstants, RuntimesInv, TypeOK, Holding, Fresh, Heard, Gone, WorkerStarts, SchedStarts
<1>6. Gone'
  BY DEF RuntimesConstants, RuntimesInv, TypeOK, Holding, Gone, WorkerStarts
<1> QED BY <1>1, <1>2, <1>3, <1>4, <1>5, <1>6 DEF RuntimesInv

LEMMA BeginStartKeeps ==
    ASSUME RuntimesConstants, RuntimesInv, BeginStart
    PROVE  RuntimesInv'
<1> USE DEF BeginStart, Handling, Finish, MailRest, schedVars, coreVars, End
<1>1. TypeOK'
  <2>1. crossed' \in BOOLEAN
    BY DEF RuntimesInv, TypeOK
  <2> QED BY <2>1, JobTyped DEF RuntimesConstants, RuntimesInv, TypeOK, Holding
<1>2. Holding'
  BY DEF RuntimesInv, TypeOK, Holding
<1>3. Fresh'
  BY DEF RuntimesConstants, RuntimesInv, TypeOK, Holding, Fresh
<1>4. Heard'
  BY DEF RuntimesConstants, RuntimesInv, TypeOK, Holding, Fresh, Heard, Gone, WorkerStarts, SchedStarts
<1>5. Gone'
  BY DEF RuntimesConstants, RuntimesInv, TypeOK, Holding, Gone, WorkerStarts
<1>6. Waiting'
  BY WaitingKept
<1> QED BY <1>1, <1>2, <1>3, <1>4, <1>5, <1>6 DEF RuntimesInv

LEMMA StartRefusedKeeps ==
    ASSUME RuntimesConstants, RuntimesInv, StartRefused
    PROVE  RuntimesInv'
<1> USE DEF StartRefused, Handling, Finish, MailRest, schedVars, coreVars, End
<1>1. TypeOK'
  <2>1. kept' \in BOOLEAN
    BY DEF RuntimesInv, TypeOK
  <2> QED BY <2>1, JobTyped DEF RuntimesConstants, RuntimesInv, TypeOK, Holding
<1>2. Holding'
  BY DEF RuntimesInv, TypeOK, Holding
<1>3. Fresh'
  BY DEF RuntimesConstants, RuntimesInv, TypeOK, Holding, Fresh
<1>4. Heard'
  BY DEF RuntimesConstants, RuntimesInv, TypeOK, Holding, Fresh, Heard, Gone, WorkerStarts, SchedStarts
<1>5. Gone'
  BY DEF RuntimesConstants, RuntimesInv, TypeOK, Holding, Gone, WorkerStarts
<1>6. Waiting'
  BY WaitingKept
<1> QED BY <1>1, <1>2, <1>3, <1>4, <1>5, <1>6 DEF RuntimesInv

LEMMA StartTakesPreviousKeeps ==
    ASSUME RuntimesConstants, RuntimesInv, StartTakesPrevious
    PROVE  RuntimesInv'
<1> USE DEF StartTakesPrevious, Handling, Finish, MailRest, schedVars, coreVars, End
<1>1. TypeOK'
  <2>1. live' \in BOOLEAN
    BY DEF RuntimesInv, TypeOK
  <2> QED BY <2>1, JobTyped DEF RuntimesConstants, RuntimesInv, TypeOK, Holding
<1>2. Holding'
  BY DEF RuntimesInv, TypeOK, Holding
<1>3. Fresh'
  BY DEF RuntimesConstants, RuntimesInv, TypeOK, Holding, Fresh
<1>4. Heard'
  BY DEF RuntimesConstants, RuntimesInv, TypeOK, Holding, Fresh, Heard, Gone, WorkerStarts, SchedStarts
<1>5. Gone'
  BY DEF RuntimesConstants, RuntimesInv, TypeOK, Holding, Gone, WorkerStarts
<1>6. Waiting'
  BY WaitingKept
<1> QED BY <1>1, <1>2, <1>3, <1>4, <1>5, <1>6 DEF RuntimesInv

LEMMA StartInsertsKeeps ==
    ASSUME RuntimesConstants, RuntimesInv, StartInserts
    PROVE  RuntimesInv'
<1> USE DEF StartInserts, Handling, Finish, MailRest, schedVars, coreVars, End
<1>1. TypeOK'
  <2>1. live' \in BOOLEAN /\ ok' \in BOOLEAN /\ kept' \in BOOLEAN
    BY DEF RuntimesInv, TypeOK
  <2> QED BY <2>1, JobTyped DEF RuntimesConstants, RuntimesInv, TypeOK, Holding
<1>2. Holding'
  BY DEF RuntimesInv, TypeOK, Holding
<1>3. Fresh'
  BY DEF RuntimesConstants, RuntimesInv, TypeOK, Holding, Fresh
<1>4. Heard'
  BY DEF RuntimesConstants, RuntimesInv, TypeOK, Holding, Fresh, Heard, Gone, WorkerStarts, SchedStarts
<1>5. Gone'
  BY DEF RuntimesConstants, RuntimesInv, TypeOK, Holding, Gone, WorkerStarts
<1>6. Waiting'
  BY WaitingKept
<1> QED BY <1>1, <1>2, <1>3, <1>4, <1>5, <1>6 DEF RuntimesInv

LEMMA StartFailsKeeps ==
    ASSUME RuntimesConstants, RuntimesInv, StartFails
    PROVE  RuntimesInv'
<1> USE DEF StartFails, Handling, Finish, MailRest, schedVars, coreVars, End
<1>1. TypeOK'
  BY DEF RuntimesConstants, RuntimesInv, TypeOK
<1>2. Holding'
  BY DEF RuntimesInv, TypeOK, Holding
<1>3. Fresh'
  BY DEF RuntimesConstants, RuntimesInv, TypeOK, Holding, Fresh
<1>4. Heard'
  BY DEF RuntimesConstants, RuntimesInv, TypeOK, Holding, Fresh, Heard, Gone, WorkerStarts, SchedStarts
<1>5. Gone'
  BY DEF RuntimesConstants, RuntimesInv, TypeOK, Holding, Gone, WorkerStarts
<1>6. Waiting'
  BY WaitingKept
<1> QED BY <1>1, <1>2, <1>3, <1>4, <1>5, <1>6 DEF RuntimesInv

LEMMA StartEndsKeeps ==
    ASSUME RuntimesConstants, RuntimesInv, StartEnds
    PROVE  RuntimesInv'
<1> USE DEF StartEnds, Handling, Finish, MailRest, schedVars, coreVars, End
<1>1. TypeOK'
  <2>1. ok' \in BOOLEAN
    BY DEF RuntimesInv, TypeOK
  <2> QED BY <2>1, JobTyped DEF RuntimesConstants, RuntimesInv, TypeOK, Holding
<1>2. Holding'
  BY DEF RuntimesInv, TypeOK, Holding
<1>3. Fresh'
  BY DEF RuntimesConstants, RuntimesInv, TypeOK, Holding, Fresh
<1>4. Heard'
  BY DEF RuntimesConstants, RuntimesInv, TypeOK, Holding, Fresh, Heard, Gone, WorkerStarts, SchedStarts
<1>5. Gone'
  BY DEF RuntimesConstants, RuntimesInv, TypeOK, Holding, Gone, WorkerStarts
<1>6. Waiting'
  BY WaitingKept
<1> QED BY <1>1, <1>2, <1>3, <1>4, <1>5, <1>6 DEF RuntimesInv

LEMMA CloseKeeps ==
    ASSUME RuntimesConstants, RuntimesInv, Close
    PROVE  RuntimesInv'
<1> USE DEF Close, Handling, Finish, MailRest, schedVars, coreVars, End
<1>1. TypeOK'
  <2>1. live' \in BOOLEAN /\ ok' \in BOOLEAN
    BY DEF RuntimesInv, TypeOK
  <2> QED BY <2>1, JobTyped DEF RuntimesConstants, RuntimesInv, TypeOK, Holding
<1>2. Holding'
  BY DEF RuntimesInv, TypeOK, Holding
<1>3. Fresh'
  BY DEF RuntimesConstants, RuntimesInv, TypeOK, Holding, Fresh
<1>4. Heard'
  BY DEF RuntimesConstants, RuntimesInv, TypeOK, Holding, Fresh, Heard, Gone, WorkerStarts, SchedStarts
<1>5. Gone'
  BY DEF RuntimesConstants, RuntimesInv, TypeOK, Holding, Gone, WorkerStarts
<1>6. Waiting'
  BY WaitingKept
<1> QED BY <1>1, <1>2, <1>3, <1>4, <1>5, <1>6 DEF RuntimesInv

LEMMA AttachKeeps ==
    ASSUME RuntimesConstants, RuntimesInv, Attach
    PROVE  RuntimesInv'
<1> USE DEF Attach, Handling, Finish, MailRest, schedVars, coreVars, End
<1>1. TypeOK'
  <2>1. ok' \in BOOLEAN
    BY DEF RuntimesInv, TypeOK
  <2> QED BY <2>1, JobTyped DEF RuntimesConstants, RuntimesInv, TypeOK, Holding
<1>2. Holding'
  BY DEF RuntimesInv, TypeOK, Holding
<1>3. Fresh'
  BY DEF RuntimesConstants, RuntimesInv, TypeOK, Holding, Fresh
<1>4. Heard'
  BY DEF RuntimesConstants, RuntimesInv, TypeOK, Holding, Fresh, Heard, Gone, WorkerStarts, SchedStarts
<1>5. Gone'
  BY DEF RuntimesConstants, RuntimesInv, TypeOK, Holding, Gone, WorkerStarts
<1>6. Waiting'
  BY WaitingKept
<1> QED BY <1>1, <1>2, <1>3, <1>4, <1>5, <1>6 DEF RuntimesInv

LEMMA OtherKeeps ==
    ASSUME RuntimesConstants, RuntimesInv, Other
    PROVE  RuntimesInv'
<1> USE DEF Other, Handling, Finish, MailRest, schedVars, coreVars, End
<1>1. TypeOK'
  <2>1. ok' \in BOOLEAN
    BY DEF RuntimesInv, TypeOK
  <2> QED BY <2>1, JobTyped DEF RuntimesConstants, RuntimesInv, TypeOK, Holding
<1>2. Holding'
  BY DEF RuntimesInv, TypeOK, Holding
<1>3. Fresh'
  BY DEF RuntimesConstants, RuntimesInv, TypeOK, Holding, Fresh
<1>4. Heard'
  BY DEF RuntimesConstants, RuntimesInv, TypeOK, Holding, Fresh, Heard, Gone, WorkerStarts, SchedStarts
<1>5. Gone'
  BY DEF RuntimesConstants, RuntimesInv, TypeOK, Holding, Gone, WorkerStarts
<1>6. Waiting'
  BY WaitingKept
<1> QED BY <1>1, <1>2, <1>3, <1>4, <1>5, <1>6 DEF RuntimesInv

LEMMA RemoveKeeps ==
    ASSUME RuntimesConstants, RuntimesInv, Remove
    PROVE  RuntimesInv'
<1> USE DEF Remove, Handling, Finish, MailRest, schedVars, coreVars, End
<1>1. TypeOK'
  <2>1. live' \in BOOLEAN /\ ok' \in BOOLEAN
    BY DEF RuntimesInv, TypeOK
  <2> QED BY <2>1, JobTyped DEF RuntimesConstants, RuntimesInv, TypeOK, Holding
<1>2. Holding'
  BY DEF RuntimesInv, TypeOK, Holding
<1>3. Fresh'
  BY DEF RuntimesConstants, RuntimesInv, TypeOK, Holding, Fresh
<1>4. Heard'
  BY DEF RuntimesConstants, RuntimesInv, TypeOK, Holding, Fresh, Heard, Gone, WorkerStarts, SchedStarts
<1>5. Gone'
  BY DEF RuntimesConstants, RuntimesInv, TypeOK, Holding, Gone, WorkerStarts
<1>6. Waiting'
  BY WaitingKept
<1> QED BY <1>1, <1>2, <1>3, <1>4, <1>5, <1>6 DEF RuntimesInv

LEMMA RemoveFailsKeeps ==
    ASSUME RuntimesConstants, RuntimesInv, RemoveFails
    PROVE  RuntimesInv'
<1> USE DEF RemoveFails, Handling, Finish, MailRest, schedVars, coreVars, End
<1>1. TypeOK'
  <2>1. ok' \in BOOLEAN
    BY DEF RuntimesInv, TypeOK
  <2> QED BY <2>1, JobTyped DEF RuntimesConstants, RuntimesInv, TypeOK, Holding
<1>2. Holding'
  BY DEF RuntimesInv, TypeOK, Holding
<1>3. Fresh'
  BY DEF RuntimesConstants, RuntimesInv, TypeOK, Holding, Fresh
<1>4. Heard'
  BY DEF RuntimesConstants, RuntimesInv, TypeOK, Holding, Fresh, Heard, Gone, WorkerStarts, SchedStarts
<1>5. Gone'
  BY DEF RuntimesConstants, RuntimesInv, TypeOK, Holding, Gone, WorkerStarts
<1>6. Waiting'
  BY WaitingKept
<1> QED BY <1>1, <1>2, <1>3, <1>4, <1>5, <1>6 DEF RuntimesInv

LEMMA ReplyKeeps ==
    ASSUME RuntimesConstants, RuntimesInv, Reply
    PROVE  RuntimesInv'
<1> USE DEF Reply, Handling, Finish, MailRest, schedVars, coreVars, End
<1>1. TypeOK'
  <2>1. job # None
    BY DEF RuntimesInv, Holding
  <2>2. job.rt \in Runtimes /\ job.id \in Ids
    BY <2>1, JobTyped
  <2>3. hub' \in {None, hub}
    OBVIOUS
  <2>4. known' \in {None, known, job.rt}
    OBVIOUS
  <2> QED BY <2>2, <2>3, <2>4 DEF RuntimesInv, TypeOK
<1>2. Holding'
  BY DEF RuntimesInv, TypeOK, Holding
<1>3. Fresh'
  BY DEF RuntimesConstants, RuntimesInv, TypeOK, Holding, Fresh
<1>4. Heard'
  BY DEF RuntimesConstants, RuntimesInv, TypeOK, Holding, Fresh, Heard, Gone, WorkerStarts, SchedStarts
<1>5. Gone'
  BY DEF RuntimesConstants, RuntimesInv, TypeOK, Holding, Gone, WorkerStarts
<1>6. Waiting'
  BY WaitingKept
<1> QED BY <1>1, <1>2, <1>3, <1>4, <1>5, <1>6 DEF RuntimesInv

LEMMA RetireKeeps ==
    ASSUME RuntimesConstants, RuntimesInv, Retire
    PROVE  RuntimesInv'
<1> USE DEF Retire, Handling, Finish, MailRest, schedVars, coreVars, End
<1>1. TypeOK'
  <2>1. mailbox' \in BOOLEAN
    BY DEF RuntimesInv, TypeOK
  <2> QED BY <2>1, JobTyped DEF RuntimesConstants, RuntimesInv, TypeOK, Holding
<1>2. Holding'
  BY DEF RuntimesInv, TypeOK, Holding
<1>3. Fresh'
  BY DEF RuntimesConstants, RuntimesInv, TypeOK, Holding, Fresh
<1>4. Heard'
  BY DEF RuntimesConstants, RuntimesInv, TypeOK, Holding, Fresh, Heard, Gone, WorkerStarts, SchedStarts
<1>5. Gone'
  BY DEF RuntimesConstants, RuntimesInv, TypeOK, Holding, Gone, WorkerStarts
<1>6. Waiting'
  BY WaitingKept
<1> QED BY <1>1, <1>2, <1>3, <1>4, <1>5, <1>6 DEF RuntimesInv

LEMMA PanicKeeps ==
    ASSUME RuntimesConstants, RuntimesInv, Panic
    PROVE  RuntimesInv'
<1> USE DEF Panic, Handling, Finish, MailRest, schedVars, coreVars, End
<1>1. TypeOK'
  <2>1. kept' \in BOOLEAN
    BY DEF RuntimesInv, TypeOK
  <2>2. \A i \in 1..Len(queue) : queue[i].id \in Ids
    <3>1. \A i \in 1..Len(queue) : queue[i] \in Requests
      BY DEF RuntimesInv, TypeOK
    <3> QED BY <3>1 DEF Requests
  <2>3. voided' \subseteq Ids
    BY <2>2, JobTyped DEF RuntimesInv, TypeOK
  <2>4. gate' \in {"free", "worker", "sched"} /\ queue' \in Seq(Requests) /\ panics' \in Nat
    BY DEF RuntimesInv, TypeOK
  <2> QED BY <2>1, <2>3, <2>4 DEF RuntimesInv, TypeOK
<1>2. Holding'
  BY DEF RuntimesInv, TypeOK, Holding
<1>3. Fresh'
  BY DEF RuntimesConstants, RuntimesInv, TypeOK, Holding, Fresh
<1>4. Waiting'
  BY DEF RuntimesConstants, RuntimesInv, TypeOK, Fresh, Waiting
<1>5. Heard'
  BY DEF RuntimesConstants, RuntimesInv, TypeOK, Holding, Fresh, Heard, Gone, WorkerStarts, SchedStarts
<1>6. Gone'
  BY DEF RuntimesConstants, RuntimesInv, TypeOK, Holding, Gone, WorkerStarts
<1> QED BY <1>1, <1>2, <1>3, <1>4, <1>5, <1>6 DEF RuntimesInv

-------------------------------------------------------------------------------
(***************************************************************************)
(* The scheduler, and the rest of the daemon.                              *)
(***************************************************************************)
LEMMA LaunchKeeps ==
    ASSUME RuntimesConstants, RuntimesInv, NEW r \in Runtimes, Launch(r)
    PROVE  RuntimesInv'
<1> USE DEF Launch, SchedRest, mailVars, coreVars, End
<1>1. TypeOK'
  BY DEF RuntimesConstants, RuntimesInv, TypeOK
<1>2. Holding'
  BY DEF RuntimesInv, TypeOK, Holding
<1>3. Fresh'
  BY DEF RuntimesConstants, RuntimesInv, TypeOK, Holding, Fresh
<1>4. Waiting'
  BY DEF RuntimesConstants, RuntimesInv, TypeOK, Fresh, Waiting
<1>5. Heard'
  BY DEF RuntimesConstants, RuntimesInv, TypeOK, Holding, Fresh, Heard, Gone, WorkerStarts, SchedStarts
<1>6. Gone'
  BY DEF RuntimesConstants, RuntimesInv, TypeOK, Holding, Gone, WorkerStarts
<1> QED BY <1>1, <1>2, <1>3, <1>4, <1>5, <1>6 DEF RuntimesInv

LEMMA LaunchBeginsKeeps ==
    ASSUME RuntimesConstants, RuntimesInv, LaunchBegins
    PROVE  RuntimesInv'
<1> USE DEF LaunchBegins, SchedRest, mailVars, coreVars, End
<1>1. TypeOK'
  <2>1. crossed' \in BOOLEAN
    BY DEF RuntimesInv, TypeOK
  <2> QED BY <2>1, JobTyped DEF RuntimesConstants, RuntimesInv, TypeOK, Holding
<1>2. Holding'
  BY DEF RuntimesInv, TypeOK, Holding
<1>3. Fresh'
  BY DEF RuntimesConstants, RuntimesInv, TypeOK, Holding, Fresh
<1>4. Heard'
  BY DEF RuntimesConstants, RuntimesInv, TypeOK, Holding, Fresh, Heard, Gone, WorkerStarts, SchedStarts
<1>5. Gone'
  BY DEF RuntimesConstants, RuntimesInv, TypeOK, Holding, Gone, WorkerStarts
<1>6. Waiting'
  BY WaitingKept
<1> QED BY <1>1, <1>2, <1>3, <1>4, <1>5, <1>6 DEF RuntimesInv

LEMMA LaunchRefusedKeeps ==
    ASSUME RuntimesConstants, RuntimesInv, LaunchRefused
    PROVE  RuntimesInv'
<1> USE DEF LaunchRefused, SchedRest, mailVars, coreVars, End
<1>1. TypeOK'
  <2>1. kept' \in BOOLEAN
    BY DEF RuntimesInv, TypeOK
  <2> QED BY <2>1, JobTyped DEF RuntimesConstants, RuntimesInv, TypeOK, Holding
<1>2. Holding'
  BY DEF RuntimesInv, TypeOK, Holding
<1>3. Fresh'
  BY DEF RuntimesConstants, RuntimesInv, TypeOK, Holding, Fresh
<1>4. Heard'
  BY DEF RuntimesConstants, RuntimesInv, TypeOK, Holding, Fresh, Heard, Gone, WorkerStarts, SchedStarts
<1>5. Gone'
  BY DEF RuntimesConstants, RuntimesInv, TypeOK, Holding, Gone, WorkerStarts
<1>6. Waiting'
  BY WaitingKept
<1> QED BY <1>1, <1>2, <1>3, <1>4, <1>5, <1>6 DEF RuntimesInv

LEMMA LaunchTakesPreviousKeeps ==
    ASSUME RuntimesConstants, RuntimesInv, LaunchTakesPrevious
    PROVE  RuntimesInv'
<1> USE DEF LaunchTakesPrevious, SchedRest, mailVars, coreVars, End
<1>1. TypeOK'
  <2>1. live' \in BOOLEAN
    BY DEF RuntimesInv, TypeOK
  <2> QED BY <2>1, JobTyped DEF RuntimesConstants, RuntimesInv, TypeOK, Holding
<1>2. Holding'
  BY DEF RuntimesInv, TypeOK, Holding
<1>3. Fresh'
  BY DEF RuntimesConstants, RuntimesInv, TypeOK, Holding, Fresh
<1>4. Heard'
  BY DEF RuntimesConstants, RuntimesInv, TypeOK, Holding, Fresh, Heard, Gone, WorkerStarts, SchedStarts
<1>5. Gone'
  BY DEF RuntimesConstants, RuntimesInv, TypeOK, Holding, Gone, WorkerStarts
<1>6. Waiting'
  BY WaitingKept
<1> QED BY <1>1, <1>2, <1>3, <1>4, <1>5, <1>6 DEF RuntimesInv

LEMMA LaunchInsertsKeeps ==
    ASSUME RuntimesConstants, RuntimesInv, LaunchInserts
    PROVE  RuntimesInv'
<1> USE DEF LaunchInserts, SchedRest, mailVars, coreVars, End
<1>1. TypeOK'
  <2>1. live' \in BOOLEAN /\ kept' \in BOOLEAN
    BY DEF RuntimesInv, TypeOK
  <2> QED BY <2>1, JobTyped DEF RuntimesConstants, RuntimesInv, TypeOK, Holding
<1>2. Holding'
  BY DEF RuntimesInv, TypeOK, Holding
<1>3. Fresh'
  BY DEF RuntimesConstants, RuntimesInv, TypeOK, Holding, Fresh
<1>4. Heard'
  BY DEF RuntimesConstants, RuntimesInv, TypeOK, Holding, Fresh, Heard, Gone, WorkerStarts, SchedStarts
<1>5. Gone'
  BY DEF RuntimesConstants, RuntimesInv, TypeOK, Holding, Gone, WorkerStarts
<1>6. Waiting'
  BY WaitingKept
<1> QED BY <1>1, <1>2, <1>3, <1>4, <1>5, <1>6 DEF RuntimesInv

LEMMA LaunchFailsKeeps ==
    ASSUME RuntimesConstants, RuntimesInv, LaunchFails
    PROVE  RuntimesInv'
<1> USE DEF LaunchFails, SchedRest, mailVars, coreVars, End
<1>1. TypeOK'
  BY DEF RuntimesConstants, RuntimesInv, TypeOK
<1>2. Holding'
  BY DEF RuntimesInv, TypeOK, Holding
<1>3. Fresh'
  BY DEF RuntimesConstants, RuntimesInv, TypeOK, Holding, Fresh
<1>4. Heard'
  BY DEF RuntimesConstants, RuntimesInv, TypeOK, Holding, Fresh, Heard, Gone, WorkerStarts, SchedStarts
<1>5. Gone'
  BY DEF RuntimesConstants, RuntimesInv, TypeOK, Holding, Gone, WorkerStarts
<1>6. Waiting'
  BY WaitingKept
<1> QED BY <1>1, <1>2, <1>3, <1>4, <1>5, <1>6 DEF RuntimesInv

LEMMA LaunchEndsKeeps ==
    ASSUME RuntimesConstants, RuntimesInv, LaunchEnds
    PROVE  RuntimesInv'
<1> USE DEF LaunchEnds, SchedRest, mailVars, coreVars, End
<1>1. TypeOK'
  BY DEF RuntimesConstants, RuntimesInv, TypeOK
<1>2. Holding'
  BY DEF RuntimesInv, TypeOK, Holding
<1>3. Fresh'
  BY DEF RuntimesConstants, RuntimesInv, TypeOK, Holding, Fresh
<1>4. Waiting'
  BY DEF RuntimesConstants, RuntimesInv, TypeOK, Fresh, Waiting
<1>5. Heard'
  BY DEF RuntimesConstants, RuntimesInv, TypeOK, Holding, Fresh, Heard, Gone, WorkerStarts, SchedStarts
<1>6. Gone'
  BY DEF RuntimesConstants, RuntimesInv, TypeOK, Holding, Gone, WorkerStarts
<1> QED BY <1>1, <1>2, <1>3, <1>4, <1>5, <1>6 DEF RuntimesInv

LEMMA ConfirmKeeps ==
    ASSUME RuntimesConstants, RuntimesInv, Confirm
    PROVE  RuntimesInv'
<1> USE DEF Confirm, SchedRest, mailVars, coreVars, End
<1>1. TypeOK'
  <2>1. live' \in BOOLEAN
    BY DEF RuntimesInv, TypeOK
  <2> QED BY <2>1, JobTyped DEF RuntimesConstants, RuntimesInv, TypeOK, Holding
<1>2. Holding'
  BY DEF RuntimesInv, TypeOK, Holding
<1>3. Fresh'
  BY DEF RuntimesConstants, RuntimesInv, TypeOK, Holding, Fresh
<1>4. Waiting'
  BY DEF RuntimesConstants, RuntimesInv, TypeOK, Fresh, Waiting
<1>5. Heard'
  BY DEF RuntimesConstants, RuntimesInv, TypeOK, Holding, Fresh, Heard, Gone, WorkerStarts, SchedStarts
<1>6. Gone'
  BY DEF RuntimesConstants, RuntimesInv, TypeOK, Holding, Gone, WorkerStarts
<1> QED BY <1>1, <1>2, <1>3, <1>4, <1>5, <1>6 DEF RuntimesInv

LEMMA RemoveProjectKeeps ==
    ASSUME RuntimesConstants, RuntimesInv, RemoveProject
    PROVE  RuntimesInv'
<1> USE DEF RemoveProject, mailVars, schedVars
<1>1. TypeOK'
  <2>1. live' \in BOOLEAN /\ crossed' \in BOOLEAN
    BY DEF RuntimesInv, TypeOK
  <2> QED BY <2>1, JobTyped DEF RuntimesConstants, RuntimesInv, TypeOK, Holding
<1>2. Holding'
  BY DEF RuntimesInv, TypeOK, Holding
<1>3. Fresh'
  BY DEF RuntimesConstants, RuntimesInv, TypeOK, Holding, Fresh
<1>4. Heard'
  BY DEF RuntimesConstants, RuntimesInv, TypeOK, Holding, Fresh, Heard, Gone, WorkerStarts, SchedStarts
<1>5. Gone'
  BY DEF RuntimesConstants, RuntimesInv, TypeOK, Holding, Gone, WorkerStarts
<1>6. Waiting'
  BY WaitingKept
<1> QED BY <1>1, <1>2, <1>3, <1>4, <1>5, <1>6 DEF RuntimesInv

LEMMA TransportDiesKeeps ==
    ASSUME RuntimesConstants, RuntimesInv, TransportDies
    PROVE  RuntimesInv'
<1> USE DEF TransportDies, mailVars, schedVars
<1>1. TypeOK'
  <2>1. live' \in BOOLEAN
    BY DEF RuntimesInv, TypeOK
  <2> QED BY <2>1, JobTyped DEF RuntimesConstants, RuntimesInv, TypeOK, Holding
<1>2. Fresh'
  BY DEF RuntimesConstants, RuntimesInv, TypeOK, Holding, Fresh
<1>3. Holding' /\ Waiting' /\ Heard' /\ Gone'
  BY HoldingKept, WaitingKept, HeardKept, GoneKept
<1> QED BY <1>1, <1>2, <1>3 DEF RuntimesInv

-------------------------------------------------------------------------------
LEMMA NextKeeps ==
    ASSUME RuntimesConstants, RuntimesInv, [Next]_vars
    PROVE  RuntimesInv'
<1>1. CASE \E kind \in Kinds, r \in Runtimes : Dispatch(kind, r)
  BY <1>1, DispatchKeeps
<1>2. CASE Worker \/ Panic
  BY <1>2, ReceiveKeeps, BeginStartKeeps, StartRefusedKeeps, StartTakesPreviousKeeps, StartInsertsKeeps, StartFailsKeeps, StartEndsKeeps, CloseKeeps, AttachKeeps, OtherKeeps, RemoveKeeps, RemoveFailsKeeps, ReplyKeeps, RetireKeeps, PanicKeeps DEF Worker
<1>3. CASE Scheduler \/ \E r \in Runtimes : Launch(r)
  BY <1>3, LaunchKeeps, LaunchBeginsKeeps, LaunchRefusedKeeps, LaunchTakesPreviousKeeps, LaunchInsertsKeeps, LaunchFailsKeeps, LaunchEndsKeeps, ConfirmKeeps DEF Scheduler
<1>4. CASE RemoveProject \/ TransportDies
  BY <1>4, RemoveProjectKeeps, TransportDiesKeeps
<1>5. CASE UNCHANGED vars
  BY <1>5 DEF vars, mailVars, schedVars, coreVars, RuntimesInv, TypeOK, Holding, Fresh, Waiting, Heard, Gone, WorkerStarts, SchedStarts
<1> QED BY <1>1, <1>2, <1>3, <1>4, <1>5 DEF Next

\* The gate, the ids, the hub and the backend fit together.
THEOREM RuntimesSafety == RuntimesConstants => (Spec => []RuntimesInv)
<1> SUFFICES ASSUME RuntimesConstants PROVE Spec => []RuntimesInv
  OBVIOUS
<1>1. Init => RuntimesInv
  BY InitInv
<1>2. RuntimesInv /\ [Next]_vars => RuntimesInv'
  BY NextKeeps
<1> QED BY <1>1, <1>2, PTL DEF Spec

\* The hub passes on the events of the runtime in place, whatever the orders of
\* mailbox, scheduler and removals.
THEOREM WorkingRuntimeIsHeard == RuntimesConstants => (Spec => []LiveRuntimeIsHeard)
<1> SUFFICES ASSUME RuntimesConstants PROVE Spec => []LiveRuntimeIsHeard
  OBVIOUS
<1>1. RuntimesInv => LiveRuntimeIsHeard
  BY DEF RuntimesInv, Heard, LiveRuntimeIsHeard, Quiet, WorkerStarts
<1> QED BY <1>1, RuntimesSafety, PTL

\* A removed session is left with no runtime.
THEOREM RemovedSessionsStayDown == RuntimesConstants => (Spec => []RemovedStaysDown)
<1> SUFFICES ASSUME RuntimesConstants PROVE Spec => []RemovedStaysDown
  OBVIOUS
<1>1. RuntimesInv => RemovedStaysDown
  BY DEF RuntimesInv, Gone, RemovedStaysDown, Quiet
<1> QED BY <1>1, RuntimesSafety, PTL
===============================================================================
