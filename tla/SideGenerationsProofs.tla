------------------------- MODULE SideGenerationsProofs -------------------------
(***************************************************************************)
(* Safety of SideGenerations for any number of sessions, questions and     *)
(* slots: the map of generations and the tombstones keep within their      *)
(* limits, cards show their own answers, and cancels are heeded.           *)
(***************************************************************************)
EXTENDS SideGenerations, FiniteSetTheorems, TLAPS

LEMMA InitInv == ASSUME SideConstants, Init PROVE SideInv /\ AnswerIsCurrent
<1>1. TypeOK
  BY FS_EmptySet DEF SideConstants, Init, TypeOK
<1>2. Registered /\ Remembered /\ Unsent /\ AnswerIsCurrent
  BY DEF Init, Registered, Remembered, Unsent, AnswerIsCurrent
<1> QED BY <1>1, <1>2 DEF SideInv

\* The steps of the desktop leave the daemon alone.
LEMMA DaemonUnchanged ==
    ASSUME SideInv, UNCHANGED daemonVars
    PROVE  Registered' /\ Remembered'
BY DEF SideInv, daemonVars, Registered, Remembered, Contains

\* A generation in the map can be added to or removed from it within the limit.
LEMMA Slots ==
    ASSUME SideConstants, SideInv, NEW i \in Ids
    PROVE  /\ IsFiniteSet(active) /\ Cardinality(active) \in Nat
           /\ i \notin active => Cardinality(active \cup {i}) = Cardinality(active) + 1
           /\ Cardinality(active \ {i}) <= Cardinality(active)
<1>1. IsFiniteSet(active)
  BY FS_Subset DEF SideConstants, SideInv, TypeOK
<1>2. Cardinality(active) \in Nat
  BY <1>1, FS_CardinalityType
<1>3. i \notin active => Cardinality(active \cup {i}) = Cardinality(active) + 1
  BY <1>1, FS_AddElement
<1>4. Cardinality(active \ {i}) <= Cardinality(active)
  BY <1>1, FS_Subset
<1> QED BY <1>1, <1>2, <1>3, <1>4

LEMMA AskBtwKeeps ==
    ASSUME SideConstants, SideInv, NEW s \in Sessions, NEW i \in Ids, AskBtw(s, i)
    PROVE  SideInv'
<1> USE DEF AskBtw, Dropped, desktopVars, daemonVars
<1>1. TypeOK'
  BY DEF SideConstants, SideInv, TypeOK
<1>2. Registered' /\ Remembered'
  BY DaemonUnchanged DEF daemonVars
<1>3. Unsent'
  BY DEF SideInv, TypeOK, Unsent
<1> QED BY <1>1, <1>2, <1>3 DEF SideInv

LEMMA CancelBtwKeeps ==
    ASSUME SideConstants, SideInv, NEW s \in Sessions, CancelBtw(s)
    PROVE  SideInv'
<1> USE DEF CancelBtw, Dropped, desktopVars, daemonVars
<1>1. TypeOK'
  BY DEF SideConstants, SideInv, TypeOK
<1>2. Registered' /\ Remembered'
  BY DaemonUnchanged DEF daemonVars
<1>3. Unsent'
  BY DEF SideInv, TypeOK, Unsent
<1> QED BY <1>1, <1>2, <1>3 DEF SideInv

LEMMA CloseCardKeeps ==
    ASSUME SideConstants, SideInv, NEW s \in Sessions, CloseCard(s)
    PROVE  SideInv'
<1> USE DEF CloseCard, Dropped, desktopVars, daemonVars
<1>1. TypeOK'
  BY DEF SideConstants, SideInv, TypeOK
<1>2. Registered' /\ Remembered'
  BY DaemonUnchanged DEF daemonVars
<1>3. Unsent'
  BY DEF SideInv, TypeOK, Unsent
<1> QED BY <1>1, <1>2, <1>3 DEF SideInv

LEMMA SendFailsKeeps ==
    ASSUME SideConstants, SideInv, NEW i \in Ids, SendFails(i)
    PROVE  SideInv'
<1> USE DEF SendFails, FinishBtw, desktopVars, daemonVars
<1>1. TypeOK'
  BY DEF SideConstants, SideInv, TypeOK
<1>2. Registered' /\ Remembered'
  BY DaemonUnchanged DEF daemonVars
<1>3. Unsent'
  BY DEF SideInv, TypeOK, Unsent
<1> QED BY <1>1, <1>2, <1>3 DEF SideInv

LEMMA CancelLostKeeps ==
    ASSUME SideConstants, SideInv, NEW i \in Ids, CancelLost(i)
    PROVE  SideInv'
<1> USE DEF CancelLost, desktopVars, daemonVars
<1>1. TypeOK'
  BY DEF SideConstants, SideInv, TypeOK
<1>2. Registered' /\ Remembered'
  BY DaemonUnchanged DEF daemonVars
<1>3. Unsent'
  BY DEF SideInv, TypeOK, Unsent
<1> QED BY <1>1, <1>2, <1>3 DEF SideInv

LEMMA AnsweredKeeps ==
    ASSUME SideConstants, SideInv, NEW i \in Ids, Answered(i)
    PROVE  SideInv'
<1> USE DEF Answered, FinishBtw, desktopVars, daemonVars
<1>1. TypeOK'
  BY DEF SideConstants, SideInv, TypeOK
<1>2. Registered' /\ Remembered'
  BY DaemonUnchanged DEF daemonVars
<1>3. Unsent'
  BY DEF SideInv, TypeOK, Unsent
<1> QED BY <1>1, <1>2, <1>3 DEF SideInv

LEMMA TimesOutKeeps ==
    ASSUME SideConstants, SideInv, NEW i \in Ids, TimesOut(i)
    PROVE  SideInv'
<1> USE DEF TimesOut, FinishBtw, desktopVars, daemonVars
<1>1. TypeOK'
  BY DEF SideConstants, SideInv, TypeOK
<1>2. Registered' /\ Remembered'
  BY DaemonUnchanged DEF daemonVars
<1>3. Unsent'
  BY DEF SideInv, TypeOK, Unsent
<1> QED BY <1>1, <1>2, <1>3 DEF SideInv

LEMMA SendQuestionKeeps ==
    ASSUME SideConstants, SideInv, NEW i \in Ids, SendQuestion(i)
    PROVE  SideInv'
<1> USE DEF SendQuestion, desktopVars, daemonVars
<1>1. TypeOK'
  BY DEF SideConstants, SideInv, TypeOK
<1>2. Registered'
  BY DEF SideInv, TypeOK, Registered, Unsent
<1>3. Remembered'
  BY DEF SideInv, TypeOK, Registered, Remembered, Unsent, Contains
<1>4. Unsent'
  BY DEF SideInv, TypeOK, Unsent
<1> QED BY <1>1, <1>2, <1>3, <1>4 DEF SideInv

\* The oldest tombstone makes room for the new one.
LEMMA Entomb ==
    ASSUME SideConstants, SideInv, NEW i \in Ids,
           Len(stones) = MaxGenerations
    PROVE  /\ Append(Tail(stones), i) \in Seq(Ids)
           /\ Len(Append(Tail(stones), i)) = Len(stones)
           /\ Head(stones) \in Ids
           /\ \A j : Contains(stones, j) /\ j # Head(stones) => Contains(Append(Tail(stones), i), j)
           /\ Contains(Append(Tail(stones), i), i)
<1> USE DEF SideConstants, SideInv, TypeOK
<1>1. stones # <<>> /\ stones \in Seq(Ids) /\ Len(stones) \in Nat \ {0}
  OBVIOUS
<1>2. /\ Head(stones) = stones[1] /\ Tail(stones) \in Seq(Ids)
      /\ Len(Tail(stones)) = Len(stones) - 1
      /\ \A k \in 1..(Len(stones) - 1) : Tail(stones)[k] = stones[k + 1]
  BY <1>1
<1> DEFINE t == Append(Tail(stones), i)
<1>3. /\ t \in Seq(Ids) /\ Len(t) = Len(stones) /\ t[Len(stones)] = i
      /\ \A k \in 1..(Len(stones) - 1) : t[k] = stones[k + 1]
  BY <1>1, <1>2
<1>4. ASSUME NEW j, Contains(stones, j), j # Head(stones)
      PROVE  Contains(t, j)
  <2>1. PICK k \in 1..Len(stones) : stones[k] = j
    BY <1>4 DEF Contains
  <2>2. k # 1
    BY <2>1, <1>2, <1>4
  <2>3. k - 1 \in 1..(Len(stones) - 1) /\ k - 1 \in 1..Len(t) /\ t[k - 1] = stones[k]
    BY <2>2, <1>1, <1>3
  <2> QED BY <2>1, <2>3 DEF Contains
<1>5. Contains(t, i)
  BY <1>1, <1>3 DEF Contains
<1>6. Head(stones) \in Ids
  BY <1>1, <1>2
<1> QED BY <1>3, <1>4, <1>5, <1>6

LEMMA CancelKeeps ==
    ASSUME SideConstants, SideInv, NEW i \in Ids, Cancel(i)
    PROVE  SideInv'
<1> USE DEF desktopVars
<1>1. CASE i \in active
  <2>1. TypeOK'
    BY <1>1 DEF SideInv, TypeOK, Cancel
  <2>2. Registered'
    BY <1>1 DEF SideInv, TypeOK, Cancel, Registered
  <2>3. Remembered'
    BY <1>1 DEF SideInv, TypeOK, Cancel, Remembered, Contains
  <2>4. Unsent'
    BY DEF SideInv, Unsent, Cancel
  <2> QED BY <2>1, <2>2, <2>3, <2>4 DEF SideInv
<1>2. CASE i \notin active /\ Contains(stones, i)
  <2>1. TypeOK'
    BY <1>2 DEF SideInv, TypeOK, Cancel
  <2>2. Registered'
    BY <1>2 DEF SideInv, TypeOK, Cancel, Registered
  <2>3. Remembered'
    BY <1>2 DEF SideInv, TypeOK, Cancel, Remembered, Contains
  <2>4. Unsent'
    BY DEF SideInv, Unsent, Cancel
  <2> QED BY <2>1, <2>2, <2>3, <2>4 DEF SideInv
<1>3. CASE i \notin active /\ ~Contains(stones, i) /\ Len(stones) = MaxGenerations
  <2>1. /\ stones' = Append(Tail(stones), i) /\ forgotten' = forgotten \cup {Head(stones)}
        /\ heard' = heard \cup {i} /\ cancels' = cancels \ {i}
        /\ UNCHANGED <<desktopVars, flag, worker, active, outcome, replies>>
    BY <1>3 DEF Cancel
  <2>2. TypeOK'
    BY <1>3, <2>1, Entomb DEF SideInv, TypeOK
  <2>3. Registered'
    BY <2>1 DEF SideInv, Registered
  <2>4. Remembered'
    BY <1>3, <2>1, Entomb DEF SideInv, TypeOK, Remembered
  <2>5. Unsent'
    BY <2>1 DEF SideInv, Unsent
  <2> QED BY <2>2, <2>3, <2>4, <2>5 DEF SideInv
<1>4. CASE i \notin active /\ ~Contains(stones, i) /\ Len(stones) # MaxGenerations
  <2>1. /\ stones' = Append(stones, i) /\ forgotten' = forgotten
        /\ heard' = heard \cup {i} /\ cancels' = cancels \ {i}
        /\ UNCHANGED <<desktopVars, flag, worker, active, outcome, replies>>
    BY <1>4 DEF Cancel
  <2>2. /\ stones \in Seq(Ids) /\ Len(stones) \in Nat /\ Len(stones) < MaxGenerations
    BY <1>4 DEF SideInv, TypeOK, SideConstants
  <2>3. /\ stones' \in Seq(Ids) /\ Len(stones') = Len(stones) + 1
        /\ stones'[Len(stones) + 1] = i
        /\ \A k \in 1..Len(stones) : stones'[k] = stones[k]
    BY <2>1, <2>2
  <2>4. \A j : Contains(stones, j) => Contains(stones', j)
    BY <2>2, <2>3 DEF Contains
  <2>5. Contains(stones', i)
    BY <2>2, <2>3 DEF Contains
  <2>6. TypeOK'
    <3>1. Len(stones') <= MaxGenerations
      BY <2>2, <2>3 DEF SideConstants
    <3> QED BY <2>1, <2>3, <3>1 DEF SideInv, TypeOK
  <2>7. Registered'
    BY <2>1 DEF SideInv, Registered
  <2>8. Remembered'
    BY <1>4, <2>1, <2>4, <2>5 DEF SideInv, TypeOK, Remembered
  <2>9. Unsent'
    BY <2>1 DEF SideInv, Unsent
  <2> QED BY <2>6, <2>7, <2>8, <2>9 DEF SideInv
<1> QED BY <1>1, <1>2, <1>3, <1>4

LEMMA RefuseKeeps ==
    ASSUME SideConstants, SideInv, NEW i \in Ids, Refuse(i)
    PROVE  SideInv'
<1> USE DEF Refuse, desktopVars, daemonVars
<1>1. TypeOK'
  BY DEF SideConstants, SideInv, TypeOK
<1>2. Registered'
  BY DEF SideInv, TypeOK, Registered, Unsent
<1>3. Remembered'
  BY DEF SideInv, TypeOK, Registered, Remembered, Unsent, Contains
<1>4. Unsent'
  BY DEF SideInv, TypeOK, Unsent
<1> QED BY <1>1, <1>2, <1>3, <1>4 DEF SideInv

LEMMA RegisterKeeps ==
    ASSUME SideConstants, SideInv, NEW i \in Ids, Register(i)
    PROVE  SideInv'
<1> USE DEF Register, Refused, desktopVars, daemonVars
<1>1. TypeOK'
  BY Slots DEF SideConstants, SideInv, TypeOK
<1>2. Registered'
  BY DEF SideInv, TypeOK, Registered, Unsent
<1>3. Remembered'
  BY DEF SideInv, TypeOK, Registered, Remembered, Unsent, Contains
<1>4. Unsent'
  BY DEF SideInv, TypeOK, Unsent
<1> QED BY <1>1, <1>2, <1>3, <1>4 DEF SideInv

LEMMA LookUpFailsKeeps ==
    ASSUME SideConstants, SideInv, NEW i \in Ids, LookUpFails(i)
    PROVE  SideInv'
<1> USE DEF LookUpFails, Settle, Running, desktopVars, daemonVars
<1>1. TypeOK'
  BY DEF SideConstants, SideInv, TypeOK
<1>2. Registered'
  BY DEF SideInv, TypeOK, Registered, Unsent
<1>3. Remembered'
  BY DEF SideInv, TypeOK, Registered, Remembered, Unsent, Contains
<1>4. Unsent'
  BY DEF SideInv, TypeOK, Unsent
<1> QED BY <1>1, <1>2, <1>3, <1>4 DEF SideInv

LEMMA LookUpKeeps ==
    ASSUME SideConstants, SideInv, NEW i \in Ids, LookUp(i)
    PROVE  SideInv'
<1> USE DEF LookUp, Settle, Running, desktopVars, daemonVars
<1>1. TypeOK'
  BY DEF SideConstants, SideInv, TypeOK
<1>2. Registered'
  BY DEF SideInv, TypeOK, Registered, Unsent
<1>3. Remembered'
  BY DEF SideInv, TypeOK, Registered, Remembered, Unsent, Contains
<1>4. Unsent'
  BY DEF SideInv, TypeOK, Unsent
<1> QED BY <1>1, <1>2, <1>3, <1>4 DEF SideInv

LEMMA PostKeeps ==
    ASSUME SideConstants, SideInv, NEW i \in Ids, Post(i)
    PROVE  SideInv'
<1> USE DEF Post, Settle, Running, desktopVars, daemonVars
<1>1. TypeOK'
  BY DEF SideConstants, SideInv, TypeOK
<1>2. Registered'
  BY DEF SideInv, TypeOK, Registered, Unsent
<1>3. Remembered'
  BY DEF SideInv, TypeOK, Registered, Remembered, Unsent, Contains
<1>4. Unsent'
  BY DEF SideInv, TypeOK, Unsent
<1> QED BY <1>1, <1>2, <1>3, <1>4 DEF SideInv

LEMMA PostCancelledKeeps ==
    ASSUME SideConstants, SideInv, NEW i \in Ids, PostCancelled(i)
    PROVE  SideInv'
<1> USE DEF PostCancelled, Settle, Running, desktopVars, daemonVars
<1>1. TypeOK'
  BY DEF SideConstants, SideInv, TypeOK
<1>2. Registered'
  BY DEF SideInv, TypeOK, Registered, Unsent
<1>3. Remembered'
  BY DEF SideInv, TypeOK, Registered, Remembered, Unsent, Contains
<1>4. Unsent'
  BY DEF SideInv, TypeOK, Unsent
<1> QED BY <1>1, <1>2, <1>3, <1>4 DEF SideInv

LEMMA GeneratedKeeps ==
    ASSUME SideConstants, SideInv, NEW i \in Ids, Generated(i)
    PROVE  SideInv'
<1> USE DEF Generated, Settle, Running, desktopVars, daemonVars
<1>1. TypeOK'
  BY DEF SideConstants, SideInv, TypeOK
<1>2. Registered'
  BY DEF SideInv, TypeOK, Registered, Unsent
<1>3. Remembered'
  BY DEF SideInv, TypeOK, Registered, Remembered, Unsent, Contains
<1>4. Unsent'
  BY DEF SideInv, TypeOK, Unsent
<1> QED BY <1>1, <1>2, <1>3, <1>4 DEF SideInv

LEMMA AbandonedKeeps ==
    ASSUME SideConstants, SideInv, NEW i \in Ids, Abandoned(i)
    PROVE  SideInv'
<1> USE DEF Abandoned, Settle, Running, desktopVars, daemonVars
<1>1. TypeOK'
  BY DEF SideConstants, SideInv, TypeOK
<1>2. Registered'
  BY DEF SideInv, TypeOK, Registered, Unsent
<1>3. Remembered'
  BY DEF SideInv, TypeOK, Registered, Remembered, Unsent, Contains
<1>4. Unsent'
  BY DEF SideInv, TypeOK, Unsent
<1> QED BY <1>1, <1>2, <1>3, <1>4 DEF SideInv

LEMMA ReturnKeeps ==
    ASSUME SideConstants, SideInv, NEW i \in Ids, Return(i)
    PROVE  SideInv'
<1> USE DEF Return, desktopVars, daemonVars
<1>1. TypeOK'
  <2>1. worker' \in [Ids -> {"none", "called", "active", "checked", "posted", "over"}]
    BY DEF SideInv, TypeOK
  <2>2. outcome[i] \in {"text", "mismatch", "error"}
    BY DEF SideInv, TypeOK
  <2>3. replies' \subseteq Ids \X {"text", "mismatch", "error"}
    BY <2>2 DEF SideInv, TypeOK
  <2>4. Cardinality(active') <= MaxGenerations
    BY Slots, FS_Subset, FS_CardinalityType DEF SideConstants, SideInv, TypeOK
  <2> QED BY <2>1, <2>3, <2>4 DEF SideInv, TypeOK
<1>2. Registered'
  BY DEF SideInv, TypeOK, Registered, Unsent
<1>3. Remembered'
  BY DEF SideInv, TypeOK, Registered, Remembered, Unsent, Contains
<1>4. Unsent'
  BY DEF SideInv, TypeOK, Registered, Unsent
<1> QED BY <1>1, <1>2, <1>3, <1>4 DEF SideInv

LEMMA NextKeeps == ASSUME SideConstants, SideInv, [Next]_vars PROVE SideInv'
<1>1. ASSUME NEW s \in Sessions, CancelBtw(s) PROVE SideInv'
  BY <1>1, CancelBtwKeeps
<1>2. ASSUME NEW s \in Sessions, CloseCard(s) PROVE SideInv'
  BY <1>2, CloseCardKeeps
<1>3. ASSUME NEW s \in Sessions, NEW i \in Ids, AskBtw(s, i) PROVE SideInv'
  BY <1>3, AskBtwKeeps
<1>4. ASSUME NEW i \in Ids,
             SendQuestion(i) \/ SendFails(i) \/ Answered(i) \/ TimesOut(i) \/ Cancel(i) \/ CancelLost(i)
      PROVE  SideInv'
  BY <1>4, SendQuestionKeeps, SendFailsKeeps, AnsweredKeeps, TimesOutKeeps, CancelKeeps,
     CancelLostKeeps
<1>5. ASSUME NEW i \in Ids, Generate(i) PROVE SideInv'
  BY <1>5, RefuseKeeps, RegisterKeeps, LookUpKeeps, LookUpFailsKeeps, PostKeeps, PostCancelledKeeps,
     GeneratedKeeps, AbandonedKeeps, ReturnKeeps DEF Generate
<1>6. CASE UNCHANGED vars
  BY <1>6 DEF SideInv, TypeOK, Registered, Remembered, Unsent, Contains, vars, desktopVars, daemonVars
<1> QED BY <1>1, <1>2, <1>3, <1>4, <1>5, <1>6 DEF Next

\* Types and limits: the map and the tombstones never outgrow MAX_GENERATIONS.
THEOREM SideSafety == SideConstants => (Spec => []SideInv)
<1> SUFFICES ASSUME SideConstants PROVE Spec => []SideInv
  OBVIOUS
<1>1. Init => SideInv
  BY InitInv
<1>2. SideInv /\ [Next]_vars => SideInv'
  BY NextKeeps
<1> QED BY <1>1, <1>2, PTL DEF Spec

\* A card shows the answer to its own question (finish_btw), for any number
\* of sessions and questions.
THEOREM AnswersAreCurrent == SideConstants => (Spec => []AnswerIsCurrent)
<1> SUFFICES ASSUME SideConstants PROVE Spec => []AnswerIsCurrent
  OBVIOUS
<1>1. Init => AnswerIsCurrent
  BY InitInv
<1>2. ASSUME SideInv, AnswerIsCurrent, [Next]_vars PROVE AnswerIsCurrent'
  <2> USE <1>2 DEF SideInv, TypeOK, AnswerIsCurrent
  <2>1. ASSUME NEW s \in Sessions, CancelBtw(s) PROVE AnswerIsCurrent'
    BY <2>1 DEF CancelBtw
  <2>2. ASSUME NEW s \in Sessions, CloseCard(s) PROVE AnswerIsCurrent'
    BY <2>2 DEF CloseCard
  <2>3. ASSUME NEW s \in Sessions, NEW i \in Ids, AskBtw(s, i) PROVE AnswerIsCurrent'
    BY <2>3 DEF AskBtw
  <2>4. ASSUME NEW i \in Ids, NEW result, FinishBtw(i, result) PROVE AnswerIsCurrent'
    BY <2>4 DEF FinishBtw
  <2>5. ASSUME NEW i \in Ids, SendFails(i) \/ Answered(i) \/ TimesOut(i) PROVE AnswerIsCurrent'
    BY <2>5, <2>4 DEF SendFails, Answered, TimesOut
  <2>6. ASSUME NEW i \in Ids, SendQuestion(i) \/ Cancel(i) \/ CancelLost(i) \/ Generate(i)
        PROVE  AnswerIsCurrent'
    <3>1. UNCHANGED <<card, answer>>
      BY <2>6 DEF SendQuestion, Cancel, CancelLost, Generate, Refuse, Register, LookUp, LookUpFails,
         Post, PostCancelled, Generated, Abandoned, Return, Settle, desktopVars
    <3> QED BY <3>1
  <2>7. CASE UNCHANGED vars
    BY <2>7 DEF vars, desktopVars
  <2> QED BY <2>1, <2>2, <2>3, <2>5, <2>6, <2>7 DEF Next
<1> QED BY <1>1, <1>2, SideSafety, PTL DEF Spec

\* A generation whose cancel was handled sends no prompt, unless its tombstone
\* was evicted (SessionGenerations::cancel and generate).
THEOREM CancelsAreHeeded == SideConstants => (Spec => CancelIsHeeded)
<1> SUFFICES ASSUME SideConstants PROVE Spec => CancelIsHeeded
  OBVIOUS
<1> DEFINE A == \A i \in Ids : worker[i] # "posted" /\ worker'[i] = "posted"
                                  => i \notin heard \/ i \in forgotten
<1>1. ASSUME SideInv, [Next]_vars PROVE [A]_vars
  <2>1. ASSUME Next, NEW i \in Ids, worker[i] # "posted", worker'[i] = "posted"
        PROVE  i \notin heard \/ i \in forgotten
    <3>1. Post(i)
      BY <2>1, <1>1 DEF SideInv, TypeOK, Next, CancelBtw, CloseCard, AskBtw, SendQuestion, SendFails,
         Answered, TimesOut, FinishBtw, Cancel, CancelLost, Generate, Refuse, Register, LookUp,
         LookUpFails, Post, PostCancelled, Generated, Abandoned, Return, Settle, Running,
         daemonVars, desktopVars
    <3>2. worker[i] = "checked" /\ i \notin flag
      BY <3>1 DEF Post, Running
    <3>3. i \in active
      BY <3>2, <1>1 DEF SideInv, Registered
    <3> QED BY <3>2, <3>3, <1>1 DEF SideInv, Remembered
  <2> QED BY <2>1, <1>1
<1> QED BY <1>1, SideSafety, PTL DEF Spec, CancelIsHeeded
===============================================================================
