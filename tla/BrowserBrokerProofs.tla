-------------------------- MODULE BrowserBrokerProofs --------------------------
(***************************************************************************)
(* Safety of BrowserBroker for any connections, pages, calls and limits.   *)
(***************************************************************************)
EXTENDS BrowserBroker, FiniteSetTheorems, SequenceTheorems, TLAPS

-------------------------------------------------------------------------------
(***************************************************************************)
(* Finite sets, and the stops of one operation.                            *)
(***************************************************************************)
LEMMA Finite ==
    ASSUME BrokerConstants
    PROVE  IsFiniteSet(Calls) /\ IsFiniteSet(Rpcs)
<1>1. IsFiniteSet(Calls)
  BY DEF BrokerConstants
<1> DEFINE f == [w \in Calls |-> Rpc[w]]
<1>2. f \in Surjection(Calls, Rpcs)
  BY DEF Surjection, Rpcs
<1>3. IsFiniteSet(Rpcs)
  BY <1>1, <1>2, FS_Surjection
<1> QED BY <1>1, <1>3

\* A set of ids below its limit has room for one more.
LEMMA Room ==
    ASSUME BrokerConstants, NEW S \in SUBSET Rpcs, NEW x, NEW max \in Nat, Cardinality(S) < max
    PROVE  Cardinality(S \cup {x}) <= max
<1>1. IsFiniteSet(S)
  BY Finite, FS_Subset
<1>2. Cardinality(S) \in Nat
  BY <1>1, FS_CardinalityType
<1> QED BY <1>1, <1>2, FS_AddElement

LEMMA OrderOf ==
    ASSUME NEW S, IsFiniteSet(S)
    PROVE  /\ Cardinality(S) \in Nat
           /\ Order(S) \in [1..Cardinality(S) -> S]
           /\ \A x \in S : \E i \in 1..Cardinality(S) : Order(S)[i] = x
<1> DEFINE n == Cardinality(S)
           D == [1..n -> S]
           P(q) == \A i, j \in 1..n : q[i] = q[j] => i = j
<1>1. n \in Nat /\ ExistsBijection(1..n, S)
  BY FS_CardinalityType
<1>2. \E q \in D : P(q)
  BY <1>1 DEF ExistsBijection, Bijection, Injection, IsInjective
<1>3. Order(S) = CHOOSE q \in D : P(q)
  BY DEF Order
<1> HIDE DEF D, P
<1>4. Order(S) \in D /\ P(Order(S))
  BY <1>2, <1>3, Zenon
<1> USE DEF D, P
<1>5. Order(S) \in Injection(1..n, S)
  BY <1>4 DEF Injection, IsInjective
<1>6. Cardinality(1..n) = n
  BY <1>1, FS_Interval
<1>7. Order(S) \in Surjection(1..n, S)
  BY <1>5, <1>6, FS_Injection
<1> QED BY <1>1, <1>4, <1>7 DEF Surjection

LEMMA StopsOf ==
    ASSUME BrokerConstants, NEW g \in Guis, NEW gone \in SUBSET Calls
    PROVE  /\ Stops(g, gone) \in Seq(Calls \X {"act", "stop"})
           /\ \A i \in 1..Len(Stops(g, gone)) :
                 \E w \in gone : owner[w] = g /\ Stops(g, gone)[i] = <<w, "stop">>
           /\ \A w \in gone : owner[w] = g =>
                 \E i \in 1..Len(Stops(g, gone)) : Stops(g, gone)[i] = <<w, "stop">>
<1> DEFINE S == {w \in gone : owner[w] = g}
           n == Cardinality(S)
           q == Order(S)
<1>1. IsFiniteSet(S)
  BY Finite, FS_Subset
<1>2. n \in Nat /\ q \in [1..n -> S] /\ \A x \in S : \E i \in 1..n : q[i] = x
  BY <1>1, OrderOf
<1>3. Stops(g, gone) = [i \in DOMAIN q |-> <<q[i], "stop">>]
  BY DEF Stops
<1> HIDE DEF n, q
<1>4. Stops(g, gone) = [i \in 1..n |-> <<q[i], "stop">>]
  BY <1>2, <1>3
<1>5. \A i \in 1..n : <<q[i], "stop">> \in Calls \X {"act", "stop"}
  BY <1>2
<1>6. Stops(g, gone) \in [1..n -> Calls \X {"act", "stop"}]
  BY <1>4, <1>5
<1>7. Stops(g, gone) \in Seq(Calls \X {"act", "stop"}) /\ Len(Stops(g, gone)) = n
  BY <1>2, <1>6
<1> QED BY <1>2, <1>4, <1>7

\* Tell adds stops for the owners that are connected.
LEMMA Told ==
    ASSUME BrokerConstants, BrokerInv, NEW gone \in SUBSET Calls, Tell(gone), NEW g \in Guis
    PROVE  /\ inbox'[g] \in Seq(Calls \X {"act", "stop"})
           /\ inbox[g] \in Seq(Calls \X {"act", "stop"})
           /\ Len(inbox[g]) <= Len(inbox'[g])
           /\ \A i \in 1..Len(inbox[g]) : inbox'[g][i] = inbox[g][i]
           /\ \A i \in 1..Len(inbox'[g]) : i > Len(inbox[g]) =>
                 \E w \in gone : owner[w] = g /\ inbox'[g][i] = <<w, "stop">>
           /\ g \in connected => \A w \in gone : owner[w] = g =>
                 \E i \in 1..Len(inbox'[g]) : inbox'[g][i] = <<w, "stop">>
<1> DEFINE s == inbox[g]
           t == Stops(g, gone)
<1>1. s \in Seq(Calls \X {"act", "stop"})
  BY DEF BrokerInv, TypeOK
<1>2. inbox'[g] = IF g \in connected THEN s \o t ELSE s
  BY DEF Tell
<1>3. /\ t \in Seq(Calls \X {"act", "stop"})
      /\ \A i \in 1..Len(t) : \E w \in gone : owner[w] = g /\ t[i] = <<w, "stop">>
      /\ \A w \in gone : owner[w] = g => \E i \in 1..Len(t) : t[i] = <<w, "stop">>
  BY StopsOf
<1>4. Len(s) \in Nat /\ Len(t) \in Nat
  BY <1>1, <1>3
<1> HIDE DEF s, t
<1>5. CASE g \notin connected
  BY <1>1, <1>2, <1>4, <1>5 DEF s
<1>6. CASE g \in connected
  <2>1. /\ s \o t \in Seq(Calls \X {"act", "stop"})
        /\ Len(s \o t) = Len(s) + Len(t)
        /\ \A i \in 1..Len(s) + Len(t) : (s \o t)[i] = IF i <= Len(s) THEN s[i] ELSE t[i - Len(s)]
    BY <1>1, <1>3, ConcatProperties
  <2>2. inbox'[g] = s \o t /\ inbox[g] = s
    BY <1>2, <1>6 DEF s
  <2>3. \A i \in 1..Len(s) : (s \o t)[i] = s[i]
    BY <2>1, <1>4
  <2>4. ASSUME NEW i \in 1..Len(s \o t), i > Len(s)
        PROVE  \E w \in gone : owner[w] = g /\ (s \o t)[i] = <<w, "stop">>
    <3>1. i - Len(s) \in 1..Len(t) /\ (s \o t)[i] = t[i - Len(s)]
      BY <2>1, <2>4, <1>4
    <3> QED BY <3>1, <1>3
  <2>5. ASSUME NEW w \in gone, owner[w] = g
        PROVE  \E i \in 1..Len(s \o t) : (s \o t)[i] = <<w, "stop">>
    <3>1. PICK i \in 1..Len(t) : t[i] = <<w, "stop">>
      BY <2>5, <1>3
    <3>2. Len(s) + i \in 1..Len(s \o t) /\ (s \o t)[Len(s) + i] = t[i]
      BY <2>1, <1>4
    <3> QED BY <3>1, <3>2
  <2>6. Len(s) <= Len(s \o t)
    BY <2>1, <1>4
  <2> DEFINE u == s \o t
  <2>7. /\ u \in Seq(Calls \X {"act", "stop"}) /\ Len(s) <= Len(u)
        /\ \A i \in 1..Len(s) : u[i] = s[i]
        /\ \A i \in 1..Len(u) : i > Len(s) => \E w \in gone : owner[w] = g /\ u[i] = <<w, "stop">>
        /\ \A w \in gone : owner[w] = g => \E i \in 1..Len(u) : u[i] = <<w, "stop">>
    BY <2>1, <2>3, <2>4, <2>5, <2>6
  <2>8. inbox'[g] = u
    BY <2>2
  <2> HIDE DEF u
  <2> QED BY <1>1, <2>2, <2>7, <2>8
<1> QED BY <1>5, <1>6

LEMMA ToldMessages ==
    ASSUME BrokerConstants, BrokerInv, NEW gone \in SUBSET Calls, Tell(gone),
           NEW g \in Guis, NEW w \in Calls
    PROVE  /\ <<w, "act">> \in Messages(g)' => <<w, "act">> \in Messages(g)
           /\ <<w, "stop">> \in Messages(g) => <<w, "stop">> \in Messages(g)'
           /\ g \in connected /\ w \in gone /\ owner[w] = g => <<w, "stop">> \in Messages(g)'
<1>1. /\ Len(inbox[g]) \in Nat /\ Len(inbox'[g]) \in Nat
      /\ Len(inbox[g]) <= Len(inbox'[g])
      /\ \A i \in 1..Len(inbox[g]) : inbox'[g][i] = inbox[g][i]
      /\ \A i \in 1..Len(inbox'[g]) : i > Len(inbox[g]) =>
            \E v \in gone : owner[v] = g /\ inbox'[g][i] = <<v, "stop">>
      /\ g \in connected => \A v \in gone : owner[v] = g =>
            \E i \in 1..Len(inbox'[g]) : inbox'[g][i] = <<v, "stop">>
  BY Told
<1>2. \A m : m \in Messages(g) <=> \E i \in 1..Len(inbox[g]) : inbox[g][i] = m
  BY DEF Messages
<1>3. \A m : m \in Messages(g)' <=> \E i \in 1..Len(inbox'[g]) : inbox'[g][i] = m
  BY DEF Messages
<1>4. ASSUME <<w, "act">> \in Messages(g)' PROVE <<w, "act">> \in Messages(g)
  <2>1. PICK i \in 1..Len(inbox'[g]) : inbox'[g][i] = <<w, "act">>
    BY <1>3, <1>4
  <2>2. i <= Len(inbox[g])
    BY <1>1, <2>1
  <2>3. i \in 1..Len(inbox[g]) /\ inbox[g][i] = <<w, "act">>
    BY <1>1, <2>1, <2>2
  <2> QED BY <1>2, <2>3
<1>5. ASSUME <<w, "stop">> \in Messages(g) PROVE <<w, "stop">> \in Messages(g)'
  <2>1. PICK i \in 1..Len(inbox[g]) : inbox[g][i] = <<w, "stop">>
    BY <1>2, <1>5
  <2>2. i \in 1..Len(inbox'[g]) /\ inbox'[g][i] = <<w, "stop">>
    BY <1>1, <2>1
  <2> QED BY <1>3, <2>2
<1>6. g \in connected /\ w \in gone /\ owner[w] = g => <<w, "stop">> \in Messages(g)'
  BY <1>1, <1>3
<1> QED BY <1>4, <1>5, <1>6

\* Requests that are failed are stopped, unless their owner is gone as well.
LEMMA TellKeeps ==
    ASSUME BrokerConstants, BrokerInv, NEW gone \in SUBSET Calls, Tell(gone),
           NEW failed \in SUBSET Calls, pending' = pending \ failed,
           connected' \subseteq connected,
           \A w \in failed : w \in gone \/ owner[w] \notin connected',
           UNCHANGED <<acting, replies, owner>>
    PROVE  /\ inbox' \in [Guis -> Seq(Calls \X {"act", "stop"})]
           /\ Mail' /\ NothingRunsUnobserved'
<1>1. inbox' \in [Guis -> Seq(Calls \X {"act", "stop"})]
  BY Told DEF Tell
<1>2. Mail'
  <2>1. ASSUME NEW g \in Guis, NEW i \in 1..Len(inbox'[g])
        PROVE  /\ owner[inbox'[g][i][1]] = g
               /\ \A j \in 1..Len(inbox'[g]) :
                     i < j /\ inbox'[g][i][1] = inbox'[g][j][1] => inbox'[g][j][2] = "stop"
    <3>1. /\ Len(inbox[g]) \in Nat /\ Len(inbox'[g]) \in Nat
          /\ Len(inbox[g]) <= Len(inbox'[g])
          /\ \A k \in 1..Len(inbox[g]) : inbox'[g][k] = inbox[g][k]
          /\ \A k \in 1..Len(inbox'[g]) : k > Len(inbox[g]) =>
                \E w \in gone : owner[w] = g /\ inbox'[g][k] = <<w, "stop">>
      BY Told
    <3>2. owner[inbox'[g][i][1]] = g
      <4>1. CASE i <= Len(inbox[g])
        BY <4>1, <3>1 DEF BrokerInv, Mail
      <4>2. CASE i > Len(inbox[g])
        BY <4>2, <3>1
      <4> QED BY <4>1, <4>2, <3>1
    <3>3. ASSUME NEW j \in 1..Len(inbox'[g]), i < j, inbox'[g][i][1] = inbox'[g][j][1]
          PROVE  inbox'[g][j][2] = "stop"
      <4>1. CASE j <= Len(inbox[g])
        <5>1. i \in 1..Len(inbox[g]) /\ j \in 1..Len(inbox[g])
          BY <4>1, <3>1, <3>3
        <5> QED BY <5>1, <3>1, <3>3 DEF BrokerInv, Mail
      <4>2. CASE j > Len(inbox[g])
        BY <4>2, <3>1
      <4> QED BY <4>1, <4>2, <3>1
    <3> QED BY <3>2, <3>3
  <2>2. ASSUME NEW g \in Guis, NEW w \in acting[g]
        PROVE  owner[w] = g /\ w \notin replies /\ <<w, "act">> \notin Messages(g)'
    <3>1. w \in Calls
      BY DEF BrokerInv, TypeOK
    <3> QED BY <3>1, ToldMessages DEF BrokerInv, Mail
  <2>3. ASSUME NEW w \in replies
        PROVE  Asked(w) /\ <<w, "act">> \notin Messages(owner[w])'
    <3>1. w \in Calls /\ Asked(w) /\ owner[w] \in Guis
      BY DEF BrokerInv, TypeOK, Mail, Asked
    <3>2. \A g \in Guis : <<w, "act">> \in Messages(g)' => <<w, "act">> \in Messages(g)
      BY <3>1, ToldMessages
    <3>3. <<w, "act">> \notin Messages(owner[w])
      BY DEF BrokerInv, Mail
    <3> QED BY <3>1, <3>2, <3>3
  <2> QED BY <2>1, <2>2, <2>3 DEF Mail, Messages, Asked
<1>3. NothingRunsUnobserved'
  <2> SUFFICES ASSUME NEW g \in Guis \cap connected', NEW w \in Calls,
                      w \in acting[g] \/ <<w, "act">> \in Messages(g)'
               PROVE  w \in pending' \/ <<w, "stop">> \in Messages(g)'
    BY DEF NothingRunsUnobserved, Messages
  <2>1. w \in acting[g] \/ <<w, "act">> \in Messages(g)
    BY ToldMessages
  <2>2. w \in pending \/ <<w, "stop">> \in Messages(g)
    BY <2>1 DEF BrokerInv, NothingRunsUnobserved
  <2>3. owner[w] = g
    BY <2>1 DEF BrokerInv, Mail, Messages
  <2> QED BY <2>2, <2>3, ToldMessages
<1> QED BY <1>1, <1>2, <1>3

-------------------------------------------------------------------------------
(***************************************************************************)
(* Failing requests, and steps that leave parts of the state alone.        *)
(***************************************************************************)
LEMMA FailWaits ==
    ASSUME BrokerConstants, BrokerInv, NEW gone \in SUBSET pending, Fail(gone), UNCHANGED owner
    PROVE  /\ call' \in [Calls -> {"unsent", "sent", "waiting", "done"}]
           /\ pending' \in SUBSET Calls /\ Cardinality(pending') <= MaxPending
           /\ Waits' /\ RunsOnce'
<1>1. pending \in SUBSET Calls /\ call \in [Calls -> {"unsent", "sent", "waiting", "done"}]
  BY DEF BrokerInv, TypeOK
<1>2. call' \in [Calls -> {"unsent", "sent", "waiting", "done"}]
  BY <1>1 DEF Fail
<1>3. Cardinality(pending') <= MaxPending
  <2>1. IsFiniteSet(pending) /\ pending' \subseteq pending
    BY <1>1, Finite, FS_Subset DEF Fail
  <2>2. IsFiniteSet(pending') /\ Cardinality(pending') <= Cardinality(pending)
    BY <2>1, FS_Subset
  <2>3. Cardinality(pending') \in Nat /\ Cardinality(pending) \in Nat
    BY <2>1, <2>2, FS_CardinalityType
  <2> QED BY <2>2, <2>3 DEF BrokerInv, TypeOK, Limits, BrokerConstants
<1>4. Waits'
  BY <1>1 DEF BrokerInv, Waits, Fail, Asked
<1>5. RunsOnce'
  BY DEF BrokerInv, RunsOnce, Asked
<1> QED BY <1>1, <1>2, <1>3, <1>4, <1>5 DEF Fail

LEMMA FailBarred ==
    ASSUME BrokerConstants, BrokerInv, NEW gone \in SUBSET pending, Fail(gone),
           UNCHANGED <<owner, cancelled>>, connected' \subseteq connected,
           \A k \in Callers \cap connected' : spent'[k] = spent[k] /\ stones'[k] = stones[k]
    PROVE  CancelledNeverRuns' /\ Barred'
<1>1. CancelledNeverRuns'
  BY DEF BrokerInv, CancelledNeverRuns, Fail
<1>2. Barred'
  <2> SUFFICES ASSUME NEW w \in Calls, Caller[w] \in connected'
               PROVE  /\ Asked(w) => Rpc[w] \in spent'[Caller[w]]
                      /\ w \in cancelled /\ call'[w] \in {"unsent", "sent"}
                            => Rpc[w] \in spent'[Caller[w]] \cup stones'[Caller[w]]
    BY DEF Barred, Asked
  <2>1. Caller[w] \in Callers \cap connected' /\ Caller[w] \in connected
    BY DEF BrokerConstants
  <2>2. call'[w] \in {"unsent", "sent"} => call[w] \in {"unsent", "sent"}
    BY DEF Fail
  <2> QED BY <2>1, <2>2 DEF BrokerInv, Barred
<1> QED BY <1>1, <1>2

LEMMA CoverKept ==
    ASSUME BrokerInv, pending' \subseteq pending,
           UNCHANGED <<connected, published, host, hostPage, owner, page>>
    PROVE  PendingIsCovered'
BY DEF BrokerInv, PendingIsCovered, Routed

LEMMA MailKept ==
    ASSUME BrokerInv, UNCHANGED <<connected, guiVars, owner, pending>>
    PROVE  Mail' /\ NothingRunsUnobserved'
<1>1. \A g \in Guis : Messages(g)' = Messages(g)
  BY DEF Messages, guiVars
<1>2. Mail'
  <2>1. UNCHANGED <<inbox, acting, replies, owner>>
    BY DEF guiVars
  <2>2. Mail
    BY DEF BrokerInv
  <2> QED BY <2>1, <2>2 DEF Mail, Messages, Asked
<1>3. NothingRunsUnobserved'
  BY <1>1 DEF BrokerInv, NothingRunsUnobserved, guiVars
<1> QED BY <1>2, <1>3

LEMMA RequestsKept ==
    ASSUME BrokerInv, UNCHANGED <<connected, spent, stones, pending, callVars>>
    PROVE  Waits' /\ CancelledNeverRuns' /\ RunsOnce' /\ Barred'
BY DEF BrokerInv, Waits, CancelledNeverRuns, RunsOnce, Barred, Asked, callVars

LEMMA InitInv == ASSUME BrokerConstants, Init PROVE BrokerInv
<1>1. Cardinality({}) = 0
  BY FS_EmptySet
<1>2. TypeOK
  <2>1. /\ connected \subseteq Connections /\ published \in [Guis -> SUBSET Pages]
        /\ spent \in [Callers -> SUBSET Rpcs] /\ stones \in [Callers -> SUBSET Rpcs]
        /\ call \in [Calls -> {"unsent", "sent", "waiting", "done"}]
        /\ owner \in [Calls -> Guis \cup {None}]
        /\ page \in [Calls -> Pages \cup Launchers \cup {None}]
        /\ acting \in [Guis -> SUBSET Calls]
    BY DEF Init
  <2>2. inbox \in [Guis -> Seq(Calls \X {"act", "stop"})]
    BY DEF Init
  <2>3. Limits
    BY <1>1 DEF Init, Limits, BrokerConstants
  <2>4. /\ host \in Guis \cup {None} /\ hostPage \in Launchers \cup {None}
        /\ pending \subseteq Calls /\ replies \subseteq Calls /\ cancelled \subseteq Calls
        /\ changes \in Nat
    BY DEF Init
  <2> QED BY <2>1, <2>2, <2>3, <2>4 DEF TypeOK
<1>3. Waits /\ PendingIsCovered /\ CancelledNeverRuns /\ RunsOnce /\ Barred
  BY DEF Init, Waits, PendingIsCovered, CancelledNeverRuns, RunsOnce, Barred, Asked
<1>4. Mail /\ NothingRunsUnobserved
  BY DEF Init, Mail, NothingRunsUnobserved, Messages
<1> QED BY <1>2, <1>3, <1>4 DEF BrokerInv

-------------------------------------------------------------------------------
(***************************************************************************)
(* Every action keeps the invariant.                                       *)
(***************************************************************************)
LEMMA PublishKeeps ==
    ASSUME BrokerConstants, BrokerInv, NEW g \in Guis, NEW pages \in SUBSET Pages, Publish(g, pages)
    PROVE  BrokerInv'
<1> DEFINE gone == {w \in pending : owner[w] = g
                       /\ page[w] \notin pages \cup (IF host = g THEN {hostPage} ELSE {})}
<1>1. gone \in SUBSET pending /\ gone \in SUBSET Calls
  BY DEF BrokerInv, TypeOK
<1>2. Tell(gone) /\ Fail(gone)
  BY DEF Publish
<1>3. UNCHANGED <<connected, spent, stones, acting, replies, owner, page, cancelled>>
  BY DEF Publish
<1> HIDE DEF gone
<1>4. pending' = pending \ gone
  BY <1>2 DEF Fail
<1>5. inbox' \in [Guis -> Seq(Calls \X {"act", "stop"})] /\ Mail' /\ NothingRunsUnobserved'
  BY <1>1, <1>2, <1>3, <1>4, TellKeeps
<1>6. /\ call' \in [Calls -> {"unsent", "sent", "waiting", "done"}]
      /\ pending' \in SUBSET Calls /\ Cardinality(pending') <= MaxPending
      /\ Waits' /\ RunsOnce'
  BY <1>1, <1>2, <1>3, FailWaits
<1>7. CancelledNeverRuns' /\ Barred'
  BY <1>1, <1>2, <1>3, FailBarred
<1>8. Limits'
  BY <1>3, <1>6 DEF BrokerInv, TypeOK, Limits
<1>9. TypeOK'
  <2>1. /\ published' \in [Guis -> SUBSET Pages] /\ host' \in Guis \cup {None}
        /\ hostPage' \in Launchers \cup {None} /\ changes' \in Nat
    BY DEF Publish, BrokerConstants, BrokerInv, TypeOK, Change
  <2> QED BY <1>3, <1>5, <1>6, <1>8, <2>1 DEF BrokerInv, TypeOK
<1>10. PendingIsCovered'
  <2> SUFFICES ASSUME NEW w \in pending, w \notin gone
               PROVE  /\ owner[w] \in connected /\ Caller[w] \in connected
                      /\ Routed(w, owner[w], page[w])'
    BY <1>3, <1>4 DEF PendingIsCovered, Routed
  <2>1. /\ owner[w] \in connected /\ Caller[w] \in connected
        /\ Routed(w, owner[w], page[w]) /\ w \in Calls
    BY DEF BrokerInv, PendingIsCovered, TypeOK
  <2>2. host' = host /\ hostPage' = hostPage /\ published' = [published EXCEPT ![g] = pages]
    BY DEF Publish
  <2>3. owner[w] \in Guis /\ page[w] \in Pages \cup Launchers \cup {None}
    BY <2>1 DEF BrokerInv, TypeOK, BrokerConstants, Connections
  <2>4. CASE w \in Opens
    BY <1>3, <2>1, <2>2, <2>4 DEF Routed
  <2>5. CASE w \notin Opens
    <3>1. page[w] \in published[owner[w]]
      BY <2>1, <2>5 DEF Routed
    <3>2. page[w] \in Pages /\ page[w] \notin Launchers \cup {None}
      BY <2>3, <3>1 DEF BrokerInv, TypeOK, BrokerConstants
    <3>3. hostPage \in Launchers \cup {None}
      BY DEF BrokerInv, TypeOK
    <3>4. owner[w] = g => page[w] \in pages
      BY <3>2, <3>3 DEF gone
    <3>5. page[w] \in published'[owner[w]]
      BY <2>2, <2>3, <3>1, <3>4 DEF BrokerInv, TypeOK
    <3> QED BY <1>3, <2>1, <2>5, <3>5 DEF Routed
  <2> QED BY <2>4, <2>5
<1> QED BY <1>5, <1>6, <1>7, <1>9, <1>10 DEF BrokerInv

LEMMA RegisterHostKeeps ==
    ASSUME BrokerConstants, BrokerInv, NEW g \in Guis, NEW p \in Launchers, RegisterHost(g, p)
    PROVE  BrokerInv'
<1> DEFINE gone == {w \in pending : w \in Opens /\ owner[w] = host /\ page[w] = hostPage
                       /\ (host # g \/ hostPage # p)}
<1>1. gone \in SUBSET pending /\ gone \in SUBSET Calls
  BY DEF BrokerInv, TypeOK
<1>2. Tell(gone) /\ Fail(gone)
  BY DEF RegisterHost
<1>3. UNCHANGED <<connected, spent, stones, acting, replies, owner, page, cancelled>>
  BY DEF RegisterHost
<1> HIDE DEF gone
<1>4. pending' = pending \ gone
  BY <1>2 DEF Fail
<1>5. inbox' \in [Guis -> Seq(Calls \X {"act", "stop"})] /\ Mail' /\ NothingRunsUnobserved'
  BY <1>1, <1>2, <1>3, <1>4, TellKeeps
<1>6. /\ call' \in [Calls -> {"unsent", "sent", "waiting", "done"}]
      /\ pending' \in SUBSET Calls /\ Cardinality(pending') <= MaxPending
      /\ Waits' /\ RunsOnce'
  BY <1>1, <1>2, <1>3, FailWaits
<1>7. CancelledNeverRuns' /\ Barred'
  BY <1>1, <1>2, <1>3, FailBarred
<1>8. Limits'
  BY <1>3, <1>6 DEF BrokerInv, TypeOK, Limits
<1>9. TypeOK'
  <2>1. /\ published' \in [Guis -> SUBSET Pages] /\ host' \in Guis \cup {None}
        /\ hostPage' \in Launchers \cup {None} /\ changes' \in Nat
    BY DEF RegisterHost, BrokerConstants, BrokerInv, TypeOK, Change
  <2> QED BY <1>3, <1>5, <1>6, <1>8, <2>1 DEF BrokerInv, TypeOK
<1>10. PendingIsCovered'
  <2> SUFFICES ASSUME NEW w \in pending, w \notin gone
               PROVE  /\ owner[w] \in connected /\ Caller[w] \in connected
                      /\ Routed(w, owner[w], page[w])'
    BY <1>3, <1>4 DEF PendingIsCovered, Routed
  <2>1. /\ owner[w] \in connected /\ Caller[w] \in connected
        /\ Routed(w, owner[w], page[w])
    BY DEF BrokerInv, PendingIsCovered
  <2> QED BY <1>3, <2>1 DEF RegisterHost, Routed, gone
<1> QED BY <1>5, <1>6, <1>7, <1>9, <1>10 DEF BrokerInv

LEMMA UnregisterHostKeeps ==
    ASSUME BrokerConstants, BrokerInv, NEW g \in Guis, UnregisterHost(g)
    PROVE  BrokerInv'
<1> DEFINE gone == {w \in pending : w \in Opens /\ owner[w] = g /\ page[w] = hostPage}
<1>1. gone \in SUBSET pending /\ gone \in SUBSET Calls
  BY DEF BrokerInv, TypeOK
<1>2. Tell(gone) /\ Fail(gone)
  BY DEF UnregisterHost
<1>3. UNCHANGED <<connected, spent, stones, acting, replies, owner, page, cancelled>>
  BY DEF UnregisterHost
<1> HIDE DEF gone
<1>4. pending' = pending \ gone
  BY <1>2 DEF Fail
<1>5. inbox' \in [Guis -> Seq(Calls \X {"act", "stop"})] /\ Mail' /\ NothingRunsUnobserved'
  BY <1>1, <1>2, <1>3, <1>4, TellKeeps
<1>6. /\ call' \in [Calls -> {"unsent", "sent", "waiting", "done"}]
      /\ pending' \in SUBSET Calls /\ Cardinality(pending') <= MaxPending
      /\ Waits' /\ RunsOnce'
  BY <1>1, <1>2, <1>3, FailWaits
<1>7. CancelledNeverRuns' /\ Barred'
  BY <1>1, <1>2, <1>3, FailBarred
<1>8. Limits'
  BY <1>3, <1>6 DEF BrokerInv, TypeOK, Limits
<1>9. TypeOK'
  <2>1. /\ published' \in [Guis -> SUBSET Pages] /\ host' \in Guis \cup {None}
        /\ hostPage' \in Launchers \cup {None} /\ changes' \in Nat
    BY DEF UnregisterHost, BrokerConstants, BrokerInv, TypeOK, Change
  <2> QED BY <1>3, <1>5, <1>6, <1>8, <2>1 DEF BrokerInv, TypeOK
<1>10. PendingIsCovered'
  <2> SUFFICES ASSUME NEW w \in pending, w \notin gone
               PROVE  /\ owner[w] \in connected /\ Caller[w] \in connected
                      /\ Routed(w, owner[w], page[w])'
    BY <1>3, <1>4 DEF PendingIsCovered, Routed
  <2>1. /\ owner[w] \in connected /\ Caller[w] \in connected
        /\ Routed(w, owner[w], page[w])
    BY DEF BrokerInv, PendingIsCovered
  <2> QED BY <1>3, <2>1 DEF UnregisterHost, Routed, gone
<1> QED BY <1>5, <1>6, <1>7, <1>9, <1>10 DEF BrokerInv

LEMMA TimeoutKeeps ==
    ASSUME BrokerConstants, BrokerInv, NEW w \in Calls, Timeout(w)
    PROVE  BrokerInv'
<1> DEFINE gone == {w}
<1>1. gone \in SUBSET pending /\ gone \in SUBSET Calls
  BY DEF BrokerInv, Waits, Timeout
<1>2. Tell(gone) /\ Fail(gone)
  BY DEF Timeout
<1>3. UNCHANGED <<connected, spent, stones, acting, replies, owner, page, cancelled>>
  BY DEF Timeout
<1> HIDE DEF gone
<1>4. pending' = pending \ gone
  BY <1>2 DEF Fail
<1>5. inbox' \in [Guis -> Seq(Calls \X {"act", "stop"})] /\ Mail' /\ NothingRunsUnobserved'
  BY <1>1, <1>2, <1>3, <1>4, TellKeeps
<1>6. /\ call' \in [Calls -> {"unsent", "sent", "waiting", "done"}]
      /\ pending' \in SUBSET Calls /\ Cardinality(pending') <= MaxPending
      /\ Waits' /\ RunsOnce'
  BY <1>1, <1>2, <1>3, FailWaits
<1>7. CancelledNeverRuns' /\ Barred'
  BY <1>1, <1>2, <1>3, FailBarred
<1>8. Limits'
  BY <1>3, <1>6 DEF BrokerInv, TypeOK, Limits
<1>9. TypeOK'
  <2>1. /\ published' \in [Guis -> SUBSET Pages] /\ host' \in Guis \cup {None}
        /\ hostPage' \in Launchers \cup {None} /\ changes' \in Nat
    BY DEF Timeout, BrokerConstants, BrokerInv, TypeOK, Change
  <2> QED BY <1>3, <1>5, <1>6, <1>8, <2>1 DEF BrokerInv, TypeOK
<1>10. PendingIsCovered'
  BY <1>3, <1>4, CoverKept DEF Timeout
<1> QED BY <1>5, <1>6, <1>7, <1>9, <1>10 DEF BrokerInv

LEMMA CancelKeeps ==
    ASSUME BrokerConstants, BrokerInv, NEW w \in Calls, Cancel(w)
    PROVE  BrokerInv'
<1> DEFINE k == Caller[w]
           met == {v \in pending : Caller[v] = k /\ Rpc[v] = Rpc[w]}
<1>1. met \in SUBSET pending /\ met \in SUBSET Calls /\ k \in Callers
  BY DEF BrokerInv, TypeOK, BrokerConstants
<1>2. Tell(met) /\ Fail(met)
  BY DEF Cancel
<1>3. UNCHANGED <<connected, published, host, hostPage, spent, acting, replies, owner, page, changes>>
  BY DEF Cancel
<1>4. /\ k \in connected
      /\ met = {} => Cardinality(stones[k]) < MaxStones
      /\ stones' = IF met = {} THEN [stones EXCEPT ![k] = @ \cup {Rpc[w]}] ELSE stones
      /\ cancelled' = cancelled \cup {v \in Calls : Caller[v] = k /\ Rpc[v] = Rpc[w] /\ call[v] # "done"}
  BY DEF Cancel
<1>5. \A v \in pending : Caller[v] = k /\ Rpc[v] = Rpc[w] => v \in met
  OBVIOUS
<1>6. \A v \in met : v \in pending /\ Caller[v] = k /\ Rpc[v] = Rpc[w]
  OBVIOUS
<1> HIDE DEF met, k
<1>7. pending' = pending \ met
  BY <1>2 DEF Fail
<1>8. inbox' \in [Guis -> Seq(Calls \X {"act", "stop"})] /\ Mail' /\ NothingRunsUnobserved'
  BY <1>1, <1>2, <1>3, <1>7, TellKeeps
<1>9. /\ call' \in [Calls -> {"unsent", "sent", "waiting", "done"}]
      /\ pending' \in SUBSET Calls /\ Cardinality(pending') <= MaxPending
      /\ Waits' /\ RunsOnce'
  BY <1>1, <1>2, <1>3, FailWaits
<1>10. /\ stones' \in [Callers -> SUBSET Rpcs]
       /\ \A c \in Callers : stones[c] \subseteq stones'[c]
       /\ met = {} => Rpc[w] \in stones'[k]
       /\ \A c \in Callers : Cardinality(stones'[c]) <= MaxStones
  <2>1. stones \in [Callers -> SUBSET Rpcs] /\ Rpc[w] \in Rpcs
    BY DEF BrokerInv, TypeOK, Rpcs
  <2>2. \A c \in Callers : Cardinality(stones[c]) <= MaxStones
    BY DEF BrokerInv, TypeOK, Limits
  <2>3. CASE met # {}
    BY <1>4, <2>1, <2>2, <2>3
  <2>4. CASE met = {}
    <3>1. Cardinality(stones[k] \cup {Rpc[w]}) <= MaxStones
      BY <1>1, <1>4, <2>1, <2>4, Room DEF BrokerConstants
    <3>2. stones' = [stones EXCEPT ![k] = @ \cup {Rpc[w]}]
      BY <1>4, <2>4
    <3>3. stones' \in [Callers -> SUBSET Rpcs]
      BY <1>1, <2>1, <3>2
    <3>4. \A c \in Callers : stones'[c] = IF c = k THEN stones[k] \cup {Rpc[w]} ELSE stones[c]
      BY <1>1, <2>1, <3>2
    <3> QED BY <1>1, <2>2, <3>1, <3>3, <3>4
  <2> QED BY <2>3, <2>4
<1>11. TypeOK'
  <2>1. Limits'
    BY <1>3, <1>9, <1>10 DEF BrokerInv, TypeOK, Limits
  <2>2. cancelled' \subseteq Calls
    BY <1>4 DEF BrokerInv, TypeOK
  <2> QED BY <1>3, <1>8, <1>9, <1>10, <2>1, <2>2 DEF BrokerInv, TypeOK
<1>12. PendingIsCovered'
  BY <1>3, <1>7, CoverKept
<1>13. CancelledNeverRuns'
  BY <1>4, <1>5, <1>7 DEF BrokerInv, CancelledNeverRuns
<1>14. Barred'
  <2> SUFFICES ASSUME NEW v \in Calls, Caller[v] \in connected
               PROVE  /\ Asked(v) => Rpc[v] \in spent[Caller[v]]
                      /\ v \in cancelled' /\ call'[v] \in {"unsent", "sent"}
                            => Rpc[v] \in spent[Caller[v]] \cup stones'[Caller[v]]
    BY <1>3 DEF Barred, Asked
  <2>1. Asked(v) => Rpc[v] \in spent[Caller[v]]
    BY DEF BrokerInv, Barred
  <2>2. ASSUME v \in cancelled', call'[v] \in {"unsent", "sent"}
        PROVE  Rpc[v] \in spent[Caller[v]] \cup stones'[Caller[v]]
    <3>1. call[v] \in {"unsent", "sent"} /\ Caller[v] \in Callers
      BY <1>2, <2>2 DEF Fail, BrokerConstants
    <3>2. CASE v \in cancelled
      BY <1>10, <3>1, <3>2 DEF BrokerInv, Barred
    <3>3. CASE v \notin cancelled
      <4>1. Caller[v] = k /\ Rpc[v] = Rpc[w]
        BY <1>4, <2>2, <3>3
      <4>2. CASE met = {}
        BY <1>10, <4>1, <4>2
      <4>3. CASE met # {}
        <5>1. PICK u \in met : TRUE
          BY <4>3
        <5>2. u \in pending /\ u \in Calls /\ Caller[u] = k /\ Rpc[u] = Rpc[w]
          BY <1>1, <1>6, <5>1
        <5>3. Asked(u)
          BY <5>2 DEF BrokerInv, PendingIsCovered, TypeOK, BrokerConstants, Asked
        <5> QED BY <1>4, <4>1, <5>2, <5>3 DEF BrokerInv, Barred
      <4> QED BY <4>2, <4>3
    <3> QED BY <3>2, <3>3
  <2> QED BY <2>1, <2>2
<1> QED BY <1>8, <1>9, <1>11, <1>12, <1>13, <1>14 DEF BrokerInv

LEMMA SendKeeps ==
    ASSUME BrokerConstants, BrokerInv, NEW w \in Calls, Send(w)
    PROVE  BrokerInv'
<1>1. UNCHANGED <<connected, published, host, hostPage, spent, stones, pending, inbox, acting,
                  replies, owner, page, cancelled, changes>>
  BY DEF Send, brokerVars, guiVars
<1>2. call' = [call EXCEPT ![w] = "sent"] /\ call[w] = "unsent"
  BY DEF Send
<1>3. TypeOK'
  BY <1>1, <1>2 DEF BrokerInv, TypeOK, Limits
<1>4. Waits' /\ RunsOnce' /\ CancelledNeverRuns' /\ Barred'
  BY <1>1, <1>2 DEF BrokerInv, TypeOK, Waits, RunsOnce, CancelledNeverRuns, Barred, Asked
<1>5. Mail' /\ NothingRunsUnobserved'
  BY <1>1, MailKept DEF guiVars
<1>6. PendingIsCovered'
  BY <1>1, CoverKept
<1> QED BY <1>3, <1>4, <1>5, <1>6 DEF BrokerInv

LEMMA RefuseKeeps ==
    ASSUME BrokerConstants, BrokerInv, NEW w \in Calls, Refuse(w)
    PROVE  BrokerInv'
<1>1. UNCHANGED <<connected, published, host, hostPage, stones, pending, inbox, acting, replies,
                  owner, page, cancelled, changes>>
  BY DEF Refuse, guiVars
<1>2. call' = [call EXCEPT ![w] = "done"] /\ call[w] = "sent"
  BY DEF Refuse
<1>3. /\ spent' \in [Callers -> SUBSET Rpcs]
      /\ \A k \in Callers : spent[k] \subseteq spent'[k] /\ Cardinality(spent'[k]) <= MaxSpent
  <2>1. /\ spent \in [Callers -> SUBSET Rpcs] /\ Rpc[w] \in Rpcs /\ Caller[w] \in Callers
        /\ \A k \in Callers : Cardinality(spent[k]) <= MaxSpent
    BY DEF BrokerInv, TypeOK, Limits, Rpcs, BrokerConstants
  <2>2. CASE UNCHANGED spent
    BY <2>1, <2>2
  <2>3. CASE Spends(w) /\ spent' = [spent EXCEPT ![Caller[w]] = @ \cup {Rpc[w]}]
    <3>1. Cardinality(spent[Caller[w]] \cup {Rpc[w]}) <= MaxSpent
      BY <2>1, <2>3, Room DEF Spends, BrokerConstants
    <3>2. spent' \in [Callers -> SUBSET Rpcs]
      BY <2>1, <2>3
    <3>3. \A k \in Callers : spent'[k] = IF k = Caller[w] THEN spent[k] \cup {Rpc[w]} ELSE spent[k]
      BY <2>1, <2>3
    <3> QED BY <2>1, <3>1, <3>2, <3>3
  <2> QED BY <2>2, <2>3 DEF Refuse
<1>4. TypeOK'
  BY <1>1, <1>2, <1>3 DEF BrokerInv, TypeOK, Limits
<1>5. Waits' /\ RunsOnce' /\ CancelledNeverRuns'
  BY <1>1, <1>2 DEF BrokerInv, TypeOK, Waits, RunsOnce, CancelledNeverRuns, Asked
<1>6. Barred'
  BY <1>1, <1>2, <1>3 DEF BrokerInv, TypeOK, Barred, Asked, BrokerConstants
<1>7. Mail' /\ NothingRunsUnobserved'
  BY <1>1, MailKept DEF guiVars
<1>8. PendingIsCovered'
  BY <1>1, CoverKept
<1> QED BY <1>4, <1>5, <1>6, <1>7, <1>8 DEF BrokerInv

\* A request that is asked is new, and joins the mail of its page's owner.
LEMMA InvokeKeeps ==
    ASSUME BrokerConstants, BrokerInv, NEW w \in Calls, NEW g \in Guis,
           NEW p \in Pages \cup Launchers, Invoke(w, g, p)
    PROVE  BrokerInv'
<1>1. UNCHANGED <<connected, published, host, hostPage, stones, acting, replies, cancelled, changes>>
  BY DEF Invoke
<1>2. /\ call' = [call EXCEPT ![w] = "waiting"] /\ call[w] = "sent"
      /\ owner' = [owner EXCEPT ![w] = g] /\ page' = [page EXCEPT ![w] = p]
      /\ pending' = pending \cup {w}
      /\ inbox' = [inbox EXCEPT ![g] = Append(@, <<w, "act">>)]
      /\ spent' = [spent EXCEPT ![Caller[w]] = @ \cup {Rpc[w]}]
  BY DEF Invoke
<1>3. /\ Caller[w] \in connected /\ Rpc[w] \notin stones[Caller[w]]
      /\ Rpc[w] \notin spent[Caller[w]] /\ Cardinality(spent[Caller[w]]) < MaxSpent
      /\ g \in connected /\ Routed(w, g, p) /\ Cardinality(pending) < MaxPending
  BY DEF Invoke, Admits, Spends, Takes
<1>4. Caller[w] \in Callers /\ Rpc[w] \in Rpcs
  BY DEF BrokerConstants, Rpcs
<1>5. ~Asked(w) /\ w \notin cancelled /\ w \notin pending
  BY <1>2, <1>3 DEF BrokerInv, Barred, Waits
<1>6. g # None
  BY DEF BrokerConstants, Connections
<1>7. /\ owner \in [Calls -> Guis \cup {None}] /\ page \in [Calls -> Pages \cup Launchers \cup {None}]
      /\ call \in [Calls -> {"unsent", "sent", "waiting", "done"}] /\ pending \in SUBSET Calls
      /\ inbox \in [Guis -> Seq(Calls \X {"act", "stop"})] /\ spent \in [Callers -> SUBSET Rpcs]
      /\ acting \in [Guis -> SUBSET Calls] /\ replies \in SUBSET Calls
  BY DEF BrokerInv, TypeOK
<1>8. /\ \A v \in Calls : owner'[v] = IF v = w THEN g ELSE owner[v]
      /\ \A v \in Calls : page'[v] = IF v = w THEN p ELSE page[v]
      /\ \A v \in Calls : call'[v] = IF v = w THEN "waiting" ELSE call[v]
      /\ \A k \in Callers : spent'[k] = IF k = Caller[w] THEN spent[k] \cup {Rpc[w]} ELSE spent[k]
  BY <1>2, <1>4, <1>7
<1>9. TypeOK'
  <2>1. Limits'
    <3>1. Cardinality(spent[Caller[w]] \cup {Rpc[w]}) <= MaxSpent
      BY <1>3, <1>4, <1>7, Room DEF BrokerConstants
    <3>2. Cardinality(pending \cup {w}) <= MaxPending
      <4>1. IsFiniteSet(pending) /\ Cardinality(pending) \in Nat
        BY <1>7, Finite, FS_Subset, FS_CardinalityType
      <4>2. Cardinality(pending \cup {w}) = Cardinality(pending) + 1
        BY <1>5, <4>1, FS_AddElement
      <4> QED BY <1>3, <4>1, <4>2 DEF BrokerConstants
    <3> QED BY <1>1, <1>2, <1>8, <3>1, <3>2 DEF BrokerInv, TypeOK, Limits
  <2>2. <<w, "act">> \in Calls \X {"act", "stop"}
    OBVIOUS
  <2>3. inbox' \in [Guis -> Seq(Calls \X {"act", "stop"})]
    BY <1>2, <1>7, <2>2
  <2>4. /\ call' \in [Calls -> {"unsent", "sent", "waiting", "done"}]
        /\ owner' \in [Calls -> Guis \cup {None}]
        /\ page' \in [Calls -> Pages \cup Launchers \cup {None}]
        /\ spent' \in [Callers -> SUBSET Rpcs] /\ pending' \subseteq Calls
    BY <1>2, <1>4, <1>7
  <2> QED BY <1>1, <2>1, <2>3, <2>4 DEF BrokerInv, TypeOK
<1>10. Waits'
  BY <1>2, <1>7, <1>8 DEF BrokerInv, Waits, Asked
<1>11. CancelledNeverRuns'
  BY <1>1, <1>2, <1>5 DEF BrokerInv, CancelledNeverRuns
<1>12. RunsOnce'
  <2>1. \A v \in Calls : Asked(v) /\ Rpc[v] = Rpc[w] => Caller[v] # Caller[w]
    BY <1>3 DEF BrokerInv, Barred
  <2> QED BY <1>8, <2>1 DEF BrokerInv, RunsOnce, Asked
<1>13. Barred'
  <2> SUFFICES ASSUME NEW v \in Calls, Caller[v] \in connected
               PROVE  /\ owner'[v] # None => Rpc[v] \in spent'[Caller[v]]
                      /\ v \in cancelled /\ call'[v] \in {"unsent", "sent"}
                            => Rpc[v] \in spent'[Caller[v]] \cup stones[Caller[v]]
    BY <1>1 DEF Barred, Asked
  <2>1. Caller[v] \in Callers
    BY DEF BrokerConstants
  <2> QED BY <1>4, <1>8, <2>1 DEF BrokerInv, Barred, Asked
<1>14. PendingIsCovered'
  BY <1>1, <1>2, <1>3, <1>7, <1>8 DEF BrokerInv, PendingIsCovered, Routed
<1>15. \A h \in Guis : /\ Len(inbox[h]) \in Nat
                       /\ h # g => inbox'[h] = inbox[h]
                       /\ Len(inbox'[g]) = Len(inbox[g]) + 1
                       /\ \A i \in 1..Len(inbox[g]) : inbox'[g][i] = inbox[g][i]
                       /\ inbox'[g][Len(inbox[g]) + 1] = <<w, "act">>
  BY <1>2, <1>7
<1>16. \A h \in Guis : \A i \in 1..Len(inbox[h]) :
          inbox[h][i][1] # w /\ inbox[h][i][1] \in Calls /\ owner[inbox[h][i][1]] = h
  <2> SUFFICES ASSUME NEW h \in Guis, NEW i \in 1..Len(inbox[h])
               PROVE  inbox[h][i][1] # w /\ inbox[h][i][1] \in Calls /\ owner[inbox[h][i][1]] = h
    OBVIOUS
  <2>1. inbox[h][i] \in Calls \X {"act", "stop"}
    BY <1>7
  <2>2. inbox[h][i][1] \in Calls
    BY <2>1
  <2>3. owner[inbox[h][i][1]] = h
    BY DEF BrokerInv, Mail
  <2>4. h # None
    BY DEF BrokerConstants, Connections
  <2> QED BY <1>5, <2>2, <2>3, <2>4 DEF Asked
<1>17. \A h \in Guis, v \in Calls :
          /\ <<v, "act">> \in Messages(h)' => <<v, "act">> \in Messages(h) \/ (v = w /\ h = g)
          /\ <<v, "stop">> \in Messages(h) => <<v, "stop">> \in Messages(h)'
  <2> SUFFICES ASSUME NEW h \in Guis, NEW v \in Calls
               PROVE  /\ <<v, "act">> \in Messages(h)' => <<v, "act">> \in Messages(h) \/ (v = w /\ h = g)
                      /\ <<v, "stop">> \in Messages(h) => <<v, "stop">> \in Messages(h)'
    OBVIOUS
  <2>1. CASE h # g
    BY <1>15, <2>1 DEF Messages
  <2>2. CASE h = g
    <3>1. Messages(g)' = {inbox'[g][i] : i \in 1..Len(inbox[g]) + 1}
      BY <1>15 DEF Messages
    <3>2. ASSUME <<v, "act">> \in Messages(g)' PROVE <<v, "act">> \in Messages(g) \/ v = w
      <4>1. PICK i \in 1..Len(inbox[g]) + 1 : inbox'[g][i] = <<v, "act">>
        BY <3>1, <3>2
      <4>2. CASE i \in 1..Len(inbox[g])
        BY <1>15, <4>1, <4>2 DEF Messages
      <4>3. CASE i = Len(inbox[g]) + 1
        BY <1>15, <4>1, <4>3
      <4> QED BY <1>15, <4>1, <4>2, <4>3
    <3>3. ASSUME <<v, "stop">> \in Messages(g) PROVE <<v, "stop">> \in Messages(g)'
      <4>1. PICK i \in 1..Len(inbox[g]) : inbox[g][i] = <<v, "stop">>
        BY <3>3 DEF Messages
      <4>2. i \in 1..Len(inbox[g]) + 1 /\ inbox'[g][i] = <<v, "stop">>
        BY <1>15, <4>1
      <4> QED BY <3>1, <4>2
    <3> QED BY <2>2, <3>2, <3>3
  <2> QED BY <2>1, <2>2
<1>18. Mail'
  <2>1. ASSUME NEW h \in Guis, NEW i \in 1..Len(inbox'[h])
        PROVE  /\ owner'[inbox'[h][i][1]] = h
               /\ \A j \in 1..Len(inbox'[h]) :
                     i < j /\ inbox'[h][i][1] = inbox'[h][j][1] => inbox'[h][j][2] = "stop"
    <3>1. CASE h # g
      <4>1. inbox'[h] = inbox[h]
        BY <1>15, <3>1
      <4> QED BY <1>8, <1>16, <4>1 DEF BrokerInv, Mail
    <3>2. CASE h = g
      <4>1. CASE i \in 1..Len(inbox[g])
        <5>1. inbox'[g][i] = inbox[g][i] /\ owner'[inbox'[g][i][1]] = g
          BY <1>8, <1>15, <1>16, <4>1
        <5>2. ASSUME NEW j \in 1..Len(inbox'[g]), i < j, inbox'[g][i][1] = inbox'[g][j][1]
              PROVE  inbox'[g][j][2] = "stop"
          <6>1. CASE j \in 1..Len(inbox[g])
            BY <1>15, <4>1, <5>1, <5>2, <6>1 DEF BrokerInv, Mail
          <6>2. CASE j = Len(inbox[g]) + 1
            BY <1>15, <1>16, <4>1, <5>1, <5>2, <6>2
          <6> QED BY <1>15, <6>1, <6>2
        <5> QED BY <3>2, <5>1, <5>2
      <4>2. CASE i = Len(inbox[g]) + 1
        BY <1>8, <1>15, <3>2, <4>2
      <4> QED BY <1>15, <3>2, <4>1, <4>2
    <3> QED BY <3>1, <3>2
  <2>2. ASSUME NEW h \in Guis, NEW v \in acting[h]
        PROVE  owner'[v] = h /\ v \notin replies /\ <<v, "act">> \notin Messages(h)'
    <3>1. v \in Calls /\ owner[v] = h /\ v \notin replies /\ <<v, "act">> \notin Messages(h)
      BY <1>7 DEF BrokerInv, Mail
    <3>2. h # None
      BY DEF BrokerConstants, Connections
    <3>3. v # w
      BY <1>5, <3>1, <3>2 DEF Asked
    <3> QED BY <1>8, <1>17, <3>1, <3>3
  <2>3. ASSUME NEW v \in replies
        PROVE  owner'[v] # None /\ \A h \in Guis : h = owner'[v] => <<v, "act">> \notin Messages(h)'
    <3>1. v \in Calls /\ owner[v] # None /\ <<v, "act">> \notin Messages(owner[v])
      BY <1>7 DEF BrokerInv, Mail, Asked
    <3>2. v # w /\ owner'[v] = owner[v] /\ owner[v] \in Guis
      BY <1>5, <1>7, <1>8, <3>1 DEF Asked
    <3> QED BY <1>17, <3>1, <3>2
  <2>4. \A v \in replies : owner'[v] \in Guis /\ owner'[v] # None
              /\ <<v, "act">> \notin {inbox'[owner'[v]][i] : i \in 1..Len(inbox'[owner'[v]])}
    <3> SUFFICES ASSUME NEW v \in replies
                 PROVE  owner'[v] \in Guis /\ owner'[v] # None
                           /\ <<v, "act">> \notin {inbox'[owner'[v]][i] : i \in 1..Len(inbox'[owner'[v]])}
      OBVIOUS
    <3>1. v \in Calls /\ owner'[v] # None
      BY <1>7, <2>3
    <3>2. owner'[v] \in Guis
      BY <1>7, <1>8, <3>1
    <3> QED BY <2>3, <3>1, <3>2 DEF Messages
  <2>5. acting' = acting /\ replies' = replies
    BY <1>1
  <2> QED BY <2>1, <2>2, <2>4, <2>5 DEF Mail, Messages, Asked
<1>19. NothingRunsUnobserved'
  <2> SUFFICES ASSUME NEW h \in Guis \cap connected, NEW v \in Calls,
                      v \in acting[h] \/ <<v, "act">> \in Messages(h)'
               PROVE  v \in pending' \/ <<v, "stop">> \in Messages(h)'
    BY <1>1 DEF NothingRunsUnobserved
  <2> QED BY <1>2, <1>17 DEF BrokerInv, NothingRunsUnobserved
<1> QED BY <1>9, <1>10, <1>11, <1>12, <1>13, <1>14, <1>18, <1>19 DEF BrokerInv

\* A delivered message leaves the inbox; a stop comes after its request.
LEMMA DeliverKeeps ==
    ASSUME BrokerConstants, BrokerInv, NEW g \in Guis, Deliver(g)
    PROVE  BrokerInv'
<1>1. /\ UNCHANGED <<connected, published, host, hostPage, spent, stones, pending, replies, call,
                     owner, page, cancelled, changes>>
      /\ inbox' = [inbox EXCEPT ![g] = Tail(@)] /\ inbox[g] # <<>>
  BY DEF Deliver, brokerVars, callVars
<1>2. /\ inbox \in [Guis -> Seq(Calls \X {"act", "stop"})] /\ acting \in [Guis -> SUBSET Calls]
      /\ replies \in SUBSET Calls
  BY DEF BrokerInv, TypeOK
<1> DEFINE m == Head(inbox[g])
           n == Len(inbox[g])
           w == m[1]
<1>3. acting' = [acting EXCEPT ![g] = IF m[2] = "act" THEN @ \cup {w} ELSE @ \ {w}]
  BY DEF Deliver
<1>4. /\ n \in Nat \ {0} /\ m = inbox[g][1] /\ Len(Tail(inbox[g])) = n - 1
      /\ Tail(inbox[g]) \in Seq(Calls \X {"act", "stop"})
      /\ \A i \in 1..n - 1 : Tail(inbox[g])[i] = inbox[g][i + 1]
      /\ m \in Calls \X {"act", "stop"}
  BY <1>1, <1>2
<1>5. w \in Calls /\ m[2] \in {"act", "stop"} /\ m = <<w, m[2]>>
  BY <1>4
<1>6. owner[w] = g /\ g # None
  <2>1. 1 \in 1..n
    BY <1>4
  <2> QED BY <1>4, <2>1 DEF BrokerInv, Mail, BrokerConstants, Connections
<1>7. \A i \in 2..n : inbox[g][i][1] = w => inbox[g][i][2] = "stop"
  <2>1. 1 \in 1..n /\ \A i \in 2..n : i \in 1..n /\ 1 < i
    BY <1>4
  <2> QED BY <1>4, <2>1 DEF BrokerInv, Mail
<1> HIDE DEF m, n, w
<1>8. /\ \A h \in Guis : h # g => inbox'[h] = inbox[h] /\ acting'[h] = acting[h]
      /\ inbox'[g] = Tail(inbox[g])
      /\ acting'[g] = IF m[2] = "act" THEN acting[g] \cup {w} ELSE acting[g] \ {w}
  BY <1>1, <1>2, <1>3
<1>9. Len(inbox'[g]) = n - 1 /\ \A i \in 1..n - 1 : inbox'[g][i] = inbox[g][i + 1]
  BY <1>4, <1>8
<1>10. /\ \A x : x \in Messages(g)' <=> \E i \in 2..n : inbox[g][i] = x
       /\ \A x : x \in Messages(g) <=> x = m \/ x \in Messages(g)'
       /\ \A h \in Guis : h # g => Messages(h)' = Messages(h)
  <2>1. \A x : x \in Messages(g)' <=> \E i \in 1..n - 1 : inbox[g][i + 1] = x
    BY <1>9 DEF Messages
  <2>2. \A i \in 1..n - 1 : i + 1 \in 2..n
    BY <1>4
  <2>3. \A i \in 2..n : i - 1 \in 1..n - 1 /\ (i - 1) + 1 = i
    BY <1>4
  <2>4. \A x : x \in Messages(g)' <=> \E i \in 2..n : inbox[g][i] = x
    BY <2>1, <2>2, <2>3
  <2>5. 1..n = {1} \cup 2..n
    BY <1>4
  <2>6. \A x : x \in Messages(g) <=> x = m \/ \E i \in 2..n : inbox[g][i] = x
    BY <1>4, <2>5 DEF Messages, n
  <2>7. \A h \in Guis : h # g => Messages(h)' = Messages(h)
    BY <1>8 DEF Messages
  <2> QED BY <2>4, <2>6, <2>7
<1>11. <<w, "act">> \notin Messages(g)'
  <2> SUFFICES ASSUME NEW i \in 2..n, inbox[g][i] = <<w, "act">> PROVE FALSE
    BY <1>10
  <2>1. inbox[g][i][1] = w /\ inbox[g][i][2] = "act"
    OBVIOUS
  <2> QED BY <1>7, <2>1
<1>12. TypeOK'
  <2>1. acting' \in [Guis -> SUBSET Calls]
    BY <1>2, <1>3, <1>5
  <2>2. inbox' \in [Guis -> Seq(Calls \X {"act", "stop"})]
    BY <1>1, <1>2, <1>4
  <2> QED BY <1>1, <2>1, <2>2 DEF BrokerInv, TypeOK, Limits
<1>13. Waits' /\ CancelledNeverRuns' /\ RunsOnce' /\ Barred'
  BY <1>1, RequestsKept DEF callVars
<1>14. PendingIsCovered'
  BY <1>1, CoverKept
<1>15. Mail'
  <2>1. ASSUME NEW h \in Guis, NEW i \in 1..Len(inbox'[h])
        PROVE  /\ owner[inbox'[h][i][1]] = h
               /\ \A j \in 1..Len(inbox'[h]) :
                     i < j /\ inbox'[h][i][1] = inbox'[h][j][1] => inbox'[h][j][2] = "stop"
    <3>1. CASE h # g
      <4>1. inbox'[h] = inbox[h]
        BY <1>8, <3>1
      <4> QED BY <4>1 DEF BrokerInv, Mail
    <3>2. CASE h = g
      <4>1. i \in 1..n - 1 /\ i + 1 \in 1..n /\ inbox'[g][i] = inbox[g][i + 1]
        BY <1>4, <1>9, <3>2
      <4>2. ASSUME NEW j \in 1..Len(inbox'[g]), i < j, inbox'[g][i][1] = inbox'[g][j][1]
            PROVE  inbox'[g][j][2] = "stop"
        <5>1. j + 1 \in 1..n /\ i + 1 < j + 1 /\ inbox'[g][j] = inbox[g][j + 1]
          BY <1>4, <1>9, <4>1, <4>2
        <5> QED BY <4>1, <4>2, <5>1 DEF BrokerInv, Mail, n
      <4>3. owner[inbox'[g][i][1]] = g
        BY <4>1 DEF BrokerInv, Mail, n
      <4> QED BY <3>2, <4>2, <4>3
    <3> QED BY <3>1, <3>2
  <2>2. \A v \in Calls, h \in Guis : <<v, "act">> \in Messages(h)' => <<v, "act">> \in Messages(h)
    BY <1>10
  <2>3. m[2] = "act" => w \notin replies
    <3> SUFFICES ASSUME m[2] = "act", w \in replies PROVE FALSE
      OBVIOUS
    <3>1. <<w, "act">> \in Messages(g)
      BY <1>5, <1>10
    <3> QED BY <1>6, <3>1 DEF BrokerInv, Mail
  <2>4. ASSUME NEW h \in Guis, NEW v \in acting'[h]
        PROVE  owner[v] = h /\ v \notin replies /\ <<v, "act">> \notin Messages(h)'
    <3>1. CASE v \in acting[h]
      <4>1. v \in Calls /\ owner[v] = h /\ v \notin replies /\ <<v, "act">> \notin Messages(h)
        BY <1>2, <3>1 DEF BrokerInv, Mail
      <4> QED BY <2>2, <4>1
    <3>2. CASE v \notin acting[h]
      <4>1. h = g /\ v = w /\ m[2] = "act"
        BY <1>8, <3>2, <2>4
      <4> QED BY <1>6, <1>11, <2>3, <4>1
    <3> QED BY <3>1, <3>2
  <2>5. ASSUME NEW v \in replies
        PROVE  owner[v] # None /\ <<v, "act">> \notin Messages(owner[v])'
    <3>1. v \in Calls /\ owner[v] # None /\ <<v, "act">> \notin Messages(owner[v])
      BY <1>2 DEF BrokerInv, Mail, Asked
    <3>2. owner[v] \in Guis /\ owner'[v] = owner[v]
      BY <1>1, <3>1 DEF BrokerInv, TypeOK
    <3>3. \A h \in Guis : h = owner[v] => <<v, "act">> \notin Messages(h)'
      BY <2>2, <3>1
    <3> QED BY <3>1, <3>2, <3>3 DEF Messages
  <2>6. replies' = replies /\ owner' = owner
    BY <1>1
  <2> QED BY <2>1, <2>4, <2>5, <2>6 DEF Mail, Messages, Asked
<1>16. NothingRunsUnobserved'
  <2> SUFFICES ASSUME NEW h \in Guis \cap connected, NEW v \in Calls,
                      v \in acting'[h] \/ <<v, "act">> \in Messages(h)'
               PROVE  v \in pending \/ <<v, "stop">> \in Messages(h)'
    BY <1>1 DEF NothingRunsUnobserved
  <2>1. v \in acting[h] \/ <<v, "act">> \in Messages(h)
    BY <1>5, <1>8, <1>10
  <2>2. v \in pending \/ <<v, "stop">> \in Messages(h)
    BY <2>1 DEF BrokerInv, NothingRunsUnobserved
  <2>3. CASE h # g
    BY <1>10, <2>2, <2>3
  <2>4. CASE h = g
    <3>1. CASE m # <<v, "stop">>
      BY <1>10, <2>2, <2>4, <3>1
    <3>2. CASE m = <<v, "stop">>
      <4>1. w = v /\ m[2] = "stop"
        BY <3>2 DEF w
      <4>2. v \notin acting'[g] /\ <<v, "act">> \notin Messages(g)'
        BY <1>8, <1>11, <4>1
      <4> QED BY <2>4, <4>2
    <3> QED BY <3>1, <3>2
  <2> QED BY <2>3, <2>4
<1> QED BY <1>12, <1>13, <1>14, <1>15, <1>16 DEF BrokerInv

LEMMA AnswerKeeps ==
    ASSUME BrokerConstants, BrokerInv, NEW g \in Guis, NEW w \in Calls, Answer(g, w)
    PROVE  BrokerInv'
<1>1. /\ UNCHANGED <<connected, published, host, hostPage, spent, stones, pending, inbox, call,
                     owner, page, cancelled, changes>>
      /\ acting' = [acting EXCEPT ![g] = @ \ {w}] /\ replies' = replies \cup {w} /\ w \in acting[g]
  BY DEF Answer, brokerVars, callVars
<1>2. acting \in [Guis -> SUBSET Calls] /\ replies \in SUBSET Calls
  BY DEF BrokerInv, TypeOK
<1>3. \A h \in Guis : acting'[h] = IF h = g THEN acting[h] \ {w} ELSE acting[h]
  BY <1>1, <1>2
<1>4. owner[w] = g /\ w \notin replies /\ <<w, "act">> \notin Messages(g) /\ g # None
  BY <1>1 DEF BrokerInv, Mail, BrokerConstants, Connections
<1>5. TypeOK'
  BY <1>1, <1>2 DEF BrokerInv, TypeOK, Limits
<1>6. Waits' /\ CancelledNeverRuns' /\ RunsOnce' /\ Barred'
  BY <1>1, RequestsKept DEF callVars
<1>7. PendingIsCovered'
  BY <1>1, CoverKept
<1>8. \A h \in Guis : \A v \in acting'[h] : v \in acting[h] /\ v # w
  <2>1. \A h \in Guis : w \in acting[h] => h = g
    BY <1>4 DEF BrokerInv, Mail
  <2> QED BY <1>3, <2>1
<1>9. Mail'
  <2>1. \A h \in Guis : \A v \in acting'[h] :
           owner[v] = h /\ v \notin replies' /\ <<v, "act">> \notin Messages(h)
    BY <1>1, <1>8 DEF BrokerInv, Mail
  <2>2. \A v \in replies' : Asked(v) /\ <<v, "act">> \notin Messages(owner[v])
    BY <1>1, <1>4 DEF BrokerInv, Mail, Asked
  <2>3. inbox' = inbox /\ owner' = owner
    BY <1>1
  <2> QED BY <2>1, <2>2, <2>3 DEF BrokerInv, Mail, Messages, Asked
<1>10. NothingRunsUnobserved'
  <2>1. connected' = connected /\ pending' = pending /\ \A h \in Guis : Messages(h)' = Messages(h)
    BY <1>1 DEF Messages
  <2> QED BY <2>1, <1>8 DEF BrokerInv, NothingRunsUnobserved
<1> QED BY <1>5, <1>6, <1>7, <1>9, <1>10 DEF BrokerInv

\* What a desktop has answered is neither acted on nor on its way to it.
LEMMA CompleteKeeps ==
    ASSUME BrokerConstants, BrokerInv, NEW w \in Calls, Complete(w)
    PROVE  BrokerInv'
<1> DEFINE gone == {w} \cap pending
<1>1. /\ UNCHANGED <<connected, published, host, hostPage, spent, stones, inbox, acting, owner, page,
                     cancelled, changes>>
      /\ w \in replies /\ replies' = replies \ {w} /\ Fail(gone) /\ gone \in SUBSET pending
  BY DEF Complete
<1>2. pending' = pending \ gone /\ pending' \subseteq pending
  BY <1>1 DEF Fail
<1>3. w \in gone => w \in replies
  BY <1>1
<1>4. \A v \in gone : v = w
  OBVIOUS
<1> HIDE DEF gone
<1>5. /\ call' \in [Calls -> {"unsent", "sent", "waiting", "done"}]
      /\ pending' \in SUBSET Calls /\ Cardinality(pending') <= MaxPending
      /\ Waits' /\ RunsOnce'
  BY <1>1, FailWaits
<1>6. CancelledNeverRuns' /\ Barred'
  BY <1>1, FailBarred
<1>7. TypeOK'
  BY <1>1, <1>5 DEF BrokerInv, TypeOK, Limits
<1>8. PendingIsCovered'
  BY <1>1, <1>2, CoverKept
<1>9. inbox' = inbox /\ owner' = owner /\ acting' = acting /\ connected' = connected
  BY <1>1
<1>10. Mail'
  BY <1>1, <1>9 DEF BrokerInv, Mail, Messages, Asked
<1>11. NothingRunsUnobserved'
  <2> SUFFICES ASSUME NEW g \in Guis \cap connected, NEW v \in Calls,
                      v \in acting[g] \/ <<v, "act">> \in Messages(g)
               PROVE  v \in pending' \/ <<v, "stop">> \in Messages(g)
    <3>1. \A g \in Guis : Messages(g)' = Messages(g)
      BY <1>9 DEF Messages
    <3> QED BY <1>9, <3>1 DEF NothingRunsUnobserved
  <2>1. v \in pending \/ <<v, "stop">> \in Messages(g)
    BY DEF BrokerInv, NothingRunsUnobserved
  <2>2. owner[v] = g
    BY DEF BrokerInv, Mail, Messages
  <2>3. v # w
    BY <1>1, <2>2 DEF BrokerInv, Mail
  <2> QED BY <1>2, <1>4, <2>1, <2>3
<1> QED BY <1>5, <1>6, <1>7, <1>8, <1>10, <1>11 DEF BrokerInv

LEMMA OwnerCancelsKeeps ==
    ASSUME BrokerConstants, BrokerInv, NEW g \in Guis, NEW w \in Calls, OwnerCancels(g, w)
    PROVE  BrokerInv'
<1>1. /\ UNCHANGED <<connected, published, host, hostPage, spent, stones, inbox, replies, owner, page,
                     cancelled, changes>>
      /\ w \in acting[g] /\ {w} \in SUBSET pending /\ Fail({w})
      /\ acting' = [acting EXCEPT ![g] = @ \ {w}]
  BY DEF OwnerCancels
<1>2. pending' = pending \ {w} /\ pending' \subseteq pending
  BY <1>1 DEF Fail
<1>3. acting \in [Guis -> SUBSET Calls]
  BY DEF BrokerInv, TypeOK
<1>4. owner[w] = g /\ <<w, "act">> \notin Messages(g)
  BY <1>1 DEF BrokerInv, Mail
<1>5. \A h \in Guis : \A v \in acting'[h] : v \in acting[h] /\ v # w
  BY <1>1, <1>3, <1>4 DEF BrokerInv, Mail
<1>6. /\ call' \in [Calls -> {"unsent", "sent", "waiting", "done"}]
      /\ pending' \in SUBSET Calls /\ Cardinality(pending') <= MaxPending
      /\ Waits' /\ RunsOnce'
  BY <1>1, FailWaits
<1>7. CancelledNeverRuns' /\ Barred'
  BY <1>1, FailBarred
<1>8. TypeOK'
  BY <1>1, <1>3, <1>6 DEF BrokerInv, TypeOK, Limits
<1>9. PendingIsCovered'
  BY <1>1, <1>2, CoverKept
<1>10. inbox' = inbox /\ owner' = owner /\ replies' = replies /\ connected' = connected
  BY <1>1
<1>11. Mail'
  BY <1>5, <1>10 DEF BrokerInv, Mail, Messages, Asked
<1>12. NothingRunsUnobserved'
  <2> SUFFICES ASSUME NEW h \in Guis \cap connected, NEW v \in Calls,
                      v \in acting'[h] \/ <<v, "act">> \in Messages(h)
               PROVE  v \in pending' \/ <<v, "stop">> \in Messages(h)
    <3>1. \A h \in Guis : Messages(h)' = Messages(h)
      BY <1>10 DEF Messages
    <3> QED BY <1>10, <3>1 DEF NothingRunsUnobserved
  <2>1. v \in acting[h] \/ <<v, "act">> \in Messages(h)
    BY <1>5
  <2>2. v \in pending \/ <<v, "stop">> \in Messages(h)
    BY <2>1 DEF BrokerInv, NothingRunsUnobserved
  <2>3. owner[v] = h
    BY <2>1 DEF BrokerInv, Mail, Messages
  <2>4. v # w
    BY <1>4, <1>5, <2>3
  <2> QED BY <1>2, <2>2, <2>4
<1> QED BY <1>6, <1>7, <1>8, <1>9, <1>11, <1>12 DEF BrokerInv

\* The requests a connection owned or made are failed; its owners are told.
LEMMA DisconnectKeeps ==
    ASSUME BrokerConstants, BrokerInv, NEW c \in Connections, Disconnect(c)
    PROVE  BrokerInv'
<1> DEFINE gone == {w \in pending : Caller[w] = c /\ owner[w] # c}
           failed == {w \in pending : owner[w] = c \/ Caller[w] = c}
<1>1. /\ gone \in SUBSET Calls /\ failed \in SUBSET pending /\ failed \in SUBSET Calls
      /\ \A w \in failed : w \in gone \/ owner[w] = c
      /\ \A w \in pending : w \notin failed => owner[w] # c /\ Caller[w] # c
  BY DEF BrokerInv, TypeOK
<1>2. /\ Tell(gone) /\ Fail(failed) /\ connected' = connected \ {c}
      /\ UNCHANGED <<acting, replies, owner, page, cancelled, changes>>
  BY DEF Disconnect
<1>3. /\ published' = [g \in Guis |-> IF g = c THEN {} ELSE published[g]]
      /\ host' = IF host = c THEN None ELSE host
      /\ hostPage' = IF host = c THEN None ELSE hostPage
      /\ spent' = [k \in Callers |-> IF k = c THEN {} ELSE spent[k]]
      /\ stones' = [k \in Callers |-> IF k = c THEN {} ELSE stones[k]]
  BY DEF Disconnect
<1> HIDE DEF gone, failed
<1>4. /\ pending' = pending \ failed /\ connected' \subseteq connected
      /\ \A w \in failed : w \in gone \/ owner[w] \notin connected'
  BY <1>1, <1>2 DEF Fail
<1>5. inbox' \in [Guis -> Seq(Calls \X {"act", "stop"})] /\ Mail' /\ NothingRunsUnobserved'
  BY <1>1, <1>2, <1>4, TellKeeps
<1>6. /\ call' \in [Calls -> {"unsent", "sent", "waiting", "done"}]
      /\ pending' \in SUBSET Calls /\ Cardinality(pending') <= MaxPending
      /\ Waits' /\ RunsOnce'
  BY <1>1, <1>2, FailWaits
<1>7. CancelledNeverRuns' /\ Barred'
  BY <1>1, <1>2, <1>3, <1>4, FailBarred
<1>8. /\ spent' \in [Callers -> SUBSET Rpcs] /\ stones' \in [Callers -> SUBSET Rpcs]
      /\ published' \in [Guis -> SUBSET Pages]
      /\ host' \in Guis \cup {None} /\ hostPage' \in Launchers \cup {None}
  BY <1>3 DEF BrokerInv, TypeOK
<1>9. Limits'
  <2>1. Cardinality({}) = 0
    BY FS_EmptySet
  <2> QED BY <1>3, <1>6, <2>1 DEF BrokerInv, TypeOK, Limits, BrokerConstants
<1>10. TypeOK'
  BY <1>2, <1>4, <1>5, <1>6, <1>8, <1>9 DEF BrokerInv, TypeOK
<1>11. PendingIsCovered'
  <2> SUFFICES ASSUME NEW w \in pending, w \notin failed
               PROVE  /\ owner[w] \in connected' /\ Caller[w] \in connected'
                      /\ Routed(w, owner[w], page[w])'
    BY <1>2, <1>4 DEF PendingIsCovered, Routed
  <2>1. /\ owner[w] \in connected /\ Caller[w] \in connected
        /\ Routed(w, owner[w], page[w]) /\ owner[w] # c /\ Caller[w] # c /\ w \in Calls
    BY <1>1 DEF BrokerInv, PendingIsCovered, TypeOK
  <2>2. owner[w] \in Guis
    BY <2>1 DEF BrokerInv, TypeOK, BrokerConstants
  <2> QED BY <1>2, <1>3, <2>1, <2>2 DEF Routed
<1> QED BY <1>5, <1>6, <1>7, <1>10, <1>11 DEF BrokerInv

LEMMA NextKeeps == ASSUME BrokerConstants, BrokerInv, [Next]_vars PROVE BrokerInv'
<1>1. CASE UNCHANGED vars
  <2>1. UNCHANGED <<connected, published, host, hostPage, spent, stones, pending, inbox, acting,
                    replies, call, owner, page, cancelled, changes>>
    BY <1>1 DEF vars, brokerVars, guiVars, callVars
  <2>2. TypeOK'
    BY <2>1 DEF BrokerInv, TypeOK, Limits
  <2>3. Waits' /\ CancelledNeverRuns' /\ RunsOnce' /\ Barred'
    BY <2>1, RequestsKept DEF callVars
  <2>4. Mail' /\ NothingRunsUnobserved' /\ PendingIsCovered'
    BY <2>1, MailKept, CoverKept DEF guiVars
  <2> QED BY <2>2, <2>3, <2>4 DEF BrokerInv
<1>2. CASE \E g \in Guis :
              \/ \E pages \in SUBSET Pages : Publish(g, pages)
              \/ \E p \in Launchers : RegisterHost(g, p)
              \/ UnregisterHost(g) \/ Deliver(g)
              \/ \E w \in Calls : Answer(g, w) \/ OwnerCancels(g, w)
  BY <1>2, PublishKeeps, RegisterHostKeeps, UnregisterHostKeeps, DeliverKeeps, AnswerKeeps,
     OwnerCancelsKeeps
<1>3. CASE \E w \in Calls :
              \/ Send(w) \/ Refuse(w) \/ Timeout(w) \/ Cancel(w) \/ Complete(w)
              \/ \E g \in Guis, p \in Pages \cup Launchers : Invoke(w, g, p)
  BY <1>3, SendKeeps, RefuseKeeps, TimeoutKeeps, CancelKeeps, CompleteKeeps, InvokeKeeps
<1>4. CASE \E c \in Connections : Disconnect(c)
  BY <1>4, DisconnectKeeps
<1> QED BY <1>1, <1>2, <1>3, <1>4 DEF Next

-------------------------------------------------------------------------------
(***************************************************************************)
(* Theorems.                                                               *)
(***************************************************************************)
\* The broker keeps within its limits, and its maps agree: waiting calls are
\* the pending ones, spent and cancelled ids are barred, and a desktop's mail
\* holds a request before its stop.
THEOREM BrokerSafety == BrokerConstants => (Spec => []BrokerInv)
<1> SUFFICES ASSUME BrokerConstants PROVE Spec => []BrokerInv
  OBVIOUS
<1>1. Init => BrokerInv
  BY InitInv
<1>2. BrokerInv /\ [Next]_vars => BrokerInv'
  BY NextKeeps
<1> QED BY <1>1, <1>2, PTL DEF Spec

\* A request the broker still waits for has both its connections, and its
\* owner still has the page or launcher it was routed to.
THEOREM AskedPagesAreThere == BrokerConstants => (Spec => []PendingIsCovered)
<1> SUFFICES ASSUME BrokerConstants PROVE Spec => []PendingIsCovered
  OBVIOUS
<1>1. BrokerInv => PendingIsCovered
  BY DEF BrokerInv
<1>2. Spec => []BrokerInv
  BY BrokerSafety
<1> QED BY <1>1, <1>2, PTL

\* A request whose cancel was accepted, before or after its worker ran, is
\* not pending.
THEOREM CancelsAreFinal == BrokerConstants => (Spec => []CancelledNeverRuns)
<1> SUFFICES ASSUME BrokerConstants PROVE Spec => []CancelledNeverRuns
  OBVIOUS
<1>1. BrokerInv => CancelledNeverRuns
  BY DEF BrokerInv
<1>2. Spec => []BrokerInv
  BY BrokerSafety
<1> QED BY <1>1, <1>2, PTL

\* A request id a connection repeats reaches a desktop once.
THEOREM IdsRunOnce == BrokerConstants => (Spec => []RunsOnce)
<1> SUFFICES ASSUME BrokerConstants PROVE Spec => []RunsOnce
  OBVIOUS
<1>1. BrokerInv => RunsOnce
  BY DEF BrokerInv
<1>2. Spec => []BrokerInv
  BY BrokerSafety
<1> QED BY <1>1, <1>2, PTL

\* A connected desktop acts only for callers that still wait, or is about to
\* be told to stop.
THEOREM ActionsAreWatched == BrokerConstants => (Spec => []NothingRunsUnobserved)
<1> SUFFICES ASSUME BrokerConstants PROVE Spec => []NothingRunsUnobserved
  OBVIOUS
<1>1. BrokerInv => NothingRunsUnobserved
  BY DEF BrokerInv
<1>2. Spec => []BrokerInv
  BY BrokerSafety
<1> QED BY <1>1, <1>2, PTL
===============================================================================
