------------------------- MODULE DaemonServicesProofs --------------------------
(***************************************************************************)
(* Safety of the event stream for any number of runtimes, desktops and     *)
(* connections, and for journals and buffers of any size.  Then: the       *)
(* services keep their promises side by side.  A behaviour of              *)
(* DaemonServices is a behaviour of each of them, so what is proved of a   *)
(* service for any of its constants holds in DaemonServices, for any parts *)
(* and any constants of its own.                                           *)
(***************************************************************************)
EXTENDS DaemonServices, WellFoundedInduction, SequenceTheorems, FiniteSetTheorems, TLAPS

-------------------------------------------------------------------------------
(***************************************************************************)
(* The event stream: queues of events.                                     *)
(***************************************************************************)
\* Appending to a sequence of the standard module, by its places.
LEMMA AppendPlaces ==
    ASSUME NEW S, NEW s \in Seq(S), NEW e \in S
    PROVE  /\ Append(s, e) \in Seq(S) /\ Len(s) \in Nat /\ Len(Append(s, e)) = Len(s) + 1
           /\ \A i \in 1..Len(s) : Append(s, e)[i] = s[i]
           /\ Append(s, e)[Len(s) + 1] = e
           /\ \A i \in 1..Len(s) : s[i] \in S
BY AppendProperties, ElementOfSeq

\* Taking the first entry, by the places of the rest.
LEMMA TailPlaces ==
    ASSUME NEW S, NEW s \in Seq(S), s # <<>>
    PROVE  /\ Tail(s) \in Seq(S) /\ Len(s) \in Nat \ {0} /\ Len(Tail(s)) = Len(s) - 1
           /\ Head(s) = s[1] /\ Head(s) \in S
           /\ \A i \in 1..Len(Tail(s)) : i + 1 \in 1..Len(s) /\ Tail(s)[i] = s[i + 1]
           /\ \A i \in 1..Len(s) : s[i] \in S
OBVIOUS

\* The members of a sequence, by their places.
LEMMA Members ==
    ASSUME NEW S, NEW s \in Seq(S)
    PROVE  \A x : x \in ToSet(s) <=> \E i \in 1..Len(s) : s[i] = x
BY DEF ToSet

\* A bounded queue keeps the last entries, in order.
LEMMA LastPlaces ==
    ASSUME NEW S, NEW s \in Seq(S), NEW n \in Nat \ {0}
    PROVE  /\ Last_(s, n) \in Seq(S)
           /\ Len(Last_(s, n)) = IF Len(s) > n THEN n ELSE Len(s)
           /\ \A i \in 1..Len(Last_(s, n)) :
                 /\ i + (Len(s) - Len(Last_(s, n))) \in 1..Len(s)
                 /\ Last_(s, n)[i] = s[i + (Len(s) - Len(Last_(s, n)))]
<1>1. CASE Len(s) > n
  <2>1. /\ SubSeq(s, Len(s) - n + 1, Len(s)) \in Seq(S)
        /\ Len(SubSeq(s, Len(s) - n + 1, Len(s))) = n
        /\ \A i \in 1..n : SubSeq(s, Len(s) - n + 1, Len(s))[i] = s[i + (Len(s) - n)]
    BY <1>1, SubSeqProperties
  <2> QED BY <1>1, <2>1 DEF Last_
<1>2. CASE ~(Len(s) > n)
  BY <1>2 DEF Last_
<1> QED BY <1>1, <1>2

\* A new event at the end of a sequence in order.
LEMMA Appended ==
    ASSUME NEW s \in Seq(Nat \ {0}), NEW e \in Nat \ {0},
           Ascending(s), \A i \in 1..Len(s) : s[i] < e
    PROVE  /\ Append(s, e) \in Seq(Nat \ {0}) /\ Ascending(Append(s, e))
           /\ Len(Append(s, e)) = Len(s) + 1 /\ Append(s, e)[Len(s) + 1] = e
           /\ \A i \in 1..Len(s) + 1 : Append(s, e)[i] <= e
           /\ ToSet(Append(s, e)) = ToSet(s) \cup {e}
<1>1. /\ Append(s, e) \in Seq(Nat \ {0}) /\ Len(s) \in Nat
      /\ Len(Append(s, e)) = Len(s) + 1
      /\ \A i \in 1..Len(s) : Append(s, e)[i] = s[i] /\ s[i] \in Nat
      /\ Append(s, e)[Len(s) + 1] = e
  BY AppendPlaces
<1>2. ASSUME NEW i \in 1..Len(s) PROVE s[i] + (Len(s) + 1 - i) <= e
  <2>1. Len(s) \in 1..Len(s) /\ s[i] \in Nat /\ s[Len(s)] \in Nat /\ i \in Nat
    BY <1>1
  <2>2. CASE i = Len(s)
    BY <1>1, <2>1, <2>2
  <2>3. CASE i # Len(s)
    <3>1. s[i] + (Len(s) - i) <= s[Len(s)]
      BY <1>1, <2>1, <2>3 DEF Ascending
    <3>2. s[Len(s)] < e
      BY <2>1
    <3> QED BY <1>1, <2>1, <3>1, <3>2
  <2> QED BY <2>2, <2>3
<1>3. Ascending(Append(s, e))
  <2>1. ASSUME NEW i \in 1..Len(s) + 1, NEW j \in 1..Len(s) + 1, i < j
        PROVE  Append(s, e)[i] + (j - i) <= Append(s, e)[j]
    <3>1. i \in 1..Len(s) /\ Append(s, e)[i] = s[i]
      BY <1>1, <2>1
    <3>2. CASE j = Len(s) + 1
      BY <1>1, <1>2, <3>1, <3>2
    <3>3. CASE j # Len(s) + 1
      <4>1. j \in 1..Len(s) /\ Append(s, e)[j] = s[j]
        BY <1>1, <3>3
      <4> QED BY <2>1, <3>1, <4>1 DEF Ascending
    <3> QED BY <3>2, <3>3
  <2> QED BY <1>1, <2>1 DEF Ascending
<1>4. \A i \in 1..Len(s) + 1 : Append(s, e)[i] <= e
  BY <1>1
<1>5. ToSet(Append(s, e)) = ToSet(s) \cup {e}
  <2>1. DOMAIN s = 1..Len(s) /\ DOMAIN Append(s, e) = 1..Len(s) + 1
    BY <1>1
  <2>2. ASSUME NEW x \in ToSet(s) PROVE x \in ToSet(Append(s, e))
    BY <1>1, <2>1 DEF ToSet
  <2>3. e \in ToSet(Append(s, e))
    BY <1>1, <2>1 DEF ToSet
  <2>4. ASSUME NEW x \in ToSet(Append(s, e)) PROVE x \in ToSet(s) \cup {e}
    <3>1. PICK i \in 1..Len(s) + 1 : x = Append(s, e)[i]
      BY <2>1 DEF ToSet
    <3>2. CASE i = Len(s) + 1
      BY <1>1, <3>1, <3>2
    <3>3. CASE i # Len(s) + 1
      <4>1. i \in 1..Len(s)
        BY <1>1, <3>3
      <4> QED BY <1>1, <2>1, <3>1, <4>1 DEF ToSet
    <3> QED BY <3>2, <3>3
  <2> QED BY <2>2, <2>3, <2>4
<1> QED BY <1>1, <1>3, <1>4, <1>5

\* A trimmed queue stays in order, and what it dropped is as far behind the
\* last entry as the queue is long.
LEMMA Trimmed ==
    ASSUME NEW a \in Seq(Nat \ {0}), Ascending(a), a # <<>>, NEW n \in Nat \ {0},
           NEW q, q = Last_(a, n)
    PROVE  /\ q \in Seq(Nat \ {0}) /\ Len(q) <= n /\ Ascending(q)
           /\ a[Len(a)] \in ToSet(q) /\ ToSet(q) \subseteq ToSet(a)
           /\ \A i \in 1..Len(q) : q[i] <= a[Len(a)]
           /\ \A x \in ToSet(a) : x \in ToSet(q) \/ x + n <= a[Len(a)]
<1>1. /\ q \in Seq(Nat \ {0}) /\ Len(q) = IF Len(a) > n THEN n ELSE Len(a)
      /\ \A i \in 1..Len(q) :
            i + (Len(a) - Len(q)) \in 1..Len(a) /\ q[i] = a[i + (Len(a) - Len(q))]
  BY LastPlaces
<1>2. /\ Len(a) \in Nat \ {0} /\ Len(q) \in Nat \ {0} /\ Len(q) <= Len(a) /\ Len(q) <= n
      /\ \A i \in 1..Len(a) : a[i] \in Nat
  BY <1>1
<1>3. PICK d \in Nat : d = Len(a) - Len(q)
  BY <1>2
<1>4. \A i \in 1..Len(q) : i + d \in 1..Len(a) /\ q[i] = a[i + d]
  BY <1>1, <1>3
<1>5. Ascending(q)
  <2>1. ASSUME NEW i \in 1..Len(q), NEW j \in 1..Len(q), i < j
        PROVE  q[i] + (j - i) <= q[j]
    <3>1. a[i + d] + ((j + d) - (i + d)) <= a[j + d]
      BY <1>2, <1>4, <2>1 DEF Ascending
    <3> QED BY <1>2, <1>4, <3>1
  <2> QED BY <2>1 DEF Ascending
<1>6. \A i \in 1..Len(a) : a[i] + (Len(a) - i) <= a[Len(a)]
  <2>1. ASSUME NEW i \in 1..Len(a) PROVE a[i] + (Len(a) - i) <= a[Len(a)]
    <3>1. CASE i = Len(a)
      BY <1>2, <3>1
    <3>2. CASE i # Len(a)
      BY <1>2, <3>2 DEF Ascending
    <3> QED BY <3>1, <3>2
  <2> QED BY <2>1
<1>7. \A i \in 1..Len(q) : q[i] <= a[Len(a)]
  <2>1. ASSUME NEW i \in 1..Len(q) PROVE q[i] <= a[Len(a)]
    <3>1. PICK k \in 1..Len(a) : q[i] = a[k]
      BY <1>4
    <3>2. a[k] \in Nat /\ a[Len(a)] \in Nat /\ a[k] + (Len(a) - k) <= a[Len(a)]
      BY <1>2, <1>6
    <3> QED BY <1>2, <3>1, <3>2
  <2> QED BY <2>1
<1>8. /\ \A x : x \in ToSet(q) <=> \E i \in 1..Len(q) : q[i] = x
      /\ \A x : x \in ToSet(a) <=> \E i \in 1..Len(a) : a[i] = x
  <2>1. DOMAIN q = 1..Len(q) /\ DOMAIN a = 1..Len(a)
    BY <1>1
  <2> QED BY <2>1 DEF ToSet
<1>9. a[Len(a)] \in ToSet(q)
  <2>1. Len(q) \in 1..Len(q) /\ q[Len(q)] = a[Len(a)]
    BY <1>2, <1>3, <1>4
  <2> QED BY <1>8, <2>1
<1>10. ToSet(q) \subseteq ToSet(a)
  <2>1. ASSUME NEW x \in ToSet(q) PROVE x \in ToSet(a)
    <3>1. PICK i \in 1..Len(q) : q[i] = x
      BY <1>8, <2>1
    <3>2. PICK k \in 1..Len(a) : q[i] = a[k]
      BY <1>4, <3>1
    <3> QED BY <1>8, <3>1, <3>2
  <2> QED BY <2>1
<1>11. ASSUME NEW x \in ToSet(a), x \notin ToSet(q)
       PROVE  x + n <= a[Len(a)]
  <2>1. PICK i \in 1..Len(a) : a[i] = x
    BY <1>8
  <2>2. i <= d
    <3>1. SUFFICES ASSUME i > d PROVE FALSE
      BY <1>3
    <3>2. i - d \in 1..Len(q) /\ (i - d) + d = i
      BY <1>2, <1>3, <3>1
    <3>3. q[i - d] = a[i]
      BY <1>4, <3>2
    <3> QED BY <1>8, <1>11, <2>1, <3>2, <3>3
  <2>3. Len(q) = n
    BY <1>1, <1>2, <1>3, <2>2
  <2>4. a[i] + (Len(a) - i) <= a[Len(a)]
    BY <1>6, <2>1
  <2>5. a[i] \in Nat /\ a[Len(a)] \in Nat
    BY <1>2, <2>1
  <2> QED BY <1>2, <1>3, <2>1, <2>2, <2>3, <2>4, <2>5
<1> QED BY <1>1, <1>2, <1>5, <1>7, <1>9, <1>10, <1>11

\* A new event in a bounded queue.
LEMMA Queued ==
    ASSUME NEW s \in Seq(Nat \ {0}), NEW n \in Nat \ {0}, NEW e \in Nat \ {0},
           Ascending(s), \A i \in 1..Len(s) : s[i] < e,
           NEW q, q = Last_(Append(s, e), n)
    PROVE  /\ q \in Seq(Nat \ {0}) /\ Len(q) <= n /\ Ascending(q)
           /\ \A i \in 1..Len(q) : q[i] <= e
           /\ e \in ToSet(q) /\ ToSet(q) \subseteq ToSet(s) \cup {e}
           /\ \A x \in ToSet(s) : x \in ToSet(q) \/ x + n <= e
<1>1. PICK a : a = Append(s, e)
  OBVIOUS
<1>2. /\ a \in Seq(Nat \ {0}) /\ Ascending(a) /\ a # <<>> /\ a[Len(a)] = e
      /\ ToSet(a) = ToSet(s) \cup {e}
  BY <1>1, Appended, AppendProperties
<1>3. q = Last_(a, n)
  BY <1>1
<1>4. /\ q \in Seq(Nat \ {0}) /\ Len(q) <= n /\ Ascending(q)
      /\ a[Len(a)] \in ToSet(q) /\ ToSet(q) \subseteq ToSet(a)
      /\ \A i \in 1..Len(q) : q[i] <= a[Len(a)]
      /\ \A x \in ToSet(a) : x \in ToSet(q) \/ x + n <= a[Len(a)]
  BY <1>2, <1>3, Trimmed
<1> QED BY <1>2, <1>4

\* The first of the journal's events that a after has not passed.
LEMMA Smallest ==
    ASSUME NEW T \in SUBSET Nat, T # {}
    PROVE  \E x \in T : \A y \in T : x <= y
<1>1. PICK x \in T : \A y \in T : ~(<<y, x>> \in OpToRel(<, Nat))
  BY NatLessThanWellFounded, WFMin
<1>2. \A y \in T : <<y, x>> \in Nat \X Nat /\ (y < x => <<y, x>> \in OpToRel(<, Nat))
  BY DEF OpToRel
<1>3. \A y \in T : x \in Nat /\ y \in Nat /\ ~(y < x)
  BY <1>1, <1>2
<1>4. \A y \in T : x <= y
  BY <1>3
<1> QED BY <1>4

LEMMA PassedPlaces ==
    ASSUME journal \in Seq(Nat \ {0}), Ascending(journal), NEW after \in Nat
    PROVE  /\ Passed(after) \in 0..Len(journal)
           /\ \A i \in 1..Len(journal) : journal[i] > after <=> i > Passed(after)
<1> DEFINE Late == {i \in 1..Len(journal) : journal[i] > after}
<1>1. \A i \in 1..Len(journal) : journal[i] \in Nat
  OBVIOUS
<1>2. \A i, j \in 1..Len(journal) : i < j => journal[i] < journal[j]
  BY <1>1 DEF Ascending
<1>3. \E k \in 0..Len(journal) : \A i \in 1..Len(journal) : journal[i] > after <=> i > k
  <2>1. CASE Late = {}
    <3>1. \A i \in 1..Len(journal) : journal[i] > after <=> i > Len(journal)
      BY <2>1
    <3> QED BY <3>1
  <2>2. CASE Late # {}
    <3>1. PICK m \in Late : \A y \in Late : m <= y
      <4>1. Late \in SUBSET Nat
        OBVIOUS
      <4> QED BY <2>2, <4>1, Smallest
    <3>2. m - 1 \in 0..Len(journal)
      OBVIOUS
    <3>3. \A i \in 1..Len(journal) : journal[i] > after <=> i > m - 1
      BY <1>1, <1>2, <3>1
    <3> QED BY <3>2, <3>3
  <2> QED BY <2>1, <2>2
<1> QED BY <1>3 DEF Passed

-------------------------------------------------------------------------------
(***************************************************************************)
(* What the parts of the invariant do not notice.                          *)
(***************************************************************************)
LEMMA InitStream == ASSUME StreamConstants, Init PROVE StreamInv
<1>1. TypeOK
  BY DEF StreamConstants, Init, TypeOK, Views, Blank
<1>2. HubInOrder /\ \A c \in Clients : SocketInOrder(c) /\ InboxInOrder(c) /\ ViewInOrder(c)
  BY DEF StreamConstants, Init, HubInOrder, SocketInOrder, InboxInOrder, ViewInOrder, Ascending
<1>3. Projections \subseteq {Blank}
  BY DEF Init, Projections
<1>4. Retained = {}
  BY DEF Init, Retained, ToSet
<1>5. ProjectionsInOrder /\ Gapless
  BY <1>3, <1>4 DEF Init, ProjectionsInOrder, Gapless, Covers, Reaches, Blank
<1> QED BY <1>1, <1>2, <1>5 DEF StreamInv

\* A client that a step leaves alone.
Same(x) ==
    /\ link'[x] = link[x] /\ connects'[x] = connects[x] /\ wire'[x] = wire[x]
    /\ seqs'[x] = seqs[x] /\ buffer'[x] = buffer[x] /\ at'[x] = at[x] /\ rt'[x] = rt[x]
    /\ sub'[x] = sub[x] /\ inbox'[x] = inbox[x] /\ view'[x] = view[x] /\ base'[x] = base[x]

LEMMA Elsewhere ==
    ASSUME StreamInv, UNCHANGED hubVars, NEW x \in Clients, Same(x)
    PROVE  /\ SocketInOrder(x)' /\ InboxInOrder(x)' /\ ViewInOrder(x)'
           /\ Reaches(x) => Reaches(x)'
<1> USE DEF hubVars, Same
<1>1. SocketInOrder(x) /\ InboxInOrder(x) /\ ViewInOrder(x)
  BY DEF StreamInv
<1>2. SocketInOrder(x)'
  BY <1>1 DEF SocketInOrder
<1>3. InboxInOrder(x)'
  BY <1>1 DEF InboxInOrder
<1>4. ViewInOrder(x)'
  BY <1>1 DEF ViewInOrder
<1>5. Retained' = Retained
  BY DEF Retained
<1>6. Reaches(x) => Reaches(x)'
  BY <1>5 DEF Reaches, Seen
<1> QED BY <1>2, <1>3, <1>4, <1>6

\* A projection that was there before, or an empty one.
LEMMA OldProjections ==
    ASSUME StreamInv, UNCHANGED hubVars, Projections' \subseteq Projections \cup {Blank}
    PROVE  /\ ProjectionsInOrder'
           /\ (\A v \in Projections : Covers(v)) => (\A v \in Projections : Covers(v))'
<1> USE DEF hubVars
<1>1. Retained' = Retained
  BY DEF Retained
<1>2. ProjectionsInOrder'
  BY DEF StreamInv, ProjectionsInOrder, Blank
<1>3. ASSUME \A v \in Projections : Covers(v), NEW v \in Projections'
      PROVE  Covers(v)'
  <2>1. CASE v \in Projections
    BY <1>1, <1>3, <2>1 DEF Covers
  <2>2. CASE v = Blank
    BY <1>1, <2>2 DEF StreamInv, HubInOrder, Covers, Blank, Retained, ToSet
  <2> QED BY <1>3, <2>1, <2>2
<1> QED BY <1>2, <1>3

\* The invariant, after a step of one client that leaves the hub alone.
LEMMA StepOf ==
    ASSUME StreamInv, UNCHANGED hubVars, NEW c \in Clients, TypeOK',
           \A x \in Clients \ {c} : Same(x),
           connects'[c] >= connects[c],
           SocketInOrder(c)', InboxInOrder(c)', ViewInOrder(c)',
           ProjectionsInOrder',
           Gapless /\ (\A x \in Clients : connects[x] <= 1) /\ connects'[c] <= 1
              => Reaches(c)' /\ (\A v \in Projections : Covers(v))'
    PROVE  StreamInv'
<1>1. HubInOrder'
  BY DEF StreamInv, HubInOrder, hubVars
<1>2. \A x \in Clients : SocketInOrder(x)' /\ InboxInOrder(x)' /\ ViewInOrder(x)'
  BY Elsewhere
<1>3. ASSUME (\A x \in Clients : connects[x] <= 1)'
      PROVE  (\A v \in Projections : Covers(v))' /\ (\A x \in Clients : Reaches(x))'
  <2>1. ASSUME NEW x \in Clients PROVE connects[x] <= 1
    <3>1. connects'[x] <= 1 /\ connects[x] \in Nat /\ connects'[x] \in Nat
      BY <1>3 DEF StreamInv, TypeOK
    <3>2. connects'[x] >= connects[x]
      BY <3>1 DEF Same
    <3> QED BY <3>1, <3>2
  <2>2. Gapless /\ \A x \in Clients : Reaches(x)
    BY <2>1 DEF StreamInv, Gapless
  <2>3. Reaches(c)' /\ (\A v \in Projections : Covers(v))'
    BY <1>3, <2>1, <2>2
  <2> QED BY <2>2, <2>3, Elsewhere
<1>4. Gapless'
  BY <1>3 DEF Gapless
<1> QED BY <1>1, <1>2, <1>4 DEF StreamInv

\* The same, if the projections were there before.
LEMMA StepWithOldProjections ==
    ASSUME StreamInv, UNCHANGED hubVars, NEW c \in Clients, TypeOK',
           \A x \in Clients \ {c} : Same(x),
           connects'[c] >= connects[c],
           SocketInOrder(c)', InboxInOrder(c)', ViewInOrder(c)',
           Projections' \subseteq Projections \cup {Blank},
           Gapless /\ (\A x \in Clients : connects[x] <= 1) /\ connects'[c] <= 1
              => Reaches(c)'
    PROVE  StreamInv'
<1>1. Gapless /\ (\A x \in Clients : connects[x] <= 1) => \A v \in Projections : Covers(v)
  BY DEF Gapless
<1> QED BY <1>1, OldProjections, StepOf

-------------------------------------------------------------------------------
(***************************************************************************)
(* Connections.                                                            *)
(***************************************************************************)
\* What a new connection is sent: the journal from the cursor on, in order.
LEMMA Replayed ==
    ASSUME StreamInv, NEW cursors \in [Runtimes -> Nat]
    PROVE  /\ Replay(cursors) \in Seq(Events)
           /\ \A i \in 1..Len(Replay(cursors)) :
                 /\ active # None /\ Replay(cursors)[i].rt = active
                 /\ Replay(cursors)[i].seq <= next
           /\ \A i, j \in 1..Len(Replay(cursors)) :
                 i < j => Replay(cursors)[i].seq < Replay(cursors)[j].seq
           /\ \A e \in ToSet(journal) :
                 e > cursors[active] => [rt |-> active, seq |-> e] \in ToSet(Replay(cursors))
<1>1. /\ active \in Runtimes \cup {None} /\ journal \in Seq(Nat \ {0}) /\ Ascending(journal)
      /\ \A i \in 1..Len(journal) : journal[i] <= next /\ journal[i] \in Nat \ {0}
      /\ DOMAIN journal = 1..Len(journal) /\ Len(journal) \in Nat
  BY DEF StreamInv, TypeOK, HubInOrder
<1>2. CASE active = None
  <2>1. Replay(cursors) = <<>> /\ journal = <<>>
    BY <1>2 DEF Replay, StreamInv, HubInOrder
  <2> QED BY <2>1 DEF ToSet
<1>3. CASE active # None
  <2>1. active \in Runtimes /\ cursors[active] \in Nat
    BY <1>1, <1>3
  <2>2. PICK k \in 0..Len(journal) :
           /\ k = Passed(cursors[active])
           /\ \A i \in 1..Len(journal) : journal[i] > cursors[active] <=> i > k
    BY <1>1, <2>1, PassedPlaces
  <2>3. PICK n \in Nat : n = Len(journal) - k
    BY <1>1, <2>2
  <2>4. Replay(cursors) = [i \in 1..n |-> [rt |-> active, seq |-> journal[k + i]]]
    BY <1>3, <2>2, <2>3 DEF Replay
  <2>5. \A i \in 1..n : k + i \in 1..Len(journal) /\ k + i \in Nat
    BY <1>1, <2>2, <2>3
  <2>6. /\ Replay(cursors) \in Seq(Events) /\ Len(Replay(cursors)) = n
        /\ DOMAIN Replay(cursors) = 1..n
    BY <1>1, <2>1, <2>4, <2>5 DEF Events
  <2>7. \A i \in 1..n : Replay(cursors)[i] = [rt |-> active, seq |-> journal[k + i]]
    BY <2>4
  <2>8. ASSUME NEW i \in 1..n, NEW j \in 1..n, i < j
        PROVE  journal[k + i] < journal[k + j]
    <3>1. journal[k + i] + ((k + j) - (k + i)) <= journal[k + j]
      BY <1>1, <2>2, <2>5, <2>8 DEF Ascending
    <3>2. journal[k + i] \in Nat /\ journal[k + j] \in Nat /\ (k + j) - (k + i) > 0
      BY <1>1, <2>2, <2>3, <2>5, <2>8
    <3> QED BY <3>1, <3>2
  <2>9. ASSUME NEW e \in ToSet(journal), e > cursors[active]
        PROVE  [rt |-> active, seq |-> e] \in ToSet(Replay(cursors))
    <3>1. PICK i \in 1..Len(journal) : journal[i] = e
      BY <1>1 DEF ToSet
    <3>2. i > k
      BY <2>2, <2>9, <3>1
    <3>3. i - k \in 1..n /\ k + (i - k) = i
      BY <1>1, <2>2, <2>3, <3>2
    <3>4. Replay(cursors)[i - k] = [rt |-> active, seq |-> e]
      BY <2>7, <3>1, <3>3
    <3> QED BY <2>6, <3>3, <3>4 DEF ToSet
  <2> QED BY <1>1, <1>3, <2>5, <2>6, <2>7, <2>8, <2>9
<1> QED BY <1>2, <1>3

LEMMA ConnectKeeps ==
    ASSUME StreamConstants, StreamInv, NEW c \in Clients, Connect(c)
    PROVE  StreamInv'
<1> USE DEF Connect, hubVars, viewVars
<1>1. TypeOK'
  <2>1. Replay(seqs[c]) \in Seq(Events)
    BY Replayed DEF StreamInv, TypeOK
  <2>2. at[c] \in {"asked", "started"} => rt[c] \in Runtimes
    BY DEF StreamInv, TypeOK, InboxInOrder
  <2>3. inbox' \in [Clients -> Seq(Nat)]
    BY <2>2 DEF StreamInv, TypeOK
  <2>4. /\ wire' \in [Clients -> Seq(Events)]
        /\ buffer' \in [Clients -> [Runtimes -> Seq(Nat \ {0})]]
        /\ \A x \in Clients, r \in Runtimes : Len(buffer'[x][r]) <= MaxBuffered
    <3>1. wire' \in [Clients -> Seq(Events)]
      BY <2>1 DEF StreamInv, TypeOK
    <3>2. \A x \in Clients :
             buffer'[x] = IF x = c THEN [r \in Runtimes |-> <<>>] ELSE buffer[x]
      BY DEF StreamInv, TypeOK
    <3>3. buffer' \in [Clients -> [Runtimes -> Seq(Nat \ {0})]]
      BY DEF StreamInv, TypeOK
    <3>4. \A x \in Clients, r \in Runtimes : Len(buffer'[x][r]) <= MaxBuffered
      BY <3>2 DEF StreamInv, TypeOK, StreamConstants
    <3> QED BY <3>1, <3>3, <3>4
  <2>5. /\ link' \in [Clients -> {"off", "up", "lost", "down"}]
        /\ connects' \in [Clients -> Nat]
        /\ at' \in [Clients ->
               {"none", "hydrated", "asked", "started", "orphaned", "attached"}]
        /\ sub' \in [Clients -> Runtimes \cup {None}]
    BY DEF StreamInv, TypeOK
  <2> QED BY <2>3, <2>4, <2>5 DEF StreamInv, TypeOK
<1>2. \A x \in Clients \ {c} : Same(x)
  BY DEF Same, StreamInv, TypeOK
<1>3. SocketInOrder(c) /\ InboxInOrder(c) /\ ViewInOrder(c) /\ HubInOrder
  BY DEF StreamInv
<1>4. /\ seqs[c] \in [Runtimes -> Nat] /\ connects[c] \in Nat
      /\ wire'[c] = Replay(seqs[c]) /\ connects'[c] = connects[c] + 1
      /\ link'[c] = "up" /\ sub'[c] = None /\ seqs' = seqs /\ rt' = rt
      /\ buffer'[c] = [r \in Runtimes |-> <<>>]
      /\ at[c] # "none" => connects[c] >= 1
  BY <1>3 DEF StreamInv, TypeOK, SocketInOrder
<1>5. \/ at'[c] = at[c] /\ inbox'[c] = inbox[c] /\ at[c] # "started"
      \/ at'[c] = "orphaned" /\ inbox'[c] = buffer[c][rt[c]] /\ at[c] \in {"asked", "started"}
  BY DEF StreamInv, TypeOK
<1>6. SocketInOrder(c)'
  <2>1. /\ \A i \in 1..Len(wire'[c]) :
              active # None /\ wire'[c][i].rt = active /\ wire'[c][i].seq <= next
        /\ \A i, j \in 1..Len(wire'[c]) : i < j => wire'[c][i].seq < wire'[c][j].seq
    BY <1>4, Replayed
  <2>2. active # None => active \in begun
    BY <1>3 DEF HubInOrder
  <2>3. \A r \in Runtimes : buffer'[c][r] = <<>>
    BY <1>4
  <2>4. link'[c] # "off" /\ connects'[c] # 0
    BY <1>4
  <2> QED BY <1>3, <1>4, <2>1, <2>2, <2>3, <2>4 DEF SocketInOrder, Ascending
<1>7. InboxInOrder(c)'
  <2>1. CASE at'[c] = at[c] /\ inbox'[c] = inbox[c]
    BY <1>3, <1>4, <2>1 DEF InboxInOrder, SocketInOrder
  <2>2. CASE at'[c] = "orphaned" /\ inbox'[c] = buffer[c][rt[c]] /\ at[c] \in {"asked", "started"}
    <3>1. rt[c] \in Runtimes /\ buffer[c][rt[c]] \in Seq(Nat \ {0}) /\ connects'[c] > 1
      BY <1>3, <1>4, <2>2 DEF InboxInOrder, StreamInv, TypeOK
    <3>2. \A i \in 1..Len(buffer[c][rt[c]]) :
             buffer[c][rt[c]][i] # 0 /\ buffer[c][rt[c]][i] \in Nat
      BY <3>1
    <3>3. \A i \in 1..Len(inbox'[c]) : inbox'[c][i] # 0 /\ inbox'[c][i] <= seqs'[c][rt'[c]]
      BY <1>3, <1>4, <2>2, <3>1, <3>2 DEF SocketInOrder
    <3>4. \A i, j \in 1..Len(inbox'[c]) : i < j => inbox'[c][i] < inbox'[c][j]
      <4>1. Ascending(inbox'[c])
        <5>1. Ascending(buffer[c][rt[c]])
          BY <1>3, <3>1 DEF SocketInOrder
        <5> QED BY <2>2, <5>1
      <4>2. ASSUME NEW i \in 1..Len(inbox'[c]), NEW j \in 1..Len(inbox'[c]), i < j
            PROVE  inbox'[c][i] < inbox'[c][j]
        <5>1. inbox'[c][i] + (j - i) <= inbox'[c][j]
          BY <4>1, <4>2 DEF Ascending
        <5>2. inbox'[c][i] \in Nat /\ inbox'[c][j] \in Nat
          BY <2>2, <3>2
        <5>3. i \in Nat /\ j \in Nat
          BY <2>2, <3>1, <4>2
        <5> HIDE DEF Connect
        <5> QED BY <4>2, <5>1, <5>2, <5>3
      <4> QED BY <4>2
    <3>5. rt[c] \in begun \cup {None} /\ rt[c] # None
      BY <1>3, <2>2 DEF InboxInOrder
    <3> QED BY <1>4, <2>2, <3>1, <3>3, <3>4, <3>5 DEF InboxInOrder
  <2> QED BY <1>5, <2>1, <2>2
<1>8. ViewInOrder(c)'
  BY <1>3, <1>4, <1>5 DEF ViewInOrder
<1>9. Projections' = Projections
  BY DEF Projections
<1>10. ASSUME connects'[c] <= 1 PROVE Reaches(c)'
  <2>1. \A r \in Runtimes : seqs[c][r] = 0
    BY <1>3, <1>4, <1>10 DEF SocketInOrder
  <2>2. CASE active = None
    BY <1>3, <2>2 DEF Reaches, Retained, HubInOrder, ToSet
  <2>3. CASE active # None
    <3>1. active' \in Runtimes /\ seqs'[c][active'] = 0
      BY <1>4, <2>1, <2>3 DEF StreamInv, TypeOK
    <3>2. \A e \in Retained' : e \in ToSet(journal) /\ e > 0
      BY DEF Retained, StreamInv, TypeOK, ToSet
    <3>3. \A e \in Retained' : [rt |-> active, seq |-> e] \in ToSet(wire'[c])
      BY <1>4, <3>1, <3>2, Replayed
    <3> QED BY <3>1, <3>2, <3>3 DEF Reaches
  <2> QED BY <2>2, <2>3
<1> QED BY <1>1, <1>2, <1>4, <1>6, <1>7, <1>8, <1>9, <1>10, StepWithOldProjections

LEMMA LoseKeeps ==
    ASSUME StreamConstants, StreamInv, NEW c \in Clients, Lose(c)
    PROVE  StreamInv'
<1> USE DEF Lose, hubVars, attachVars, viewVars
<1>1. TypeOK'
  BY DEF StreamInv, TypeOK
<1>2. \A x \in Clients \ {c} : Same(x)
  BY DEF Same, StreamInv, TypeOK
<1>3. SocketInOrder(c) /\ InboxInOrder(c) /\ ViewInOrder(c)
  BY DEF StreamInv
<1>4. link'[c] = "lost" /\ wire'[c] = <<>> /\ connects' = connects
  BY DEF StreamInv, TypeOK
<1>5. SocketInOrder(c)'
  BY <1>3, <1>4 DEF SocketInOrder
<1>6. InboxInOrder(c)' /\ ViewInOrder(c)'
  BY <1>3, <1>4 DEF InboxInOrder, ViewInOrder
<1>7. Projections' = Projections
  BY DEF Projections
<1>8. connects'[c] >= connects[c]
  BY <1>4 DEF StreamInv, TypeOK
<1>9. Reaches(c) => Reaches(c)'
  <2>1. Retained' = Retained /\ Seen(c)' = Seen(c)
    BY DEF Retained, Seen
  <2> QED BY <1>4, <2>1 DEF Reaches
<1> QED BY <1>1, <1>2, <1>5, <1>6, <1>7, <1>8, <1>9, StepWithOldProjections DEF Gapless

LEMMA DrainKeeps ==
    ASSUME StreamConstants, StreamInv, NEW c \in Clients, Drain(c)
    PROVE  StreamInv'
<1> USE DEF Drain, hubVars, viewVars
<1>1. TypeOK'
  BY DEF StreamInv, TypeOK
<1>2. \A x \in Clients \ {c} : Same(x)
  BY DEF Same, StreamInv, TypeOK
<1>3. SocketInOrder(c) /\ InboxInOrder(c) /\ ViewInOrder(c)
  BY DEF StreamInv
<1>4. /\ link[c] = "lost" /\ link'[c] = "down" /\ sub'[c] = None
      /\ inbox'[c] = IF sub[c] = None THEN inbox[c] ELSE Append(inbox[c], 0)
      /\ inbox[c] \in Seq(Nat)
  BY DEF StreamInv, TypeOK
<1>5. SocketInOrder(c)'
  BY <1>3, <1>4 DEF SocketInOrder
<1>6. InboxInOrder(c)' /\ ViewInOrder(c)'
  <2>1. CASE sub[c] = None
    BY <1>3, <1>4, <2>1 DEF InboxInOrder, ViewInOrder
  <2>2. CASE sub[c] # None
    <3>1. /\ Len(inbox'[c]) = Len(inbox[c]) + 1 /\ Len(inbox[c]) \in Nat
          /\ \A i \in 1..Len(inbox[c]) : inbox'[c][i] = inbox[c][i] /\ inbox[c][i] \in Nat
          /\ inbox'[c][Len(inbox[c]) + 1] = 0
      BY <1>4, <2>2, AppendPlaces
    <3>2. at[c] = "attached" /\ rt[c] \in Runtimes /\ seqs[c][rt[c]] \in Nat
      BY <1>3, <2>2 DEF InboxInOrder, StreamInv, TypeOK
    <3>3. \A i \in 1..Len(inbox[c]) : inbox[c][i] # 0
      BY <1>3, <2>2 DEF InboxInOrder
    <3>4. InboxInOrder(c)'
      BY <1>3, <1>4, <3>1, <3>2, <3>3 DEF InboxInOrder
    <3>5. ViewInOrder(c)'
      BY <1>3, <3>1 DEF ViewInOrder
    <3> QED BY <3>4, <3>5
  <2> QED BY <2>1, <2>2
<1>7. Projections' = Projections
  BY DEF Projections
<1>8. connects'[c] >= connects[c]
  BY DEF StreamInv, TypeOK
<1>9. Reaches(c) => Reaches(c)'
  <2>1. Retained' = Retained /\ Seen(c)' = Seen(c)
    BY DEF Retained, Seen
  <2>2. ToSet(inbox[c]) \subseteq ToSet(inbox'[c])
    <3>1. CASE sub[c] = None
      BY <1>4, <3>1
    <3>2. CASE sub[c] # None
      <4>1. /\ DOMAIN inbox[c] = 1..Len(inbox[c]) /\ DOMAIN inbox'[c] = 1..Len(inbox[c]) + 1
            /\ \A i \in 1..Len(inbox[c]) : inbox'[c][i] = inbox[c][i]
        BY <1>4, <3>2, AppendPlaces
      <4>2. \A i \in 1..Len(inbox[c]) : i \in 1..Len(inbox[c]) + 1
        BY <1>4
      <4> QED BY <4>1, <4>2 DEF ToSet
    <3> QED BY <3>1, <3>2
  <2> QED BY <1>4, <2>1, <2>2 DEF Reaches
<1> QED BY <1>1, <1>2, <1>5, <1>6, <1>7, <1>8, <1>9, StepWithOldProjections DEF Gapless

\* A second event of a runtime behind the first one.
LEMMA ReadKeeps ==
    ASSUME StreamConstants, StreamInv, NEW c \in Clients, Read(c)
    PROVE  StreamInv'
<1> USE DEF Read, hubVars, viewVars
<1>1. PICK e \in Events : e = Head(wire[c]) /\ Dispatch(c, e)
  BY DEF StreamInv, TypeOK
<1>2. /\ wire[c] \in Seq(Events) /\ wire[c] # <<>> /\ wire'[c] = Tail(wire[c])
      /\ e.rt \in Runtimes /\ e.seq \in Nat \ {0}
      /\ seqs[c] \in [Runtimes -> Nat] /\ link[c] = "up"
      /\ buffer[c] \in [Runtimes -> Seq(Nat \ {0})] /\ inbox[c] \in Seq(Nat)
      /\ connects' = connects /\ link' = link
  BY <1>1 DEF StreamInv, TypeOK, Events
<1>3. /\ Tail(wire[c]) \in Seq(Events) /\ Len(wire[c]) \in Nat \ {0}
      /\ Len(Tail(wire[c])) = Len(wire[c]) - 1 /\ wire[c][1] = e
      /\ \A i \in 1..Len(Tail(wire[c])) :
            i + 1 \in 1..Len(wire[c]) /\ Tail(wire[c])[i] = wire[c][i + 1]
      /\ \A i \in 1..Len(wire[c]) : wire[c][i] \in Events
  BY <1>1, <1>2, TailPlaces
<1>4. SocketInOrder(c) /\ InboxInOrder(c) /\ ViewInOrder(c) /\ HubInOrder
  BY DEF StreamInv
<1>5. \A x \in Clients \ {c} : Same(x)
  BY <1>1 DEF Same, Dispatch, StreamInv, TypeOK
<1>6. Projections' = Projections
  BY DEF Projections
<1>7. /\ \A i \in 1..Len(wire'[c]) :
            /\ wire'[c][i].rt \in begun
            /\ wire'[c][i].rt = active => wire'[c][i].seq <= next
      /\ \A i, j \in 1..Len(wire'[c]) :
            i < j /\ wire'[c][i].rt = wire'[c][j].rt => wire'[c][i].seq < wire'[c][j].seq
  <2> HIDE DEF Read
  <2>1. \A i \in 1..Len(wire'[c]) :
           i \in Nat /\ i + 1 \in 1..Len(wire[c]) /\ wire'[c][i] = wire[c][i + 1]
    BY <1>2, <1>3
  <2>2. ASSUME NEW i \in 1..Len(wire'[c])
        PROVE  /\ wire'[c][i].rt \in begun
               /\ wire'[c][i].rt = active => wire'[c][i].seq <= next
    <3>1. wire[c][i + 1].rt \in begun /\ (wire[c][i + 1].rt = active => wire[c][i + 1].seq <= next)
      BY <1>4, <2>1 DEF SocketInOrder
    <3> QED BY <2>1, <3>1
  <2>3. ASSUME NEW i \in 1..Len(wire'[c]), NEW j \in 1..Len(wire'[c]),
               i < j, wire'[c][i].rt = wire'[c][j].rt
        PROVE  wire'[c][i].seq < wire'[c][j].seq
    <3>1. i \in Nat /\ j \in Nat /\ i + 1 < j + 1
      BY <2>1, <2>3
    <3>3. wire[c][i + 1].rt = wire[c][j + 1].rt
      BY <2>1, <2>3
    <3>2. wire[c][i + 1].seq < wire[c][j + 1].seq
      BY <1>4, <2>1, <3>1, <3>3 DEF SocketInOrder
    <3> QED BY <2>1, <3>2
  <2> QED BY <2>2, <2>3
<1>8. /\ e.rt \in begun /\ (e.rt = active => e.seq <= next)
      /\ \A i \in 2..Len(wire[c]) : wire[c][i].rt = e.rt => wire[c][i].seq > e.seq
  BY <1>3, <1>4 DEF SocketInOrder
\* What is left on the wire, for the runtime in progress.
<1>9. ASSUME NEW n \in Retained, [rt |-> active, seq |-> n] \in ToSet(wire[c])
      PROVE  \/ [rt |-> active, seq |-> n] \in ToSet(wire'[c])
             \/ e.rt = active /\ e.seq = n
  <2>1. PICK i \in 1..Len(wire[c]) : wire[c][i] = [rt |-> active, seq |-> n]
    <3>1. DOMAIN wire[c] = 1..Len(wire[c])
      BY <1>2
    <3> QED BY <1>9, <3>1 DEF ToSet
  <2>2. CASE i = 1
    BY <1>3, <2>1, <2>2
  <2>3. CASE i # 1
    <3>1. i - 1 \in 1..Len(Tail(wire[c])) /\ (i - 1) + 1 = i
      BY <1>3, <2>3
    <3>2. Tail(wire[c])[i - 1] = [rt |-> active, seq |-> n]
      BY <1>3, <2>1, <3>1
    <3>3. i - 1 \in DOMAIN wire'[c]
      BY <1>2, <1>3, <3>1
    <3> QED BY <1>2, <3>2, <3>3 DEF ToSet
  <2> QED BY <2>2, <2>3
<1>10. wire' \in [Clients -> Seq(Events)]
  BY <1>3 DEF StreamInv, TypeOK
\* What remains to be shown of either case.
<1>11. ASSUME TypeOK', SocketInOrder(c)', InboxInOrder(c)', ViewInOrder(c)',
              Reaches(c) /\ connects[c] <= 1 => Reaches(c)'
       PROVE  StreamInv'
  <2>1. Projections' \subseteq Projections \cup {Blank}
    BY <1>6
  <2>2. connects'[c] = connects[c] /\ connects[c] \in Nat
    BY <1>2 DEF StreamInv, TypeOK
  <2>3. Gapless /\ (\A x \in Clients : connects[x] <= 1) /\ connects'[c] <= 1 => Reaches(c)'
    BY <1>11 DEF Gapless
  <2> QED BY <1>5, <1>11, <2>1, <2>2, <2>3, StepWithOldProjections
<1>12. CASE e.seq <= seqs[c][e.rt]
  <2>1. UNCHANGED <<seqs, inbox, buffer>>
    BY <1>1, <1>12 DEF Dispatch
  <2>2. TypeOK'
    BY <1>10, <2>1 DEF StreamInv, TypeOK
  <2>3. SocketInOrder(c)'
    BY <1>4, <1>7, <2>1 DEF SocketInOrder
  <2>4. InboxInOrder(c)' /\ ViewInOrder(c)'
    BY <1>4, <2>1 DEF InboxInOrder, ViewInOrder
  <2>5. ASSUME Reaches(c) PROVE Reaches(c)'
    <3>1. Retained' = Retained /\ seqs'[c] = seqs[c] /\ active' = active
      BY <2>1 DEF Retained
    <3>2. ASSUME NEW n \in Retained, n > seqs[c][active]
          PROVE  [rt |-> active, seq |-> n] \in ToSet(wire'[c])
      <4>1. [rt |-> active, seq |-> n] \in ToSet(wire[c])
        BY <1>2, <2>5, <3>2 DEF Reaches
      <4>2. ~(e.rt = active /\ e.seq = n)
        BY <1>2, <1>12, <3>2
      <4> QED BY <1>9, <4>1, <4>2
    <3> QED BY <1>2, <2>1, <2>5, <3>1, <3>2 DEF Reaches, Seen
  <2> QED BY <1>11, <2>2, <2>3, <2>4, <2>5
<1>13. CASE e.seq > seqs[c][e.rt]
  <2>1. /\ seqs'[c] = [seqs[c] EXCEPT ![e.rt] = e.seq]
        /\ seqs' \in [Clients -> [Runtimes -> Nat]]
    <3>1. seqs' = [seqs EXCEPT ![c][e.rt] = e.seq]
      BY <1>1, <1>2, <1>13 DEF Dispatch
    <3> QED BY <1>2, <3>1 DEF StreamInv, TypeOK
  <2>2. \A r \in Runtimes : seqs'[c][r] = IF r = e.rt THEN e.seq ELSE seqs[c][r]
    BY <1>2, <2>1
  <2>3. \A r \in Runtimes : seqs'[c][r] >= seqs[c][r] /\ seqs[c][r] \in Nat /\ seqs'[c][r] \in Nat
    BY <1>2, <1>13, <2>2
  <2>4. /\ \A r \in Runtimes : r \notin begun => seqs'[c][r] = 0
        /\ \A r \in Runtimes : r = active => seqs'[c][r] <= next
    BY <1>4, <1>8, <2>2 DEF SocketInOrder
  <2>5. link[c] # "off" /\ connects[c] # 0
    BY <1>2, <1>4 DEF SocketInOrder
  \* An event that was retained and is not to come has been read before, or is e.
  <2>6. ASSUME Reaches(c), NEW n \in Retained, active # None
        PROVE  IF n > seqs'[c][active] THEN [rt |-> active, seq |-> n] \in ToSet(wire'[c])
               ELSE n <= seqs[c][active] \/ (e.rt = active /\ n = e.seq)
    <3>1. active \in Runtimes /\ n \in Nat
      BY <2>6 DEF StreamInv, TypeOK, Retained, ToSet
    <3>2. CASE n > seqs[c][active]
      <4>1. [rt |-> active, seq |-> n] \in ToSet(wire[c])
        BY <1>2, <2>6, <3>2 DEF Reaches
      <4>2. CASE [rt |-> active, seq |-> n] \in ToSet(wire'[c])
        <5>1. n > seqs'[c][active]
          <6>1. CASE e.rt # active
            BY <2>2, <3>1, <3>2, <6>1
          <6>2. CASE e.rt = active
            <7>1. PICK i \in 1..Len(wire'[c]) : wire'[c][i] = [rt |-> active, seq |-> n]
              <8>1. DOMAIN wire'[c] = 1..Len(wire'[c])
                BY <1>2, <1>3
              <8> QED BY <4>2, <8>1 DEF ToSet
            <7>2. i + 1 \in 2..Len(wire[c]) /\ wire[c][i + 1] = [rt |-> active, seq |-> n]
              <8>1. i + 1 \in 1..Len(wire[c]) /\ wire[c][i + 1] = wire'[c][i]
                BY <1>2, <1>3, <7>1
              <8> QED BY <1>3, <7>1, <8>1
            <7>3. n > e.seq
              BY <1>8, <6>2, <7>2
            <7> QED BY <2>2, <3>1, <6>2, <7>3
          <6> QED BY <6>1, <6>2
        <5> QED BY <4>2, <5>1
      <4>3. CASE e.rt = active /\ e.seq = n
        BY <1>2, <2>2, <3>1, <4>3
      <4> QED BY <1>9, <4>1, <4>2, <4>3
    <3>3. CASE ~(n > seqs[c][active])
      <4>1. n <= seqs[c][active] /\ ~(n > seqs'[c][active])
        BY <2>3, <3>1, <3>3
      <4> QED BY <4>1
    <3> QED BY <3>2, <3>3
  <2>7. active = None => Retained = {}
    BY <1>4 DEF HubInOrder, Retained, ToSet
  <2>8. CASE sub[c] = e.rt
    <3>1. inbox' = [inbox EXCEPT ![c] = Append(@, e.seq)] /\ buffer' = buffer
      BY <1>1, <1>2, <1>13, <2>8 DEF Dispatch
    <3>2. /\ inbox'[c] = Append(inbox[c], e.seq) /\ inbox'[c] \in Seq(Nat)
          /\ Len(inbox[c]) \in Nat /\ Len(inbox'[c]) = Len(inbox[c]) + 1
          /\ \A i \in 1..Len(inbox[c]) : inbox'[c][i] = inbox[c][i]
          /\ inbox'[c][Len(inbox[c]) + 1] = e.seq
          /\ \A i \in 1..Len(inbox[c]) : inbox[c][i] \in Nat
      <4>1. inbox'[c] = Append(inbox[c], e.seq)
        BY <3>1 DEF StreamInv, TypeOK
      <4> QED BY <1>2, <4>1, AppendPlaces
    <3>3. TypeOK'
      <4>1. inbox' \in [Clients -> Seq(Nat)]
        BY <1>2, <3>1 DEF StreamInv, TypeOK
      <4> QED BY <1>10, <2>1, <3>1, <4>1 DEF StreamInv, TypeOK
    <3>4. at[c] = "attached" /\ rt[c] = e.rt /\ sub[c] # None
      BY <1>2, <1>4, <2>8 DEF InboxInOrder, StreamConstants
    <3>5. \A i \in 1..Len(inbox[c]) : inbox[c][i] # 0 /\ inbox[c][i] < e.seq
      <4>1. ASSUME NEW i \in 1..Len(inbox[c])
            PROVE  inbox[c][i] # 0 /\ inbox[c][i] <= seqs[c][e.rt]
        BY <1>4, <3>4 DEF InboxInOrder
      <4>2. \A i \in 1..Len(inbox[c]) : inbox[c][i] \in Nat
        BY <3>2
      <4> QED BY <1>2, <1>13, <4>1, <4>2
    <3>6. SocketInOrder(c)'
      <4>1. \A r \in Runtimes : \A i \in 1..Len(buffer[c][r]) :
               buffer[c][r][i] <= seqs[c][r] /\ buffer[c][r][i] \in Nat
        BY <1>2, <1>4 DEF SocketInOrder
      <4>2. \A r \in Runtimes : \A i \in 1..Len(buffer[c][r]) : buffer[c][r][i] <= seqs'[c][r]
        BY <2>3, <4>1
      <4> QED BY <1>4, <1>7, <2>4, <2>5, <3>1, <4>2 DEF SocketInOrder
    <3>7. InboxInOrder(c)'
      <4>1. \A i \in 1..Len(inbox'[c]) : inbox'[c][i] # 0 /\ inbox'[c][i] <= seqs'[c][rt[c]]
        <5>1. seqs'[c][rt[c]] = e.seq /\ e.seq # 0 /\ e.seq \in Nat
          BY <1>2, <2>2, <3>4
        <5>2. ASSUME NEW i \in 1..Len(inbox'[c])
              PROVE  inbox'[c][i] # 0 /\ inbox'[c][i] <= e.seq
          <6>1. CASE i = Len(inbox[c]) + 1
            BY <3>2, <5>1, <6>1
          <6>2. CASE i # Len(inbox[c]) + 1
            <7>1. i \in 1..Len(inbox[c])
              BY <3>2, <6>2
            <7> QED BY <3>2, <3>5, <5>1, <7>1
          <6> QED BY <6>1, <6>2
        <5> QED BY <5>1, <5>2
      <4>2. \A i, j \in 1..Len(inbox'[c]) :
               i < j => inbox'[c][i] # 0 /\ (inbox'[c][j] = 0 \/ inbox'[c][i] < inbox'[c][j])
        <5>1. ASSUME NEW i \in 1..Len(inbox'[c]), NEW j \in 1..Len(inbox'[c]), i < j
              PROVE  inbox'[c][i] # 0 /\ (inbox'[c][j] = 0 \/ inbox'[c][i] < inbox'[c][j])
          <6>1. i \in 1..Len(inbox[c])
            BY <3>2, <5>1
          <6>2. CASE j = Len(inbox[c]) + 1
            BY <3>2, <3>5, <6>1, <6>2
          <6>3. CASE j # Len(inbox[c]) + 1
            <7>1. j \in 1..Len(inbox[c])
              BY <3>2, <6>3
            <7> QED BY <1>4, <3>2, <5>1, <6>1, <7>1 DEF InboxInOrder
          <6> QED BY <6>2, <6>3
        <5> QED BY <5>1
      <4> QED BY <1>4, <3>4, <4>1, <4>2 DEF InboxInOrder
    <3>8. ViewInOrder(c)'
      <4>1. CASE view[c].rt # rt[c]
        BY <1>4, <4>1 DEF ViewInOrder
      <4>2. CASE view[c].rt = rt[c]
        <5>1. /\ view[c].seq \in Nat /\ base[c] \in Nat
              /\ view[c].seq <= base[c] \/ view[c].seq <= seqs[c][rt[c]]
              /\ \A i \in 1..Len(inbox[c]) :
                    inbox[c][i] = 0 \/ inbox[c][i] <= base[c] \/ inbox[c][i] > view[c].seq
          BY <1>4, <3>4, <4>2 DEF ViewInOrder, StreamInv, TypeOK, Views
        <5>2. view[c].seq <= base[c] \/ view[c].seq <= seqs'[c][rt[c]]
          BY <1>2, <2>3, <3>4, <5>1
        <5>3. e.seq <= base[c] \/ e.seq > view[c].seq
          BY <1>2, <1>13, <2>3, <3>4, <5>1
        <5>4. \A i \in 1..Len(inbox'[c]) :
                 inbox'[c][i] = 0 \/ inbox'[c][i] <= base[c] \/ inbox'[c][i] > view[c].seq
          <6>1. ASSUME NEW i \in 1..Len(inbox'[c])
                PROVE  inbox'[c][i] = 0 \/ inbox'[c][i] <= base[c] \/ inbox'[c][i] > view[c].seq
            <7>1. CASE i = Len(inbox[c]) + 1
              BY <3>2, <5>3, <7>1
            <7>2. CASE i # Len(inbox[c]) + 1
              <8>1. i \in 1..Len(inbox[c])
                BY <3>2, <7>2
              <8> QED BY <3>2, <5>1, <8>1
            <7> QED BY <7>1, <7>2
          <6> QED BY <6>1
        <5> QED BY <1>4, <5>2, <5>4 DEF ViewInOrder
      <4> QED BY <4>1, <4>2
    <3>9. ASSUME Reaches(c) PROVE Reaches(c)'
      <4>1. /\ DOMAIN inbox[c] = 1..Len(inbox[c])
            /\ DOMAIN inbox'[c] = 1..Len(inbox[c]) + 1
        BY <1>2, <3>2
      <4>2. e.seq \in ToSet(inbox'[c]) /\ ToSet(inbox[c]) \subseteq ToSet(inbox'[c])
        BY <3>2, <4>1 DEF ToSet
      <4>3. Retained' = Retained /\ Seen(c)' = Seen(c)
        BY DEF Retained, Seen
      <4>4. ASSUME NEW n \in Retained, active # None, ~(n > seqs'[c][active])
            PROVE  IF at[c] = "attached" /\ rt[c] = active
                   THEN n \in Seen(c) \cup ToSet(inbox'[c]) ELSE n \in ToSet(buffer[c][active])
        <5>1. n \in Nat /\ seqs[c][active] \in Nat
          BY <2>3, <4>4 DEF StreamInv, TypeOK, Retained, ToSet
        <5>2. CASE n <= seqs[c][active]
          <6>1. ~(n > seqs[c][active])
            BY <5>1, <5>2
          <6>2. IF at[c] = "attached" /\ rt[c] = active
                THEN n \in Seen(c) \cup ToSet(inbox[c]) ELSE n \in ToSet(buffer[c][active])
            BY <1>2, <3>9, <4>4, <6>1 DEF Reaches
          <6> QED BY <4>2, <6>2
        <5>3. CASE ~(n <= seqs[c][active])
          <6>1. e.rt = active /\ n = e.seq
            BY <2>6, <3>9, <4>4, <5>3
          <6> QED BY <3>4, <4>2, <6>1
        <5> QED BY <5>2, <5>3
      <4>5. \A n \in Retained : n > seqs'[c][active] /\ active # None =>
               [rt |-> active, seq |-> n] \in ToSet(wire'[c])
        BY <2>6, <3>9
      <4> QED BY <2>7, <3>1, <4>3, <4>4, <4>5 DEF Reaches
    <3> QED BY <1>11, <3>3, <3>6, <3>7, <3>8, <3>9
  <2>9. CASE sub[c] # e.rt
    <3>1. /\ inbox' = inbox
          /\ buffer' = [buffer EXCEPT ![c][e.rt] = Last_(Append(@, e.seq), MaxBuffered)]
      BY <1>1, <1>2, <1>13, <2>9 DEF Dispatch
    <3>2. PICK b : b = buffer[c][e.rt]
      OBVIOUS
    <3>3. PICK q : q = Last_(Append(b, e.seq), MaxBuffered)
      OBVIOUS
    <3>4. \A r \in Runtimes : buffer'[c][r] = IF r = e.rt THEN q ELSE buffer[c][r]
      BY <3>1, <3>2, <3>3 DEF StreamInv, TypeOK
    <3>5. /\ b \in Seq(Nat \ {0}) /\ Ascending(b) /\ \A i \in 1..Len(b) : b[i] < e.seq
      <4>1. b \in Seq(Nat \ {0}) /\ \A i \in 1..Len(b) : b[i] \in Nat
        BY <1>2, <3>2
      <4> QED BY <1>2, <1>4, <1>13, <3>2, <4>1 DEF SocketInOrder
    <3>6. /\ q \in Seq(Nat \ {0}) /\ Len(q) <= MaxBuffered /\ Ascending(q)
          /\ \A i \in 1..Len(q) : q[i] <= e.seq
          /\ e.seq \in ToSet(q)
          /\ \A x \in ToSet(b) : x \in ToSet(q) \/ x + MaxBuffered <= e.seq
      <4>1. MaxBuffered \in Nat \ {0} /\ e.seq \in Nat \ {0}
        BY <1>2 DEF StreamConstants
      <4>2. /\ b \in Seq(Nat \ {0}) /\ Ascending(b) /\ \A i \in 1..Len(b) : b[i] < e.seq
            /\ q = Last_(Append(b, e.seq), MaxBuffered)
        BY <3>3, <3>5
      <4>3. PICK n \in Nat \ {0} : n = e.seq
        BY <4>1
      <4>4. \A i \in 1..Len(b) : b[i] < n
        BY <4>2, <4>3
      <4>5. q = Last_(Append(b, n), MaxBuffered)
        BY <4>2, <4>3
      <4>6. /\ q \in Seq(Nat \ {0}) /\ Len(q) <= MaxBuffered /\ Ascending(q)
            /\ \A i \in 1..Len(q) : q[i] <= n
            /\ n \in ToSet(q)
            /\ \A x \in ToSet(b) : x \in ToSet(q) \/ x + MaxBuffered <= n
        BY <4>1, <4>2, <4>4, <4>5, Queued
      <4> QED BY <4>3, <4>6
    <3>7. TypeOK'
      <4>1. \A x \in Clients \ {c} : buffer'[x] = buffer[x]
        BY <3>1 DEF StreamInv, TypeOK
      <4>2. buffer' \in [Clients -> [Runtimes -> Seq(Nat \ {0})]]
        BY <1>2, <3>1, <3>2, <3>3, <3>6 DEF StreamInv, TypeOK
      <4>3. \A x \in Clients, r \in Runtimes : Len(buffer'[x][r]) <= MaxBuffered
        BY <3>4, <3>6, <4>1 DEF StreamInv, TypeOK
      <4> QED BY <1>10, <2>1, <3>1, <4>2, <4>3 DEF StreamInv, TypeOK
    <3>8. SocketInOrder(c)'
      <4>1. ASSUME NEW r \in Runtimes
            PROVE  /\ Ascending(buffer'[c][r])
                   /\ \A i \in 1..Len(buffer'[c][r]) : buffer'[c][r][i] <= seqs'[c][r]
        <5>1. CASE r = e.rt
          BY <2>2, <3>4, <3>6, <5>1
        <5>2. CASE r # e.rt
          BY <1>4, <2>2, <3>4, <5>2 DEF SocketInOrder
        <5> QED BY <5>1, <5>2
      <4> QED BY <1>4, <1>7, <2>4, <2>5, <4>1 DEF SocketInOrder
    <3>9. \A i \in 1..Len(inbox[c]) : inbox[c][i] <= seqs'[c][rt[c]]
      <4>1. ASSUME NEW i \in 1..Len(inbox[c]) PROVE inbox[c][i] <= seqs'[c][rt[c]]
        <5>1. rt[c] \in Runtimes
          BY <1>4, <4>1 DEF InboxInOrder, StreamInv, TypeOK
        <5>2. inbox[c][i] <= seqs[c][rt[c]] /\ inbox[c][i] \in Nat
          BY <1>2, <1>4 DEF InboxInOrder
        <5> QED BY <2>3, <5>1, <5>2
      <4> QED BY <4>1
    <3>10. InboxInOrder(c)'
      BY <1>4, <3>1, <3>9 DEF InboxInOrder
    <3>11. ViewInOrder(c)'
      <4>1. CASE at[c] = "attached" /\ view[c].rt = rt[c]
        <5>1. rt[c] \in Runtimes /\ view[c].seq \in Nat /\ base[c] \in Nat
          BY <1>4, <4>1 DEF InboxInOrder, StreamInv, TypeOK, Views
        <5>2. view[c].seq <= base[c] \/ view[c].seq <= seqs'[c][rt[c]]
          BY <1>4, <2>3, <4>1, <5>1 DEF ViewInOrder
        <5> QED BY <1>4, <3>1, <4>1, <5>2 DEF ViewInOrder
      <4>2. CASE ~(at[c] = "attached" /\ view[c].rt = rt[c])
        BY <1>4, <4>2 DEF ViewInOrder
      <4> QED BY <4>1, <4>2
    <3>12. ASSUME Reaches(c), connects[c] <= 1 PROVE Reaches(c)'
      <4>1. Retained' = Retained /\ Seen(c)' = Seen(c)
        BY DEF Retained, Seen
      <4>2. ASSUME NEW n \in Retained, active # None, ~(n > seqs'[c][active]),
                   at[c] = "attached" /\ rt[c] = active
            PROVE  n \in Seen(c) \cup ToSet(inbox[c])
        <5>1. e.rt # active
          BY <1>2, <1>4, <2>9, <3>12, <4>2 DEF InboxInOrder
        <5>2. n <= seqs[c][active]
          BY <2>6, <3>12, <4>2, <5>1
        <5>3. n \in Nat /\ seqs[c][active] \in Nat
          BY <2>3, <4>2 DEF StreamInv, TypeOK, Retained, ToSet
        <5>4. ~(n > seqs[c][active])
          BY <5>2, <5>3
        <5> QED BY <1>2, <3>12, <4>2, <5>4 DEF Reaches
      <4>3. ASSUME NEW n \in Retained, active # None, ~(n > seqs'[c][active]),
                   ~(at[c] = "attached" /\ rt[c] = active)
            PROVE  n \in ToSet(buffer'[c][active])
        <5>1. /\ active \in Runtimes /\ n \in Nat /\ seqs[c][active] \in Nat
              /\ next \in Nat /\ MaxBuffered \in Nat /\ n + MaxBuffered > next
          BY <2>3, <4>3 DEF StreamInv, TypeOK, Retained, ToSet, StreamConstants
        <5>2. CASE n <= seqs[c][active]
          <6>1. n \in ToSet(buffer[c][active])
            <7>1. ~(n > seqs[c][active])
              BY <5>1, <5>2
            <7> QED BY <1>2, <3>12, <4>3, <7>1 DEF Reaches
          <6>2. CASE e.rt # active
            BY <3>4, <5>1, <6>1, <6>2
          <6>3. CASE e.rt = active
            <7>1. ~(n + MaxBuffered <= e.seq)
              BY <1>2, <1>8, <5>1, <6>3
            <7> QED BY <3>2, <3>4, <3>6, <5>1, <6>1, <6>3, <7>1
          <6> QED BY <6>2, <6>3
        <5>3. CASE ~(n <= seqs[c][active])
          <6>1. e.rt = active /\ n = e.seq
            BY <2>6, <3>12, <4>3, <5>3
          <6> QED BY <3>4, <3>6, <5>1, <6>1
        <5> QED BY <5>2, <5>3
      <4>4. \A n \in Retained : n > seqs'[c][active] /\ active # None =>
               [rt |-> active, seq |-> n] \in ToSet(wire'[c])
        BY <2>6, <3>12
      <4> QED BY <2>7, <3>1, <4>1, <4>2, <4>3, <4>4 DEF Reaches
    <3> QED BY <1>11, <3>7, <3>8, <3>10, <3>11, <3>12
  <2> QED BY <2>8, <2>9
<1> QED BY <1>2, <1>12, <1>13

-------------------------------------------------------------------------------
(***************************************************************************)
(* Attachments.                                                            *)
(***************************************************************************)
LEMMA HydrateKeeps ==
    ASSUME StreamConstants, StreamInv, NEW c \in Clients, Hydrate(c)
    PROVE  StreamInv'
<1> USE DEF Hydrate, hubVars, socketVars, viewVars
<1>1. TypeOK'
  BY DEF StreamInv, TypeOK
<1>2. \A x \in Clients \ {c} : Same(x)
  BY DEF Same, StreamInv, TypeOK
<1>3. SocketInOrder(c) /\ InboxInOrder(c) /\ ViewInOrder(c)
  BY DEF StreamInv
<1>4. at[c] = "none" /\ at'[c] = "hydrated" /\ link[c] = "up" /\ connects[c] \in Nat
  BY DEF StreamInv, TypeOK
<1>5. SocketInOrder(c)'
  BY <1>3, <1>4 DEF SocketInOrder
<1>6. InboxInOrder(c)' /\ ViewInOrder(c)'
  BY <1>3, <1>4 DEF InboxInOrder, ViewInOrder
<1>7. Projections' \subseteq Projections \cup {Blank}
  BY DEF Projections, StreamInv, TypeOK
<1>8. Retained' = Retained /\ Seen(c)' = Seen(c)
  BY DEF Retained, Seen
<1>9. Reaches(c) => Reaches(c)'
  BY <1>4, <1>8 DEF Reaches
<1> QED BY <1>1, <1>2, <1>4, <1>5, <1>6, <1>7, <1>9, StepWithOldProjections DEF Gapless

LEMMA AskKeeps ==
    ASSUME StreamConstants, StreamInv, NEW c \in Clients, Ask(c)
    PROVE  StreamInv'
<1> USE DEF Ask, hubVars, socketVars, viewVars
<1>1. TypeOK'
  <2>1. Blank \in Views /\ active \in Runtimes \cup {None}
    BY DEF Blank, Views, StreamInv, TypeOK
  <2>2. /\ at' \in [Clients -> {"none", "hydrated", "asked", "started", "orphaned", "attached"}]
        /\ rt' \in [Clients -> Runtimes \cup {None}] /\ draft' \in [Clients -> Views]
    BY <2>1 DEF StreamInv, TypeOK
  <2> QED BY <2>2, Zenon DEF StreamInv, TypeOK, attachVars
<1>2. \A x \in Clients \ {c} : Same(x)
  BY DEF Same, StreamInv, TypeOK
<1>3. SocketInOrder(c) /\ InboxInOrder(c) /\ ViewInOrder(c) /\ HubInOrder
  BY DEF StreamInv
<1>4. /\ at[c] = "hydrated" /\ connects[c] \in Nat
      /\ \/ at'[c] = "asked" /\ rt'[c] = active /\ active # None /\ link[c] = "up"
         \/ at'[c] = "none" /\ rt'[c] = rt[c]
  BY DEF StreamInv, TypeOK
<1>5. SocketInOrder(c)'
  BY <1>3, <1>4 DEF SocketInOrder
<1>6. InboxInOrder(c)' /\ ViewInOrder(c)'
  BY <1>3, <1>4 DEF InboxInOrder, ViewInOrder, HubInOrder
<1>7. Projections' \subseteq Projections \cup {Blank}
  BY DEF Projections, StreamInv, TypeOK
<1>8. Retained' = Retained
  BY DEF Retained
<1>9. Reaches(c) => Reaches(c)'
  BY <1>4, <1>8 DEF Reaches
<1> QED BY <1>1, <1>2, <1>4, <1>5, <1>6, <1>7, <1>9, StepWithOldProjections DEF Gapless

\* What installing the hydrated session does to the projections.
LEMMA Installs ==
    ASSUME StreamConstants, StreamInv, NEW c \in Clients, Install(c)
    PROVE  /\ at'[c] = "attached" /\ view'[c] = draft[c] /\ rt' = rt
           /\ base'[c] = IF draft[c].rt = rt[c] THEN draft[c].seq ELSE 0
           /\ draft[c] \in Views
           /\ at' \in [Clients -> {"none", "hydrated", "asked", "started", "orphaned", "attached"}]
           /\ view' \in [Clients -> Views] /\ base' \in [Clients -> Nat]
           /\ draft' \in [Clients -> Views]
           /\ Projections' \subseteq Projections \cup {Blank}
           /\ \A x \in Clients \ {c} :
                 /\ link'[x] = link[x] /\ connects'[x] = connects[x] /\ wire'[x] = wire[x]
                 /\ seqs'[x] = seqs[x] /\ at'[x] = at[x] /\ rt'[x] = rt[x]
                 /\ view'[x] = view[x] /\ base'[x] = base[x]
<1> USE DEF Install, hubVars
<1>1. draft[c] \in Views /\ Blank \in Views /\ draft[c].seq \in Nat
  BY DEF StreamInv, TypeOK, Views, Blank
<1>2. Projections' \subseteq Projections \cup {Blank}
  BY DEF Projections, StreamInv, TypeOK
<1> QED BY <1>1, <1>2 DEF StreamInv, TypeOK

LEMMA SubscribeKeeps ==
    ASSUME StreamConstants, StreamInv, NEW c \in Clients, Subscribe(c)
    PROVE  StreamInv'
<1>1. /\ at[c] \in {"asked", "started"} /\ Install(c) /\ UNCHANGED hubVars
      /\ UNCHANGED <<link, connects, wire, seqs, rt, stored, saving>>
      /\ sub' = [sub EXCEPT ![c] = rt[c]]
      /\ inbox' = [inbox EXCEPT ![c] = buffer[c][rt[c]]]
      /\ buffer' = [buffer EXCEPT ![c][rt[c]] = <<>>]
  BY DEF Subscribe, Install
<1>2. SocketInOrder(c) /\ InboxInOrder(c) /\ ViewInOrder(c) /\ HubInOrder
  BY DEF StreamInv
<1>3. /\ rt[c] \in Runtimes /\ rt[c] # None /\ connects[c] \in Nat
      /\ buffer[c] \in [Runtimes -> Seq(Nat \ {0})] /\ buffer[c][rt[c]] \in Seq(Nat \ {0})
      /\ seqs[c] \in [Runtimes -> Nat]
  BY <1>1, <1>2 DEF InboxInOrder, StreamInv, TypeOK
<1>4. /\ sub'[c] = rt[c] /\ inbox'[c] = buffer[c][rt[c]]
      /\ \A r \in Runtimes : buffer'[c][r] = IF r = rt[c] THEN <<>> ELSE buffer[c][r]
      /\ sub' \in [Clients -> Runtimes \cup {None}] /\ inbox' \in [Clients -> Seq(Nat)]
      /\ buffer' \in [Clients -> [Runtimes -> Seq(Nat \ {0})]]
      /\ \A x \in Clients \ {c} :
            sub'[x] = sub[x] /\ inbox'[x] = inbox[x] /\ buffer'[x] = buffer[x]
  BY <1>1, <1>3 DEF StreamInv, TypeOK
<1>5. TypeOK'
  <2>1. \A x \in Clients, r \in Runtimes : Len(buffer'[x][r]) <= MaxBuffered
    <3>1. ASSUME NEW x \in Clients, NEW r \in Runtimes PROVE Len(buffer'[x][r]) <= MaxBuffered
      <4>1. CASE x = c /\ r = rt[c]
        BY <1>4, <4>1 DEF StreamConstants
      <4>2. CASE ~(x = c /\ r = rt[c])
        BY <1>4, <4>2 DEF StreamInv, TypeOK
      <4> QED BY <4>1, <4>2
    <3> QED BY <3>1
  <2> QED BY <1>1, <1>4, <2>1, Installs DEF StreamInv, TypeOK, hubVars
<1>6. \A x \in Clients \ {c} : Same(x)
  BY <1>1, <1>4, Installs DEF Same
<1>7. SocketInOrder(c)'
  <2>1. at'[c] = "attached" /\ connects[c] # 0
    BY <1>1, <1>2, Installs DEF SocketInOrder
  <2>2. ASSUME NEW r \in Runtimes
        PROVE  /\ Ascending(buffer'[c][r])
               /\ \A i \in 1..Len(buffer'[c][r]) : buffer'[c][r][i] <= seqs[c][r]
    <3>1. CASE r = rt[c]
      BY <1>4, <3>1 DEF Ascending
    <3>2. CASE r # rt[c]
      BY <1>2, <1>4, <3>2 DEF SocketInOrder
    <3> QED BY <3>1, <3>2
  <2> QED BY <1>1, <1>2, <2>1, <2>2 DEF SocketInOrder, hubVars
<1>8. /\ \A i \in 1..Len(inbox'[c]) :
            inbox'[c][i] \in Nat \ {0} /\ inbox'[c][i] <= seqs[c][rt[c]]
      /\ \A i, j \in 1..Len(inbox'[c]) : i < j => inbox'[c][i] < inbox'[c][j]
  <2>1. /\ Ascending(inbox'[c]) /\ inbox'[c] \in Seq(Nat \ {0})
        /\ \A i \in 1..Len(inbox'[c]) : inbox'[c][i] <= seqs[c][rt[c]]
    BY <1>2, <1>3, <1>4 DEF SocketInOrder
  <2>2. \A i \in 1..Len(inbox'[c]) : inbox'[c][i] \in Nat \ {0}
    BY <2>1
  <2>3. ASSUME NEW i \in 1..Len(inbox'[c]), NEW j \in 1..Len(inbox'[c]), i < j
        PROVE  inbox'[c][i] < inbox'[c][j]
    <3>1. inbox'[c][i] + (j - i) <= inbox'[c][j]
      BY <2>1, <2>3 DEF Ascending
    <3> QED BY <2>2, <2>3, <3>1
  <2> QED BY <2>1, <2>2, <2>3
<1>9. InboxInOrder(c)'
  <2>1. at'[c] = "attached" /\ rt[c] \in begun \cup {None}
    BY <1>2, Installs, <1>1 DEF InboxInOrder
  <2>2. \A i \in 1..Len(inbox'[c]) : inbox'[c][i] # 0
    BY <1>8
  <2> QED BY <1>1, <1>3, <1>4, <1>8, <2>1, <2>2 DEF InboxInOrder, hubVars
<1>10. ViewInOrder(c)'
  <2>1. /\ view'[c] = draft[c] /\ draft[c].seq \in Nat /\ rt' = rt
        /\ base'[c] = IF draft[c].rt = rt[c] THEN draft[c].seq ELSE 0
    BY <1>1, Installs DEF Views
  <2>2. \A i \in 1..Len(inbox'[c]) : inbox'[c][i] \in Nat
    BY <1>8
  <2> QED BY <1>1, <2>1, <2>2 DEF ViewInOrder
<1>11. Reaches(c) => Reaches(c)'
  <2>1. Retained' = Retained /\ active' = active
    BY <1>1 DEF Retained, hubVars
  <2>2. at[c] # "attached" /\ at'[c] = "attached"
    BY <1>1, Installs
  <2>3. active = None => Retained = {}
    BY <1>2 DEF HubInOrder, Retained, ToSet
  <2>4. active # None => active \in Runtimes
    BY DEF StreamInv, TypeOK
  <2> QED BY <1>1, <1>4, <2>1, <2>2, <2>3, <2>4 DEF Reaches
<1>12. connects'[c] = connects[c] /\ Projections' \subseteq Projections \cup {Blank}
  BY <1>1, Installs
<1>13. Gapless /\ (\A x \in Clients : connects[x] <= 1) => Reaches(c)'
  BY <1>11 DEF Gapless
<1>14. connects'[c] >= connects[c]
  BY <1>3, <1>12
<1> QED BY <1>1, <1>5, <1>6, <1>7, <1>9, <1>10, <1>12, <1>13, <1>14, StepWithOldProjections

LEMMA SubscribeReplacedKeeps ==
    ASSUME StreamConstants, StreamInv, NEW c \in Clients, SubscribeReplaced(c)
    PROVE  StreamInv'
<1>1. /\ at[c] = "orphaned" /\ Install(c) /\ UNCHANGED hubVars
      /\ UNCHANGED <<link, connects, wire, seqs, rt, stored, saving, sub, inbox, buffer>>
  BY DEF SubscribeReplaced, Install
<1>2. SocketInOrder(c) /\ InboxInOrder(c) /\ ViewInOrder(c)
  BY DEF StreamInv
<1>3. connects[c] \in Nat /\ connects[c] > 1 /\ at'[c] = "attached"
  BY <1>1, <1>2, Installs DEF InboxInOrder, StreamInv, TypeOK
<1>4. TypeOK'
  BY <1>1, Installs DEF StreamInv, TypeOK, hubVars
<1>5. \A x \in Clients \ {c} : Same(x)
  BY <1>1, Installs DEF Same
<1>6. SocketInOrder(c)'
  BY <1>1, <1>2, <1>3 DEF SocketInOrder, hubVars
<1>7. InboxInOrder(c)'
  BY <1>1, <1>2, <1>3 DEF InboxInOrder, hubVars
<1>8. ViewInOrder(c)'
  <2>1. /\ view'[c] = draft[c] /\ draft[c].seq \in Nat
        /\ base'[c] = IF draft[c].rt = rt[c] THEN draft[c].seq ELSE 0
    BY <1>1, Installs DEF Views
  <2>2. \A i \in 1..Len(inbox[c]) : inbox[c][i] \in Nat
    BY DEF StreamInv, TypeOK
  <2> QED BY <1>1, <2>1, <2>2 DEF ViewInOrder
<1>9. connects'[c] = connects[c] /\ Projections' \subseteq Projections \cup {Blank}
  BY <1>1, Installs
<1> QED BY <1>1, <1>3, <1>4, <1>5, <1>6, <1>7, <1>8, <1>9, StepWithOldProjections

\* Ending an attachment.
LEMMA DetachedKeeps ==
    ASSUME StreamConstants, StreamInv, NEW c \in Clients, at[c] = "attached", Detached(c),
           sub' \in [Clients -> Runtimes \cup {None}], sub'[c] = None,
           \A x \in Clients \ {c} : sub'[x] = sub[x],
           connects[c] <= 1 => link[c] # "up" \/ rt[c] # active
    PROVE  StreamInv'
<1> USE DEF Detached, hubVars, socketVars, viewVars
<1>1. TypeOK'
  <2>1. /\ at' \in [Clients -> {"none", "hydrated", "asked", "started", "orphaned", "attached"}]
        /\ rt' \in [Clients -> Runtimes \cup {None}] /\ inbox' \in [Clients -> Seq(Nat)]
    BY DEF StreamInv, TypeOK
  <2> QED BY <2>1 DEF StreamInv, TypeOK
<1>2. \A x \in Clients \ {c} : Same(x)
  BY DEF Same, StreamInv, TypeOK
<1>3. SocketInOrder(c) /\ InboxInOrder(c) /\ ViewInOrder(c)
  BY DEF StreamInv
<1>4. at'[c] = "none" /\ rt'[c] = None /\ inbox'[c] = <<>> /\ connects[c] \in Nat
  BY DEF StreamInv, TypeOK
<1>5. SocketInOrder(c)'
  BY <1>3, <1>4 DEF SocketInOrder
<1>6. InboxInOrder(c)' /\ ViewInOrder(c)'
  BY <1>4 DEF InboxInOrder, ViewInOrder
<1>7. Projections' = Projections
  BY DEF Projections
<1>8. Retained' = Retained
  BY DEF Retained
<1>9. Reaches(c) /\ connects[c] <= 1 => Reaches(c)'
  BY <1>4, <1>8 DEF Reaches
<1> QED BY <1>1, <1>2, <1>4, <1>5, <1>6, <1>7, <1>9, StepWithOldProjections DEF Gapless

LEMMA ExitKeeps ==
    ASSUME StreamConstants, StreamInv, NEW c \in Clients, Exit(c)
    PROVE  StreamInv'
<1>1. /\ at[c] = "attached" /\ Detached(c) /\ sub' = sub
      /\ inbox[c] \in Seq(Nat) /\ inbox[c] # <<>> /\ Head(inbox[c]) = 0
  BY DEF Exit, StreamInv, TypeOK
<1>2. 1 \in 1..Len(inbox[c]) /\ inbox[c][1] = 0
  BY <1>1
<1>3. sub[c] = None /\ rt[c] # None
  BY <1>1, <1>2 DEF StreamInv, InboxInOrder
<1>4. connects[c] <= 1 => link[c] # "up"
  BY <1>1, <1>3 DEF StreamInv, InboxInOrder
<1> QED BY <1>1, <1>3, <1>4, DetachedKeeps DEF StreamInv, TypeOK

LEMMA LeaveKeeps ==
    ASSUME StreamConstants, StreamInv, NEW c \in Clients, Leave(c)
    PROVE  StreamInv'
<1>1. /\ at[c] = "attached" /\ rt[c] # active /\ Detached(c)
      /\ sub' = [sub EXCEPT ![c] = None]
  BY DEF Leave
<1>2. /\ sub' \in [Clients -> Runtimes \cup {None}] /\ sub'[c] = None
      /\ \A x \in Clients \ {c} : sub'[x] = sub[x]
  BY <1>1 DEF StreamInv, TypeOK
<1> QED BY <1>1, <1>2, DetachedKeeps

-------------------------------------------------------------------------------
(***************************************************************************)
(* Saves.                                                                  *)
(***************************************************************************)
LEMMA SavesKeep ==
    ASSUME StreamConstants, StreamInv, NEW c \in Clients, NEW older \in BOOLEAN,
           Save(c) \/ SaveArrives(c, older) \/ SaveFails(c)
    PROVE  StreamInv'
<1>1. UNCHANGED <<hubVars, socketVars, attachVars, viewVars>>
  BY DEF Save, SaveArrives, SaveFails
<1>2. /\ stored' \in Views /\ saving' \in [Clients -> Views \cup {None}]
      /\ Projections' \subseteq Projections
  <2>1. CASE Save(c)
    BY <1>1, <2>1 DEF Save, StreamInv, TypeOK, Projections, viewVars, attachVars
  <2>2. CASE SaveArrives(c, older)
    BY <1>1, <2>2 DEF SaveArrives, StreamInv, TypeOK, Projections, viewVars, attachVars
  <2>3. CASE SaveFails(c)
    BY <1>1, <2>3 DEF SaveFails, StreamInv, TypeOK, Projections, viewVars, attachVars
  <2> QED BY <2>1, <2>2, <2>3
<1>3. TypeOK'
  BY <1>1, <1>2 DEF StreamInv, TypeOK, hubVars, socketVars, attachVars, viewVars
<1>4. \A x \in Clients : Same(x)
  BY <1>1 DEF Same, socketVars, attachVars, viewVars
<1>5. /\ SocketInOrder(c)' /\ InboxInOrder(c)' /\ ViewInOrder(c)'
      /\ (Reaches(c) => Reaches(c)')
  BY <1>1, <1>4, Elsewhere
<1>6. connects'[c] = connects[c] /\ connects[c] \in Nat
  BY <1>1 DEF socketVars, StreamInv, TypeOK
<1> QED BY <1>1, <1>2, <1>3, <1>4, <1>5, <1>6, StepWithOldProjections DEF Gapless

-------------------------------------------------------------------------------
(***************************************************************************)
(* Folding an event in.                                                    *)
(***************************************************************************)
LEMMA ApplyKeeps ==
    ASSUME StreamConstants, StreamInv, NEW c \in Clients, Apply(c)
    PROVE  /\ StreamInv'
           /\ view'[c] # view[c] /\ view'[c].rt = view[c].rt => view'[c].seq > view[c].seq
           /\ \A x \in Clients \ {c} : view'[x] = view[x]
<1> USE DEF Apply, hubVars, socketVars
<1>1. PICK e \in Nat \ {0} :
         /\ e = Head(inbox[c])
         /\ view' = IF Skipped(c, e) THEN view
                    ELSE [view EXCEPT ![c] = [rt |-> rt[c], seq |-> e, seen |-> Seen(c) \cup {e}]]
  <2>1. PICK e \in Nat \ {0} : e = Head(inbox[c])
    BY DEF StreamInv, TypeOK
  <2> QED BY <2>1 DEF Seen
<1>2. SocketInOrder(c) /\ InboxInOrder(c) /\ ViewInOrder(c) /\ HubInOrder
  BY DEF StreamInv
<1>3. /\ at[c] = "attached" /\ at' = at /\ inbox[c] \in Seq(Nat) /\ inbox[c] # <<>>
      /\ inbox'[c] = Tail(inbox[c]) /\ rt[c] \in Runtimes /\ rt[c] # None
      /\ view[c] \in Views /\ view[c].seq \in Nat /\ view[c].seen \subseteq Nat
      /\ base[c] \in Nat /\ connects[c] \in Nat /\ seqs[c][rt[c]] \in Nat
  <2>1. /\ at[c] = "attached" /\ at' = at /\ inbox[c] # <<>> /\ inbox[c] \in Seq(Nat)
        /\ inbox' = [inbox EXCEPT ![c] = Tail(inbox[c])]
    BY DEF StreamInv, TypeOK
  <2>2. rt[c] # None /\ rt[c] \in Runtimes \cup {None}
    BY <1>2, <2>1 DEF InboxInOrder, StreamInv, TypeOK
  <2>3. inbox'[c] = Tail(inbox[c])
    BY <2>1 DEF StreamInv, TypeOK
  <2>4. view[c] \in Views /\ view[c].seq \in Nat /\ view[c].seen \subseteq Nat
    BY DEF StreamInv, TypeOK, Views
  <2>5. base[c] \in Nat /\ connects[c] \in Nat
    BY DEF StreamInv, TypeOK
  <2>6. seqs[c][rt[c]] \in Nat
    BY <2>2 DEF StreamInv, TypeOK
  <2> QED BY <2>1, <2>2, <2>3, <2>4, <2>5, <2>6
<1>4. PICK t \in Seq(Nat) :
         /\ t = inbox'[c] /\ Len(inbox[c]) \in Nat \ {0} /\ Len(t) = Len(inbox[c]) - 1
         /\ inbox[c][1] = e
         /\ \A i \in 1..Len(t) : i + 1 \in 1..Len(inbox[c]) /\ t[i] = inbox[c][i + 1]
         /\ \A i \in 1..Len(inbox[c]) : inbox[c][i] \in Nat
  BY <1>1, <1>3, TailPlaces
<1>5. \A i, j \in 1..Len(t) : i < j => i + 1 < j + 1 /\ t[i] # 0 /\ (t[j] = 0 \/ t[i] < t[j])
  <2>1. \A i, j \in 1..Len(t) : i < j => i + 1 < j + 1
    BY <1>4
  <2>2. ASSUME NEW i \in 1..Len(t), NEW j \in 1..Len(t), i < j
        PROVE  t[i] # 0 /\ (t[j] = 0 \/ t[i] < t[j])
    <3>1. i + 1 \in 1..Len(inbox[c]) /\ j + 1 \in 1..Len(inbox[c]) /\ i + 1 < j + 1
      BY <1>4, <2>1, <2>2
    <3>2. /\ inbox[c][i + 1] # 0
          /\ inbox[c][j + 1] = 0 \/ inbox[c][i + 1] < inbox[c][j + 1]
      BY <1>2, <3>1 DEF InboxInOrder
    <3> QED BY <1>4, <3>2
  <2> QED BY <2>1, <2>2
<1>6. \A i \in 1..Len(t) : t[i] = 0 \/ t[i] > e
  <2>1. \A i \in 1..Len(t) : 1 \in 1..Len(inbox[c]) /\ 1 < i + 1
    BY <1>4
  <2> QED BY <1>2, <1>4, <2>1 DEF InboxInOrder
<1>7. /\ \A i \in 1..Len(t) : t[i] <= seqs[c][rt[c]] /\ (t[i] = 0 => sub[c] = None)
      /\ e <= seqs[c][rt[c]]
  <2>1. 1 \in 1..Len(inbox[c])
    BY <1>4
  <2> QED BY <1>2, <1>4, <2>1 DEF InboxInOrder
<1>8. \A n \in ToSet(inbox[c]) : n = e \/ n \in ToSet(t)
  <2>1. DOMAIN inbox[c] = 1..Len(inbox[c]) /\ DOMAIN t = 1..Len(t)
    BY <1>3
  <2>2. ASSUME NEW i \in 1..Len(inbox[c]) PROVE inbox[c][i] = e \/ inbox[c][i] \in ToSet(t)
    <3>1. CASE i = 1
      BY <1>4, <3>1
    <3>2. CASE i # 1
      <4>1. i - 1 \in 1..Len(t) /\ (i - 1) + 1 = i
        BY <1>4, <3>2
      <4>2. t[i - 1] = inbox[c][i]
        BY <1>4, <4>1
      <4> QED BY <2>1, <4>1, <4>2 DEF ToSet
    <3> QED BY <3>1, <3>2
  <2> QED BY <2>1, <2>2 DEF ToSet
<1>9. /\ \A x \in Clients \ {c} : Same(x) /\ view'[x] = view[x]
      /\ connects'[c] >= connects[c] /\ connects'[c] = connects[c]
  BY <1>1, <1>3 DEF Same, StreamInv, TypeOK
<1>10. SocketInOrder(c)'
  BY <1>2 DEF SocketInOrder
<1>11. InboxInOrder(c)'
  BY <1>2, <1>4, <1>5, <1>7 DEF InboxInOrder
<1>12. inbox' \in [Clients -> Seq(Nat)]
  BY <1>3, <1>4 DEF StreamInv, TypeOK
<1>13. Retained' = Retained /\ active' = active
  BY DEF Retained
<1>14. \A n \in Retained : n \in Nat /\ active # None
  BY <1>2 DEF Retained, ToSet, StreamInv, TypeOK, HubInOrder
\* What is retained, and read by the client, the desktop has or will get.
<1>15. ASSUME Reaches(c), rt[c] = active, NEW n \in Retained,
              n <= seqs[c][active]
       PROVE  n \in Seen(c) \/ n = e \/ n \in ToSet(t)
  <2>1. ~(n > seqs[c][active])
    BY <1>3, <1>14, <1>15
  <2>2. n \in Seen(c) \cup ToSet(inbox[c])
    BY <1>3, <1>15, <2>1 DEF Reaches
  <2> QED BY <1>8, <2>2
<1>16. CASE Skipped(c, e)
  <2>1. view' = view /\ e <= base[c] /\ base[c] # 0
    BY <1>1, <1>3, <1>16 DEF Skipped
  <2>2. view[c].rt = rt[c] /\ base[c] <= view[c].seq
    BY <1>2, <1>3, <2>1 DEF ViewInOrder
  <2>3. TypeOK'
    BY <1>12, <2>1 DEF StreamInv, TypeOK
  <2>4. ViewInOrder(c)'
    BY <1>2, <1>3, <1>4, <2>1 DEF ViewInOrder
  <2>5. Projections' = Projections
    <3>1. stored' = stored /\ draft' = draft /\ saving' = saving
      OBVIOUS
    <3> HIDE DEF Apply
    <3> QED BY <2>1, <3>1 DEF Projections
  <2>6. ASSUME Gapless, \A x \in Clients : connects[x] <= 1 PROVE Reaches(c)'
    <3>1. Reaches(c) /\ Covers(view[c])
      BY <2>6 DEF Gapless, Projections
    <3>2. ASSUME rt[c] = active, NEW n \in Retained, ~(n > seqs[c][active])
          PROVE  n \in Seen(c) \cup ToSet(t)
      <4>1. n <= seqs[c][active]
        BY <1>3, <1>14, <3>2
      <4>2. CASE n = e
        BY <1>3, <2>1, <2>2, <3>1, <3>2, <4>2 DEF Covers, Seen
      <4> QED BY <1>15, <3>1, <3>2, <4>1, <4>2
    <3>3. Seen(c)' = Seen(c)
      BY <2>1 DEF Seen
    <3> QED BY <1>3, <1>4, <1>13, <3>1, <3>2, <3>3 DEF Reaches
  <2>7. StreamInv'
    BY <1>9, <1>10, <1>11, <2>3, <2>4, <2>5, <2>6, StepWithOldProjections
  <2> QED BY <1>9, <2>1, <2>7
<1>17. CASE ~Skipped(c, e)
  <2>1. /\ view'[c] = [rt |-> rt[c], seq |-> e, seen |-> Seen(c) \cup {e}]
        /\ ~(e <= base[c])
    BY <1>1, <1>17 DEF Skipped, StreamInv, TypeOK
  <2>2. view'[c] \in Views /\ Seen(c) \subseteq Nat
    BY <1>3, <2>1 DEF Views, Seen
  <2>3. TypeOK'
    <3>1. view' \in [Clients -> Views]
      BY <1>1, <1>17, <2>1, <2>2 DEF StreamInv, TypeOK
    <3> QED BY <1>12, <3>1 DEF StreamInv, TypeOK
  <2>4. view[c].rt = rt[c] => e > view[c].seq
    <3>1. 1 \in 1..Len(inbox[c])
      BY <1>4
    <3>2. view[c].rt = rt[c] => inbox[c][1] = 0 \/ inbox[c][1] <= base[c] \/ inbox[c][1] > view[c].seq
      BY <1>2, <1>3, <3>1 DEF ViewInOrder
    <3> QED BY <1>4, <2>1, <3>2
  <2>5. ViewInOrder(c)'
    <3>1. view'[c].rt = rt[c] /\ view'[c].seq = e
      BY <2>1
    <3>2. e > base[c]
      BY <1>3, <2>1
    <3>3. rt' = rt /\ base' = base /\ seqs' = seqs
      OBVIOUS
    <3>4. e <= seqs[c][rt[c]] /\ \A i \in 1..Len(inbox'[c]) : inbox'[c][i] = 0 \/ inbox'[c][i] > e
      BY <1>4, <1>6, <1>7
    <3>5. base[c] # 0 => view'[c].rt = rt[c] /\ base[c] <= view'[c].seq
      BY <1>3, <3>1, <3>2
    <3> QED BY <3>1, <3>3, <3>4, <3>5 DEF ViewInOrder
  <2>6. \A v \in Projections' : v \in Projections \/ v = view'[c]
    BY <1>9 DEF Projections
  <2>7. /\ view'[c].rt \in begun \cup {None}
        /\ view'[c].rt = active /\ active # None => view'[c].seq <= next
    <3>1. rt[c] = active => seqs[c][rt[c]] <= next
      BY <1>2, <1>3 DEF SocketInOrder
    <3> QED BY <1>2, <1>3, <1>7, <2>1, <3>1 DEF InboxInOrder, StreamInv, TypeOK
  <2>8. ProjectionsInOrder'
    BY <2>6, <2>7 DEF StreamInv, ProjectionsInOrder
  <2>9. Seen(c)' = Seen(c) \cup {e}
    BY <2>1 DEF Seen
  <2>10. ASSUME Gapless, \A x \in Clients : connects[x] <= 1
         PROVE  Reaches(c)' /\ (\A v \in Projections : Covers(v))'
    <3>1. Reaches(c) /\ \A v \in Projections : Covers(v)
      BY <2>10 DEF Gapless
    <3>2. ASSUME rt[c] = active, NEW n \in Retained, ~(n > seqs[c][active])
          PROVE  n \in Seen(c) \cup {e} \cup ToSet(t)
      <4>1. n <= seqs[c][active]
        BY <1>3, <1>14, <3>2
      <4> QED BY <1>15, <3>1, <3>2, <4>1
    <3>3. Reaches(c)'
      BY <1>3, <1>4, <1>13, <2>9, <3>1, <3>2 DEF Reaches
    <3>4. ASSUME rt[c] = active, NEW n \in Retained, n <= e
          PROVE  n \in Seen(c) \cup {e}
      <4>1. n \in Nat /\ n <= seqs[c][active]
        BY <1>3, <1>7, <1>14, <3>4
      <4>3. n \notin ToSet(t) \/ n = 0
        <5>1. DOMAIN t = 1..Len(t)
          OBVIOUS
        <5> QED BY <1>6, <3>4, <4>1, <5>1 DEF ToSet
      <4>4. n # 0
        BY DEF Retained, ToSet, StreamInv, TypeOK
      <4> QED BY <1>15, <3>1, <3>4, <4>1, <4>3, <4>4
    <3>5. Covers(view[c])'
      BY <1>13, <2>1, <3>4 DEF Covers
    <3>6. ASSUME NEW v \in Projections' PROVE Covers(v)'
      <4>1. CASE v \in Projections
        BY <1>13, <3>1, <4>1 DEF Covers
      <4>2. CASE v = view'[c]
        BY <3>5, <4>2 DEF Covers
      <4> QED BY <2>6, <4>1, <4>2
    <3> QED BY <3>3, <3>6
  <2>11. StreamInv'
    BY <1>9, <1>10, <1>11, <2>3, <2>5, <2>8, <2>10, StepOf
  <2>12. view'[c].rt = view[c].rt => view'[c].seq > view[c].seq
    BY <2>1, <2>4
  <2> QED BY <1>9, <2>11, <2>12
<1> QED BY <1>16, <1>17

-------------------------------------------------------------------------------
(***************************************************************************)
(* The hub.                                                                *)
(***************************************************************************)
\* With no event retained, nothing can be missing.
LEMMA NothingRetained == ASSUME journal = <<>> PROVE Gapless
<1>1. Retained = {}
  BY DEF Retained, ToSet
<1> QED BY <1>1 DEF Gapless, Covers, Reaches

\* A runtime begins, or the one in progress ends.
LEMMA HubChanges ==
    ASSUME StreamInv, UNCHANGED <<link, connects, wire, seqs, buffer, stored, saving, view, base,
                                  sub, inbox>>,
           active' \in begun' \cup {None}, begun \subseteq begun', begun' \subseteq Runtimes,
           active' \notin begun, next' = 0, journal' = <<>>
    PROVE  /\ HubInOrder' /\ Gapless'
           /\ \A x \in Clients : at'[x] = at[x] \/ link[x] = "up" => SocketInOrder(x)'
           /\ (\A v \in Projections' : v \in Projections) => ProjectionsInOrder'
<1>1. HubInOrder'
  BY DEF HubInOrder, Ascending
<1>2. Gapless'
  <2>1. Retained' = {}
    BY DEF Retained, ToSet
  <2> QED BY <2>1 DEF Gapless, Covers, Reaches
<1>3. ASSUME NEW x \in Clients, at'[x] = at[x] \/ link[x] = "up" PROVE SocketInOrder(x)'
  <2>1. SocketInOrder(x)
    BY DEF StreamInv
  <2>2. \A i \in 1..Len(wire[x]) :
           wire[x][i].rt \in begun' /\ wire[x][i].rt # active'
    BY <2>1 DEF SocketInOrder
  <2>3. \A r \in Runtimes : (r \notin begun' => seqs[x][r] = 0) /\ (r = active' => seqs[x][r] = 0)
    BY <2>1 DEF SocketInOrder
  <2>4. connects[x] = 0 => at'[x] = "none"
    BY <1>3, <2>1 DEF SocketInOrder
  <2> QED BY <2>1, <2>2, <2>3, <2>4 DEF SocketInOrder
<1>4. (\A v \in Projections' : v \in Projections) => ProjectionsInOrder'
  BY DEF StreamInv, ProjectionsInOrder
<1> QED BY <1>1, <1>2, <1>3, <1>4

LEMMA BeginKeeps ==
    ASSUME StreamConstants, StreamInv, NEW r \in Runtimes, Begin(r)
    PROVE  StreamInv'
<1> USE DEF Begin, Activate, socketVars, attachVars, viewVars
<1>1. TypeOK'
  <2>1. /\ active' \in Runtimes \cup {None} /\ begun' \subseteq Runtimes /\ next' \in Nat
        /\ journal' \in Seq(Nat \ {0}) /\ Len(journal') <= MaxReplay
    BY DEF StreamInv, TypeOK, StreamConstants
  <2> QED BY <2>1 DEF StreamInv, TypeOK
<1>2. r \notin begun /\ active' = r /\ begun' = begun \cup {r} /\ begun' \subseteq Runtimes
  BY DEF StreamInv, TypeOK
<1>3. \A v \in Projections' : v \in Projections
  BY DEF Projections
<1>4. HubInOrder' /\ Gapless' /\ ProjectionsInOrder' /\ \A x \in Clients : SocketInOrder(x)'
  BY <1>2, <1>3, HubChanges
<1>5. ASSUME NEW x \in Clients PROVE InboxInOrder(x)' /\ ViewInOrder(x)'
  BY <1>2 DEF StreamInv, InboxInOrder, ViewInOrder
<1> QED BY <1>1, <1>4, <1>5 DEF StreamInv

LEMMA StartKeeps ==
    ASSUME StreamConstants, StreamInv, NEW c \in Clients, NEW r \in Runtimes, Start(c, r)
    PROVE  StreamInv'
<1> USE DEF Start, Activate, socketVars, viewVars
<1>1. TypeOK'
  <2>1. /\ active' \in Runtimes \cup {None} /\ begun' \subseteq Runtimes /\ next' \in Nat
        /\ journal' \in Seq(Nat \ {0}) /\ Len(journal') <= MaxReplay
    BY DEF StreamInv, TypeOK, StreamConstants
  <2>2. /\ at' \in [Clients -> {"none", "hydrated", "asked", "started", "orphaned", "attached"}]
        /\ rt' \in [Clients -> Runtimes \cup {None}] /\ draft' \in [Clients -> Views]
    BY DEF StreamInv, TypeOK
  <2> QED BY <2>1, <2>2 DEF StreamInv, TypeOK
<1>2. r \notin begun /\ active' = r /\ begun' = begun \cup {r} /\ begun' \subseteq Runtimes
  BY DEF StreamInv, TypeOK
<1>3. \A v \in Projections' : v \in Projections
  BY DEF Projections, StreamInv, TypeOK
<1>4. /\ link[c] = "up" /\ at[c] = "none" /\ at'[c] = "started" /\ rt'[c] = r
      /\ \A x \in Clients \ {c} : at'[x] = at[x] /\ rt'[x] = rt[x]
  BY DEF StreamInv, TypeOK
<1>5. HubInOrder' /\ Gapless' /\ ProjectionsInOrder' /\ \A x \in Clients : SocketInOrder(x)'
  BY <1>2, <1>3, <1>4, HubChanges
<1>6. ASSUME NEW x \in Clients PROVE InboxInOrder(x)' /\ ViewInOrder(x)'
  <2>1. InboxInOrder(x) /\ ViewInOrder(x)
    BY DEF StreamInv
  <2>2. CASE x = c
    BY <1>2, <1>4, <2>1, <2>2 DEF InboxInOrder, ViewInOrder, StreamConstants
  <2>3. CASE x # c
    BY <1>2, <1>4, <2>1, <2>3 DEF InboxInOrder, ViewInOrder
  <2> QED BY <2>2, <2>3
<1> QED BY <1>1, <1>5, <1>6 DEF StreamInv

LEMMA EndKeeps ==
    ASSUME StreamConstants, StreamInv, End
    PROVE  StreamInv'
<1> USE DEF End, socketVars, attachVars, viewVars
<1>1. TypeOK'
  <2>1. /\ active' \in Runtimes \cup {None} /\ begun' \subseteq Runtimes /\ next' \in Nat
        /\ journal' \in Seq(Nat \ {0}) /\ Len(journal') <= MaxReplay
    BY DEF StreamInv, TypeOK, StreamConstants
  <2> QED BY <2>1 DEF StreamInv, TypeOK
<1>2. None \notin begun /\ begun \subseteq Runtimes
  BY DEF StreamConstants, StreamInv, TypeOK
<1>3. \A v \in Projections' : v \in Projections
  BY DEF Projections
<1>4. HubInOrder' /\ Gapless' /\ ProjectionsInOrder' /\ \A x \in Clients : SocketInOrder(x)'
  BY <1>2, <1>3, HubChanges
<1>5. ASSUME NEW x \in Clients PROVE InboxInOrder(x)' /\ ViewInOrder(x)'
  BY DEF StreamInv, InboxInOrder, ViewInOrder
<1> QED BY <1>1, <1>4, <1>5 DEF StreamInv

\* What is retained after an event was retained before, or is the event.
LEMMA RetainedOrNew ==
    ASSUME StreamConstants, StreamInv, NEW replayable \in BOOLEAN, Emit(replayable)
    PROVE  /\ HubInOrder' /\ journal' \in Seq(Nat \ {0}) /\ Len(journal') <= MaxReplay
           /\ \A n \in Retained' : n \in Retained \/ n = next + 1
<1>1. /\ journal \in Seq(Nat \ {0}) /\ next \in Nat /\ next' = next + 1 /\ active' = active
      /\ journal' = IF replayable THEN Last_(Append(journal, next + 1), MaxReplay) ELSE journal
      /\ Ascending(journal) /\ begun' = begun /\ active \in begun \cup {None} /\ active # None
      /\ MaxReplay \in Nat \ {0} /\ MaxBuffered \in Nat
  BY DEF Emit, StreamInv, TypeOK, HubInOrder, StreamConstants
<1>2. \A i \in 1..Len(journal) : journal[i] \in Nat \ {0} /\ journal[i] <= next
  BY <1>1 DEF StreamInv, HubInOrder
<1>3. \A n \in ToSet(journal) : n \in Nat
  BY <1>1 DEF ToSet
<1>4. CASE replayable
  <2>1. PICK n \in Nat \ {0} : n = next + 1
    BY <1>1
  <2>2. \A i \in 1..Len(journal) : journal[i] < n
    BY <1>1, <1>2, <2>1
  <2>3. journal' = Last_(Append(journal, n), MaxReplay)
    BY <1>1, <1>4, <2>1
  <2>4. /\ journal' \in Seq(Nat \ {0}) /\ Len(journal') <= MaxReplay /\ Ascending(journal')
        /\ \A i \in 1..Len(journal') : journal'[i] <= n
        /\ ToSet(journal') \subseteq ToSet(journal) \cup {n}
    BY <1>1, <2>2, <2>3, Queued
  <2>5. HubInOrder'
    BY <1>1, <2>1, <2>4 DEF HubInOrder
  <2>6. \A m \in Retained' : m \in Retained \/ m = next + 1
    BY <1>1, <1>3, <2>1, <2>4 DEF Retained
  <2> QED BY <2>4, <2>5, <2>6
<1>5. CASE ~replayable
  <2>1. journal' = journal
    BY <1>1, <1>5
  <2>2. HubInOrder'
    BY <1>1, <1>2, <2>1 DEF HubInOrder
  <2>3. \A m \in Retained' : m \in Retained
    BY <1>1, <1>3, <2>1 DEF Retained
  <2> QED BY <1>1, <2>1, <2>2, <2>3 DEF StreamInv, TypeOK
<1> QED BY <1>4, <1>5

LEMMA EmitKeeps ==
    ASSUME StreamConstants, StreamInv, NEW replayable \in BOOLEAN, Emit(replayable)
    PROVE  StreamInv'
<1> USE DEF Emit, attachVars, viewVars
<1>1. PICK e \in Events : e = [rt |-> active, seq |-> next + 1]
  <2>1. active \in Runtimes /\ next + 1 \in Nat \ {0}
    BY DEF StreamInv, TypeOK
  <2>2. [rt |-> active, seq |-> next + 1] \in Events
    BY <2>1 DEF Events
  <2> QED BY <2>2
<1>2. /\ e.rt = active /\ e.seq = next + 1 /\ active \in Runtimes /\ active \in begun
      /\ next \in Nat /\ next' = next + 1 /\ active' = active /\ begun' = begun
  BY <1>1 DEF StreamInv, TypeOK, HubInOrder
<1>3. \A x \in Clients :
         wire'[x] = IF link[x] = "up" THEN Append(wire[x], e) ELSE wire[x]
  BY <1>1
<1>4. ASSUME NEW x \in Clients
      PROVE  /\ wire'[x] \in Seq(Events)
             /\ \A i \in 1..Len(wire[x]) : i \in 1..Len(wire'[x]) /\ wire'[x][i] = wire[x][i]
             /\ \A i \in 1..Len(wire'[x]) : i \in 1..Len(wire[x]) \/ wire'[x][i] = e
             /\ \A i, j \in 1..Len(wire'[x]) : i < j => i \in 1..Len(wire[x])
             /\ link[x] = "up" => e \in ToSet(wire'[x])
             /\ ToSet(wire[x]) \subseteq ToSet(wire'[x])
  <2>1. wire[x] \in Seq(Events) /\ Len(wire[x]) \in Nat
    BY DEF StreamInv, TypeOK
  <2>2. CASE link[x] # "up"
    BY <1>3, <2>1, <2>2
  <2>3. CASE link[x] = "up"
    <3>1. /\ wire'[x] \in Seq(Events) /\ Len(wire'[x]) = Len(wire[x]) + 1
          /\ \A i \in 1..Len(wire[x]) : wire'[x][i] = wire[x][i]
          /\ wire'[x][Len(wire[x]) + 1] = e
      <4>1. wire'[x] = Append(wire[x], e) /\ e \in Events
        BY <1>3, <2>3
      <4> QED BY <2>1, <4>1, AppendPlaces
    <3>2. /\ DOMAIN wire[x] = 1..Len(wire[x]) /\ DOMAIN wire'[x] = 1..Len(wire[x]) + 1
      BY <2>1, <3>1
    <3>3. \A i \in 1..Len(wire[x]) : i \in 1..Len(wire'[x])
      BY <2>1, <3>1
    <3>4. \A i \in 1..Len(wire'[x]) : i \in 1..Len(wire[x]) \/ i = Len(wire[x]) + 1
      BY <2>1, <3>1
    <3>5. \A i, j \in 1..Len(wire'[x]) : i < j => i \in 1..Len(wire[x])
      BY <2>1, <3>1
    <3>6. e \in ToSet(wire'[x])
      BY <2>1, <3>1, <3>2 DEF ToSet
    <3>7. ToSet(wire[x]) \subseteq ToSet(wire'[x])
      BY <3>1, <3>2, <3>3 DEF ToSet
    <3> QED BY <3>1, <3>3, <3>4, <3>5, <3>6, <3>7
  <2> QED BY <2>2, <2>3
<1>5. /\ HubInOrder' /\ journal' \in Seq(Nat \ {0}) /\ Len(journal') <= MaxReplay
      /\ \A n \in Retained' : n \in Retained \/ n = next + 1
  BY RetainedOrNew
<1>6. TypeOK'
  <2>1. wire' \in [Clients -> Seq(Events)]
    BY <1>4
  <2> QED BY <1>2, <1>5, <2>1 DEF StreamInv, TypeOK
<1>7. ASSUME NEW x \in Clients PROVE SocketInOrder(x)'
  <2>1. SocketInOrder(x)
    BY DEF StreamInv
  <2>2. \A i \in 1..Len(wire[x]) : wire[x][i].seq \in Nat
    <3>1. \A i \in 1..Len(wire[x]) : wire[x][i] \in Events
      BY DEF StreamInv, TypeOK
    <3> QED BY <3>1 DEF Events
  <2>3. \A i \in 1..Len(wire'[x]) :
           /\ wire'[x][i].rt \in begun
           /\ wire'[x][i].rt = active => wire'[x][i].seq <= next + 1
    BY <1>2, <1>4, <2>1, <2>2 DEF SocketInOrder
  <2>4. ASSUME NEW i \in 1..Len(wire'[x]), NEW j \in 1..Len(wire'[x]), i < j,
               wire'[x][i].rt = wire'[x][j].rt
        PROVE  wire'[x][i].seq < wire'[x][j].seq
    <3>1. i \in 1..Len(wire[x]) /\ wire'[x][i] = wire[x][i]
      BY <1>4, <2>4
    <3>2. CASE j \in 1..Len(wire[x])
      BY <1>4, <2>1, <2>4, <3>1, <3>2 DEF SocketInOrder
    <3>3. CASE wire'[x][j] = e
      BY <1>2, <2>1, <2>2, <2>4, <3>1, <3>3 DEF SocketInOrder
    <3> QED BY <1>4, <3>2, <3>3
  <2>5. seqs[x][active] <= next + 1
    BY <1>2, <2>1 DEF SocketInOrder, StreamInv, TypeOK
  <2>6. UNCHANGED <<link, connects, at, seqs, buffer>>
    OBVIOUS
  <2> HIDE DEF Emit
  <2> QED BY <1>2, <2>1, <2>3, <2>4, <2>5, <2>6 DEF SocketInOrder
<1>8. ASSUME NEW x \in Clients PROVE InboxInOrder(x)' /\ ViewInOrder(x)'
  BY DEF StreamInv, InboxInOrder, ViewInOrder
<1>9. Projections' = Projections
  BY DEF Projections
<1>10. \A v \in Projections : v.seq \in Nat
  BY DEF Projections, StreamInv, TypeOK, Views
<1>11. ProjectionsInOrder'
  BY <1>2, <1>9, <1>10 DEF StreamInv, ProjectionsInOrder
<1>12. \A n \in Retained : n \in Nat
  BY DEF Retained, ToSet, StreamInv, TypeOK
<1>13. ASSUME Gapless, \A x \in Clients : connects[x] <= 1
       PROVE  (\A v \in Projections : Covers(v))' /\ (\A x \in Clients : Reaches(x))'
  <2>1. ASSUME NEW v \in Projections PROVE Covers(v)'
    <3>1. Covers(v) /\ v.seq \in Nat /\ (v.rt = active => v.seq <= next)
      BY <1>2, <1>10, <1>13 DEF Gapless, StreamInv, ProjectionsInOrder, StreamConstants
    <3> QED BY <1>2, <1>5, <3>1 DEF Covers
  <2>2. ASSUME NEW x \in Clients PROVE Reaches(x)'
    <3>1. Reaches(x) /\ seqs[x][active] <= next /\ seqs[x][active] \in Nat
      BY <1>2, <1>13 DEF Gapless, StreamInv, SocketInOrder, TypeOK
    <3>2. Seen(x)' = Seen(x)
      BY DEF Seen
    <3>3. ASSUME NEW n \in Retained', n \in Retained
          PROVE  IF n > seqs[x][active]
                 THEN link[x] = "up" => [rt |-> active, seq |-> n] \in ToSet(wire'[x])
                 ELSE IF at[x] = "attached" /\ rt[x] = active
                 THEN n \in Seen(x) \cup ToSet(inbox[x])
                 ELSE link[x] = "up" \/ at[x] \in {"asked", "started"} => n \in ToSet(buffer[x][active])
      BY <1>4, <3>1, <3>3 DEF Reaches
    <3>4. next + 1 > seqs[x][active]
      BY <1>2, <3>1
    <3>5. link[x] = "up" => [rt |-> active, seq |-> next + 1] \in ToSet(wire'[x])
      BY <1>1, <1>4
    <3> QED BY <1>2, <1>5, <3>2, <3>3, <3>4, <3>5 DEF Reaches
  <2> QED BY <1>9, <2>1, <2>2
<1>14. Gapless'
  BY <1>13 DEF StreamInv, Gapless
<1> QED BY <1>5, <1>6, <1>7, <1>8, <1>11, <1>14 DEF StreamInv

-------------------------------------------------------------------------------
(***************************************************************************)
(* The theorems of the event stream.                                       *)
(***************************************************************************)
LEMMA StreamStep == ASSUME StreamConstants, StreamInv, [Next]_vars PROVE StreamInv'
<1>1. CASE UNCHANGED vars
  <2>1. /\ TypeOK' /\ HubInOrder'
        /\ \A x \in Clients : SocketInOrder(x)' /\ InboxInOrder(x)' /\ ViewInOrder(x)'
    <3> USE <1>1 DEF StreamInv, vars, hubVars, socketVars, attachVars, viewVars
    <3>1. TypeOK' /\ HubInOrder'
      BY DEF TypeOK, HubInOrder
    <3>2. \A x \in Clients : SocketInOrder(x)' /\ InboxInOrder(x)' /\ ViewInOrder(x)'
      <4>1. \A x \in Clients : Same(x)
        BY DEF Same
      <4> QED BY <4>1, Elsewhere
    <3> QED BY <3>1, <3>2
  <2>2. ProjectionsInOrder' /\ Gapless'
    BY <1>1 DEF StreamInv, ProjectionsInOrder, Gapless, Covers, Reaches, Seen, Projections,
                Retained, vars, hubVars, socketVars, attachVars, viewVars
  <2> QED BY <2>1, <2>2 DEF StreamInv
<1>2. CASE \E r \in Runtimes : Begin(r) \/ \E c \in Clients : Start(c, r)
  BY <1>2, BeginKeeps, StartKeeps
<1>3. CASE End
  BY <1>3, EndKeeps
<1>4. CASE \E replayable \in BOOLEAN : Emit(replayable)
  BY <1>4, EmitKeeps
<1>5. ASSUME NEW c \in Clients, ClientStep(c) PROVE StreamInv'
  <2>1. CASE Connect(c) \/ Lose(c) \/ Drain(c) \/ Read(c)
    BY <2>1, ConnectKeeps, LoseKeeps, DrainKeeps, ReadKeeps
  <2>2. CASE Hydrate(c) \/ Ask(c) \/ Subscribe(c) \/ SubscribeReplaced(c)
    BY <2>2, HydrateKeeps, AskKeeps, SubscribeKeeps, SubscribeReplacedKeeps
  <2>3. CASE Apply(c) \/ Exit(c) \/ Leave(c)
    BY <2>3, ApplyKeeps, ExitKeeps, LeaveKeeps
  <2>4. CASE Save(c) \/ (\E older \in BOOLEAN : SaveArrives(c, older)) \/ SaveFails(c)
    BY <2>4, SavesKeep
  <2> QED BY <1>5, <2>1, <2>2, <2>3, <2>4 DEF ClientStep
<1> QED BY <1>1, <1>2, <1>3, <1>4, <1>5 DEF Next

\* Sequence numbers, journals, buffers, inboxes and projections stay in order
\* and within their limits, on any number of connections, and nothing retained
\* is missing on first ones (server.rs, client.rs, process.rs).
THEOREM StreamInOrder == StreamConstants => (Spec => []StreamInv)
<1> SUFFICES ASSUME StreamConstants PROVE Spec => []StreamInv
  OBVIOUS
<1>1. Init => StreamInv
  BY InitStream
<1>2. StreamInv /\ [Next]_vars => StreamInv'
  BY StreamStep
<1> QED BY <1>1, <1>2, PTL DEF Spec

LEMMA InvGivesNothingMissed == ASSUME StreamInv PROVE NothingMissed
<1>1. SUFFICES ASSUME \A c \in Clients : connects[c] <= 1
               PROVE  /\ \A c \in Clients : Followed(c)
                      /\ stored.rt = active /\ active # None =>
                            {e \in Retained : e <= stored.seq} \subseteq stored.seen
  BY DEF NothingMissed
<1>2. (\A v \in Projections : Covers(v)) /\ \A c \in Clients : Reaches(c)
  BY <1>1 DEF StreamInv, Gapless
<1>3. stored.rt = active => {e \in Retained : e <= stored.seq} \subseteq stored.seen
  BY <1>2 DEF Projections, Covers
<1>4. ASSUME NEW c \in Clients, Following(c), NEW e \in Retained
      PROVE  e \in view[c].seen \cup OnTheWay(c)
  <2>1. at[c] = "attached" /\ link[c] = "up" /\ rt[c] = active
    BY <1>4 DEF Following
  <2>2. CASE e > seqs[c][active]
    <3>1. [rt |-> active, seq |-> e] \in ToSet(wire[c])
      BY <1>2, <1>4, <2>1, <2>2 DEF Reaches
    <3> QED BY <2>1, <3>1 DEF OnTheWay
  <2>3. CASE ~(e > seqs[c][active])
    <3>1. e \in Seen(c) \cup ToSet(inbox[c])
      BY <1>2, <1>4, <2>1, <2>3 DEF Reaches
    <3>2. Seen(c) \subseteq view[c].seen
      BY DEF Seen
    <3> QED BY <3>1, <3>2 DEF OnTheWay
  <2> QED BY <2>2, <2>3
<1> QED BY <1>3, <1>4 DEF Followed

\* Replay, registration, buffering, hydration and subscription leave no gap.
THEOREM StreamHasNoGap == StreamConstants => (Spec => []NothingMissed)
<1> SUFFICES ASSUME StreamConstants PROVE Spec => []NothingMissed
  OBVIOUS
<1>1. StreamInv => NothingMissed
  BY InvGivesNothingMissed
<1> QED BY <1>1, StreamInOrder, PTL

\* An event is folded into a projection once, and in the order of emission.
THEOREM EventsFoldInOrder == StreamConstants => (Spec => FoldsInOrder)
<1> SUFFICES ASSUME StreamConstants PROVE Spec => FoldsInOrder
  OBVIOUS
<1>1. ASSUME StreamInv, [Next]_vars, NEW c \in Clients,
             view'[c] # view[c], view'[c].rt = view[c].rt, at[c] = at'[c]
      PROVE  view'[c].seq > view[c].seq
  <2>1. PICK d \in Clients : Apply(d) \/ Subscribe(d) \/ SubscribeReplaced(d)
    <3>1. view' # view
      BY <1>1
    <3> QED BY <1>1, <3>1 DEF Next, ClientStep, vars, viewVars, Begin, Start, End, Emit, Connect,
            Lose, Drain, Read, Hydrate, Ask, Exit, Leave, Detached, Save, SaveArrives, SaveFails
  <2>2. CASE Apply(d)
    BY <1>1, <2>2, ApplyKeeps
  <2>3. CASE Subscribe(d) \/ SubscribeReplaced(d)
    <3>1. Install(d) /\ at[d] # "attached"
      BY <2>3 DEF Subscribe, SubscribeReplaced
    <3>2. at'[d] = "attached" /\ \A x \in Clients \ {d} : view'[x] = view[x]
      BY <1>1, <3>1, Installs
    <3> QED BY <1>1, <3>1, <3>2
  <2> QED BY <2>1, <2>2, <2>3
<1>2. StreamInv /\ [Next]_vars =>
         [\A c \in Clients : view'[c] # view[c] /\ view'[c].rt = view[c].rt /\ at[c] = at'[c]
                                => view'[c].seq > view[c].seq]_vars
  BY <1>1
<1> QED BY <1>2, StreamInOrder, PTL DEF Spec, FoldsInOrder

\* A late save takes nothing back from the stored projection of the runtime in
\* progress (session_projection_precedes).
THEOREM SavesAdvance == StreamConstants => (Spec => StoredAdvances)
<1> SUFFICES ASSUME StreamConstants PROVE Spec => StoredAdvances
  OBVIOUS
<1>1. ASSUME StreamInv, [Next]_vars,
             active # None, stored.rt = active, active' = active
      PROVE  stored'.rt = active /\ stored'.seq >= stored.seq
  <2>1. stored.seq \in Nat
    BY <1>1 DEF StreamInv, TypeOK, Views
  <2>2. CASE stored' = stored
    BY <1>1, <2>1, <2>2
  <2>3. CASE stored' # stored
    <3>1. PICK c \in Clients : \E older \in BOOLEAN : SaveArrives(c, older)
      BY <1>1, <2>3 DEF Next, ClientStep, vars, Begin, Start, End, Emit, Connect, Lose, Drain, Read,
         Hydrate, Ask, Subscribe, SubscribeReplaced, Install, Apply, Exit, Leave, Detached, Save,
         SaveFails
    <3>2. PICK older \in BOOLEAN : SaveArrives(c, older)
      BY <3>1
    <3>3. /\ stored' = saving[c] /\ ~Precedes(saving[c], older) /\ saving[c] \in Views
          /\ saving[c].seq \in Nat
      BY <1>1, <2>3, <3>2 DEF SaveArrives, StreamInv, TypeOK, Views
    <3> QED BY <1>1, <2>1, <3>3 DEF Precedes
  <2> QED BY <2>2, <2>3
<1>2. StreamInv /\ [Next]_vars =>
         [active # None /\ stored.rt = active /\ active' = active
             => stored'.rt = active /\ stored'.seq >= stored.seq]_vars
  BY <1>1
<1> QED BY <1>2, StreamInOrder, PTL DEF Spec, StoredAdvances

-------------------------------------------------------------------------------
USE DEF ServicesNext, servicesVars, InTicker, InStream, InDesktop, InActors, InBrowser, InSide

-------------------------------------------------------------------------------
(***************************************************************************)
(* Each service takes its own steps, and stutters in those of the others.  *)
(***************************************************************************)
LEMMA StreamBehaves == ServicesSpec => Spec
<1>1. ServicesInit => Init
  BY DEF ServicesInit
<1>2. [ServicesNext]_servicesVars => [Next]_vars
  BY DEF streamVars
<1> QED
  BY <1>1, <1>2, PTL DEF ServicesSpec, Spec

LEMMA TickerBehaves == ServicesSpec => Ticker!Spec
<1>1. ServicesInit => Ticker!Init
  BY DEF ServicesInit
<1>2. [ServicesNext]_servicesVars => [Ticker!Next]_(Ticker!vars)
  BY DEF tickerVars, Ticker!vars, Ticker!taskVars, Ticker!occVars, Ticker!subVars,
         Ticker!windowVars, Ticker!boundVars, Ticker!daemonVars, Ticker!runVars
<1> QED
  BY <1>1, <1>2, PTL DEF ServicesSpec, Ticker!Spec

LEMMA DesktopBehaves == ServicesSpec => Desktop!Spec
<1>1. ServicesInit => Desktop!Init
  BY DEF ServicesInit
<1>2. [ServicesNext]_servicesVars => [Desktop!Next]_(Desktop!vars)
  BY DEF desktopVars, Desktop!vars, Desktop!targetVars, Desktop!worldVars,
         Desktop!monitorVars, Desktop!stopVars, Desktop!settingVars
<1> QED
  BY <1>1, <1>2, PTL DEF ServicesSpec, Desktop!Spec

LEMMA ActorsBehave == ServicesSpec => Actors!Spec
<1>1. ServicesInit => Actors!Init
  BY DEF ServicesInit
<1>2. [ServicesNext]_servicesVars => [Actors!Next]_(Actors!vars)
  BY DEF actorsVars, Actors!vars, Actors!mailVars, Actors!schedVars, Actors!coreVars
<1> QED
  BY <1>1, <1>2, PTL DEF ServicesSpec, Actors!Spec

LEMMA BrowserBehaves == ServicesSpec => Browser!Spec
<1>1. ServicesInit => Browser!Init
  BY DEF ServicesInit
<1>2. [ServicesNext]_servicesVars => [Browser!Next]_(Browser!vars)
  BY DEF browserVars, Browser!vars, Browser!brokerVars, Browser!guiVars, Browser!callVars
<1> QED
  BY <1>1, <1>2, PTL DEF ServicesSpec, Browser!Spec

LEMMA SideBehaves == ServicesSpec => Side!Spec
<1>1. ServicesInit => Side!Init
  BY DEF ServicesInit
<1>2. [ServicesNext]_servicesVars => [Side!Next]_(Side!vars)
  BY DEF sideVars, Side!vars, Side!desktopVars, Side!daemonVars
<1> QED
  BY <1>1, <1>2, PTL DEF ServicesSpec, Side!Spec

-------------------------------------------------------------------------------
(***************************************************************************)
(* The invariants of the services, and the stream beside the others.       *)
(***************************************************************************)
\* The ticker's constants are what its module assumes of them.
LEMMA TickerKeepsTasks == ServicesSpec => []Ticker!TasksInv
<1>1. Ticker!IsFiniteSet({"t1", "t2"})
  <2>1. /\ <<"t1", "t2">> \in Seq({"t1", "t2"}) /\ Len(<<"t1", "t2">>) = 2
        /\ <<"t1", "t2">>[1] = "t1" /\ <<"t1", "t2">>[2] = "t2"
    OBVIOUS
  <2>2. \A s \in {"t1", "t2"} : \E n \in 1..Len(<<"t1", "t2">>) : <<"t1", "t2">>[n] = s
    BY <2>1
  <2> QED BY <2>1, <2>2 DEF Ticker!IsFiniteSet
<1>2. {[kind |-> "Every", at |-> 1], [kind |-> "AtTime", at |-> 1]}
         \subseteq [kind : {"Every", "AtTime", "Once"}, at : Nat \ {0}]
  OBVIOUS
<1>3. None \notin Ticker!Occurrences
  BY ServicesAssumption
<1>4. Ticker!Spec => []Ticker!TasksInv
  BY <1>1, <1>2, <1>3, Ticker!TasksSafety
<1> QED
  BY <1>4, TickerBehaves, PTL

\* Every service keeps the invariant its proofs rest on.
THEOREM ServicesAreInOrder == ServicesSpec => []ServicesInv
<1>1. Spec => []StreamInv
  BY ServicesAssumption, StreamInOrder
<1>2. Desktop!Spec => []Desktop!SupervisorInv
  BY ServicesAssumption, Desktop!SupervisorSafety
<1>3. Actors!Spec => []Actors!RuntimesInv
  BY ServicesAssumption, Actors!RuntimesSafety
<1>4. Browser!Spec => []Browser!BrokerInv
  BY ServicesAssumption, Browser!BrokerSafety
<1>5. Side!Spec => []Side!SideInv
  BY ServicesAssumption, Side!SideSafety
<1> QED
  BY <1>1, <1>2, <1>3, <1>4, <1>5, StreamBehaves, TickerKeepsTasks, DesktopBehaves, ActorsBehave,
     BrowserBehaves, SideBehaves, PTL DEF ServicesInv

-------------------------------------------------------------------------------
(***************************************************************************)
(* The supervisor.                                                         *)
(***************************************************************************)
\* The desktop never has two daemons at work on the same stores
\* (monitor_daemon, replace_local_daemon and shutdown).
THEOREM NeverTwoDaemons == ServicesSpec => []OneDaemon
<1>1. Desktop!Spec => []Desktop!OneDaemon
  BY ServicesAssumption, Desktop!OneDaemonAtWork
<1> QED
  BY <1>1, DesktopBehaves, PTL DEF OneDaemon

\* Once a recovery is over, every follower has the current client
\* (subscribe_clients and the notifications of monitor_daemon).
THEOREM FollowersHaveClient == ServicesSpec => []Informed
<1>1. Desktop!Spec => []Desktop!Informed
  BY ServicesAssumption, Desktop!FollowersAreInformed
<1> QED
  BY <1>1, DesktopBehaves, PTL DEF Informed

\* When the settings writer rests, the daemon has the settings chosen last,
\* but for those that update_settings did not queue.
THEOREM SettingsArrive == ServicesSpec => []SettingsReach
<1>1. Desktop!Spec => []Desktop!SettingsReach
  BY ServicesAssumption, Desktop!SettingsReachDaemon
<1> QED
  BY <1>1, DesktopBehaves, PTL DEF SettingsReach

-------------------------------------------------------------------------------
(***************************************************************************)
(* The actor of a session, and the scheduler beside it.                    *)
(***************************************************************************)
\* The hub passes on the events of the runtime that works, unless a launch
\* overlapped a Start or a Start was refused.
THEOREM RuntimeIsHeard == ServicesSpec => []LiveRuntimeIsHeard
<1>1. Actors!Spec => []Actors!LiveRuntimeIsHeard
  BY ServicesAssumption, Actors!WorkingRuntimeIsHeard
<1> QED
  BY <1>1, ActorsBehave, PTL DEF LiveRuntimeIsHeard

\* A removed session keeps no runtime, also if the scheduler was starting one.
THEOREM RemovedSessionIsDown == ServicesSpec => []RemovedStaysDown
<1>1. Actors!Spec => []Actors!RemovedStaysDown
  BY ServicesAssumption, Actors!RemovedSessionsStayDown
<1> QED
  BY <1>1, ActorsBehave, PTL DEF RemovedStaysDown

-------------------------------------------------------------------------------
(***************************************************************************)
(* The browser broker.                                                     *)
(***************************************************************************)
\* A pending request is routed to a page that its connected owner still has.
THEOREM PendingCanBeAnswered == ServicesSpec => []PendingIsCovered
<1>1. Browser!Spec => []Browser!PendingIsCovered
  BY ServicesAssumption, Browser!AskedPagesAreThere
<1> QED
  BY <1>1, BrowserBehaves, PTL DEF PendingIsCovered

\* A cancelled request never becomes pending again, whatever it overtakes.
THEOREM CancelledStaysCancelled == ServicesSpec => []CancelledNeverRuns
<1>1. Browser!Spec => []Browser!CancelledNeverRuns
  BY ServicesAssumption, Browser!CancelsAreFinal
<1> QED
  BY <1>1, BrowserBehaves, PTL DEF CancelledNeverRuns

\* A page that acts, or is about to, acts for a caller that waits, or is being
\* stopped.
THEOREM ActionsAreObserved == ServicesSpec => []NothingRunsUnobserved
<1>1. Browser!Spec => []Browser!NothingRunsUnobserved
  BY ServicesAssumption, Browser!ActionsAreWatched
<1> QED
  BY <1>1, BrowserBehaves, PTL DEF NothingRunsUnobserved

-------------------------------------------------------------------------------
(***************************************************************************)
(* Side generations.                                                       *)
(***************************************************************************)
\* A generation whose cancel was handled never posts its prompt, unless its
\* tombstone was evicted.
THEOREM CancelledGenerationStaysQuiet == ServicesSpec => CancelIsHeeded
<1>1. Side!Spec => Side!CancelIsHeeded
  BY ServicesAssumption, Side!CancelsAreHeeded
<1> QED
  BY <1>1, SideBehaves DEF CancelIsHeeded
===============================================================================
