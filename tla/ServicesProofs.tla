----------------------------- MODULE ServicesProofs -----------------------------
(***************************************************************************)
(* Proofs about the services that share no state with each other: the      *)
(* index of the broker (PubSub), the ring buffer of the lists (ListDeque), *)
(* which implements AbstractList, the limiter and the audit trail of the   *)
(* gateway (Gateway), the heap of the deadlines (ExpiryTimers), and the    *)
(* skip list of the sorted sets with its reads (SortedSet).                *)
(***************************************************************************)
EXTENDS PubSub, ListDeque, Gateway, ExpiryTimers, SortedSet, InductionProofs, SequenceTheorems,
        FunctionTheorems, FiniteSetTheorems

-----------------------------------------------------------------------------
(* PubSub: what the broker and the connections remember, for any           *)
(* connections, channels and patterns.                                     *)

\* What the safety properties need beyond each other: nothing brings a topic
\* back to a connection that has left, RESET hides channels alone, and a channel
\* a connection remembers is not one that RESET hid from it.
LeftOwnsNothing == \A c \in Conn : socket[c] # "open" => own[c] = {}
StrayApart ==
  /\ stray \subseteq Conn \X Channel
  /\ \A c \in Conn, t \in Topic : <<c, t>> \in stray => t \notin own[c]

BrokerInv == BrokerTypeOK /\ IndexExact /\ LeftOwnsNothing /\ StrayApart

LEMMA InitBroker == BrokerInit => BrokerInv
BY DEF BrokerInit, BrokerInv, BrokerTypeOK, IndexExact, LeftOwnsNothing, StrayApart, Topic

\* SUBSCRIBE and PSUBSCRIBE add the same pairs on both sides.
LEMMA JoinKeeps ==
  ASSUME BrokerInv, NEW c \in Conn, NEW S \in SUBSET Topic, socket[c] = "open", Join(c, S)
  PROVE  BrokerInv'
<1>1. BrokerTypeOK'
  BY DEF BrokerInv, BrokerTypeOK, Join
<1>2. IndexExact'
  BY DEF BrokerInv, BrokerTypeOK, IndexExact, Join
<1>3. LeftOwnsNothing'
  BY DEF BrokerInv, BrokerTypeOK, LeftOwnsNothing, Join
<1>4. StrayApart'
  BY DEF BrokerInv, BrokerTypeOK, StrayApart, Join
<1> QED BY <1>1, <1>2, <1>3, <1>4 DEF BrokerInv

\* So do UNSUBSCRIBE and PUNSUBSCRIBE, which also clear what RESET left.
LEMMA PartKeeps ==
  ASSUME BrokerInv, NEW c \in Conn, NEW S \in SUBSET Topic, socket[c] = "open", Part(c, S)
  PROVE  BrokerInv'
<1>1. BrokerTypeOK'
  BY DEF BrokerInv, BrokerTypeOK, Part
<1>2. IndexExact'
  BY DEF BrokerInv, BrokerTypeOK, IndexExact, Part
<1>3. LeftOwnsNothing'
  BY DEF BrokerInv, BrokerTypeOK, LeftOwnsNothing, Part
<1>4. StrayApart'
  BY DEF BrokerInv, BrokerTypeOK, StrayApart, Part
<1> QED BY <1>1, <1>2, <1>3, <1>4 DEF BrokerInv

\* The pairs RESET takes from the connection are the ones it adds to stray.
LEMMA ResetKeeps ==
  ASSUME BrokerInv, NEW c \in Conn, Reset(c)
  PROVE  BrokerInv'
<1>1. BrokerTypeOK'
  BY DEF BrokerInv, BrokerTypeOK, Reset, ForgetsChannels, Topic
<1>2. IndexExact'
  <2> SUFFICES ASSUME NEW d \in Conn, NEW t \in Topic
               PROVE  d \in index[t] <=> t \in own'[d] \/ <<d, t>> \in stray'
    BY DEF IndexExact, Reset
  <2>1. d \in index[t] <=> t \in own[d] \/ <<d, t>> \in stray
    BY DEF BrokerInv, IndexExact
  <2>2. CASE d = c
    BY <2>1, <2>2 DEF BrokerInv, BrokerTypeOK, Reset, ForgetsChannels, Topic
  <2>3. CASE d # c
    BY <2>1, <2>3 DEF BrokerInv, BrokerTypeOK, Reset, ForgetsChannels
  <2> QED BY <2>2, <2>3
<1>3. LeftOwnsNothing'
  BY DEF BrokerInv, BrokerTypeOK, LeftOwnsNothing, Reset, ForgetsChannels
<1>4. StrayApart'
  <2>1. stray' \subseteq Conn \X Channel
    BY DEF BrokerInv, StrayApart, Reset
  <2>2. ASSUME NEW d \in Conn, NEW t \in Topic, <<d, t>> \in stray' PROVE t \notin own'[d]
    <3>1. CASE d = c
      <4>1. t \in Channel
        BY <2>1, <2>2
      <4>2. own'[d] \subseteq Pattern
        BY <3>1 DEF BrokerInv, BrokerTypeOK, Reset, ForgetsChannels
      <4> QED BY <4>1, <4>2, ApartAssumption
    <3>2. CASE d # c
      BY <2>2, <3>2 DEF BrokerInv, BrokerTypeOK, StrayApart, Reset, ForgetsChannels
    <3> QED BY <3>1, <3>2
  <2> QED BY <2>1, <2>2 DEF StrayApart
<1> QED BY <1>1, <1>2, <1>3, <1>4 DEF BrokerInv

\* removeConnection leaves the pairs RESET hid, and no other.
LEMMA RemoveKeeps ==
  ASSUME BrokerInv, NEW c \in Conn, NEW s \in {"left", "closed"}, RemoveConnection(c),
         socket' = [socket EXCEPT ![c] = s], UNCHANGED <<stray, heard>>
  PROVE  BrokerInv'
<1>1. BrokerTypeOK'
  BY DEF BrokerInv, BrokerTypeOK, RemoveConnection
<1>2. IndexExact'
  BY DEF BrokerInv, BrokerTypeOK, IndexExact, StrayApart, RemoveConnection
<1>3. LeftOwnsNothing'
  BY DEF BrokerInv, BrokerTypeOK, LeftOwnsNothing, RemoveConnection
<1>4. StrayApart'
  BY DEF BrokerInv, BrokerTypeOK, StrayApart, RemoveConnection
<1> QED BY <1>1, <1>2, <1>3, <1>4 DEF BrokerInv

\* Every step of the broker keeps the invariant.
LEMMA StepBroker == BrokerInv /\ [BrokerNext]_brokerVars => BrokerInv'
<1> SUFFICES ASSUME BrokerInv, [BrokerNext]_brokerVars PROVE BrokerInv'
  OBVIOUS
<1>1. ASSUME NEW c \in Conn, NEW S \in SUBSET Channel \ {{}}, Subscribe(c, S) \/ Unsubscribe(c, S)
      PROVE  BrokerInv'
  BY <1>1, JoinKeeps, PartKeeps DEF Subscribe, Unsubscribe, Topic
<1>2. ASSUME NEW c \in Conn, NEW S \in SUBSET Pattern \ {{}}, Psubscribe(c, S) \/ Punsubscribe(c, S)
      PROVE  BrokerInv'
  BY <1>2, JoinKeeps, PartKeeps DEF Psubscribe, Punsubscribe, Topic
<1>3. ASSUME NEW c \in Conn, UnsubscribeAll(c) \/ PunsubscribeAll(c)
      PROVE  BrokerInv'
  <2>1. own[c] \cap Channel \in SUBSET Topic /\ own[c] \cap Pattern \in SUBSET Topic
    BY DEF Topic
  <2> QED BY <1>3, <2>1, PartKeeps DEF UnsubscribeAll, PunsubscribeAll
<1>4. ASSUME NEW c \in Conn, Reset(c)
      PROVE  BrokerInv'
  BY <1>4, ResetKeeps
<1>5. ASSUME NEW c \in Conn, Leave(c) \/ Close(c)
      PROVE  BrokerInv'
  BY <1>5, RemoveKeeps DEF Leave, Close
<1>6. ASSUME NEW ch \in Channel, Publish(ch)
      PROVE  BrokerInv'
  BY <1>6 DEF Publish, Receivers, BrokerInv, BrokerTypeOK, IndexExact, LeftOwnsNothing, StrayApart
<1>7. CASE UNCHANGED brokerVars
  BY <1>7 DEF brokerVars, BrokerInv, BrokerTypeOK, IndexExact, LeftOwnsNothing, StrayApart
<1> QED BY <1>1, <1>2, <1>3, <1>4, <1>5, <1>6, <1>7 DEF BrokerNext

LEMMA BrokerInvariant == BrokerSpec => []BrokerInv
BY InitBroker, StepBroker, PTL DEF BrokerSpec

\* The broker's sets and the connections' own sets agree, whatever is
\* subscribed, published, reset or closed.
THEOREM IndexIsExact == BrokerSpec => []IndexExact
<1>1. BrokerInv => IndexExact
  BY DEF BrokerInv
<1> QED BY <1>1, BrokerInvariant, PTL

\* A connection that has left stays nowhere, but in a channel RESET hid.
THEOREM LeaversAreForgotten == BrokerSpec => []LeftIsForgotten
<1>1. BrokerInv => LeftIsForgotten
  <2> SUFFICES ASSUME BrokerInv, NEW c \in Conn, socket[c] # "open"
               PROVE  /\ \A t \in Pattern : c \notin index[t]
                      /\ \A t \in Channel : c \in index[t] => <<c, t>> \in stray
    BY DEF LeftIsForgotten
  <2>1. \A t \in Topic : c \in index[t] => <<c, t>> \in stray
    BY DEF BrokerInv, LeftOwnsNothing, IndexExact
  <2>2. \A t \in Pattern : <<c, t>> \notin stray
    BY ApartAssumption DEF BrokerInv, StrayApart
  <2> QED BY <2>1, <2>2 DEF Topic
<1> QED BY <1>1, BrokerInvariant, PTL

-----------------------------------------------------------------------------
(* ListDeque: what the ring holds is View of its fields, and one lemma per *)
(* operation says what the operation does to the view, for any values and  *)
(* any initial capacity.                                                   *)

\* The slot i places after h, at most one turn of the ring.
At(h, i, c) == IF h + i < c THEN h + i ELSE (h + i) - c

View(b, h, n, c) == [i \in 1..n |-> b[At(h, i - 1, c)]]

RingInv ==
  /\ capacity \in Nat \ {0}
  /\ DOMAIN buffer = Slot(capacity)
  /\ length \in 0..capacity
  /\ head \in Slot(capacity)
  /\ tail = At(head, length, capacity)

-----------------------------------------------------------------------------
\* Arithmetic of the ring: an index at most one turn ahead.
LEMMA Wrap ==
  ASSUME NEW c \in Nat \ {0}, NEW x \in Nat, x < 2 * c
  PROVE  x % c = IF x < c THEN x ELSE x - c
<1>1. CASE x < c
  BY <1>1
<1>2. CASE c <= x
  BY <1>2
<1> QED BY <1>1, <1>2

\* Where the i-th slot after h lies.
LEMMA Position ==
  ASSUME NEW c \in Nat \ {0}, NEW h \in Slot(c), NEW i \in 0..c
  PROVE  /\ (h + i) % c = At(h, i, c)
         /\ (h + i) % c \in Slot(c)
<1> DEFINE x == h + i
<1>1. x \in Nat /\ x < 2 * c /\ x >= 0
  BY DEF Slot
<1> HIDE DEF x
<1>2. x % c = IF x < c THEN x ELSE x - c
  BY <1>1, Wrap
<1>3. x % c \in Slot(c)
  BY <1>1, <1>2 DEF Slot
<1> QED BY <1>2, <1>3 DEF x, At

LEMMA Before ==
  ASSUME NEW c \in Nat \ {0}, NEW h \in Slot(c)
  PROVE  /\ (h - 1 + c) % c = IF h = 0 THEN c - 1 ELSE h - 1
         /\ (h - 1 + c) % c \in Slot(c)
<1> DEFINE x == h - 1 + c
<1>1. x \in Nat /\ x < 2 * c /\ (x < c <=> h = 0)
  BY DEF Slot
<1>2. (h = 0 => x = c - 1) /\ x - c = h - 1
  BY DEF Slot
<1> HIDE DEF x
<1>3. x % c = IF x < c THEN x ELSE x - c
  BY <1>1, Wrap
<1>4. x % c = IF h = 0 THEN c - 1 ELSE h - 1
  BY <1>1, <1>2, <1>3
<1>5. x % c \in Slot(c)
  BY <1>4 DEF Slot
<1> QED BY <1>4, <1>5 DEF x

\* The view is a sequence, whatever the buffer holds.
LEMMA ViewIsSeq ==
  ASSUME NEW b, NEW h, NEW n \in Nat, NEW c, NEW v
  PROVE  /\ \E S : View(b, h, n, c) \in Seq(S) /\ v \in S
         /\ Len(View(b, h, n, c)) = n
         /\ DOMAIN View(b, h, n, c) = 1..n
<1> DEFINE w == View(b, h, n, c)
           S == {w[i] : i \in 1..n} \cup {v}
<1>1. w \in Seq(S) /\ Len(w) = n /\ DOMAIN w = 1..n
  <2>1. w = [i \in 1..n |-> w[i]]
    BY DEF View
  <2> HIDE DEF w
  <2>2. w \in [1..n -> S]
    BY <2>1
  <2> QED BY <2>1, <2>2
<1>2. v \in S
  OBVIOUS
<1> HIDE DEF w, S
<1>3. \E T : w \in Seq(T) /\ v \in T
  BY <1>1, <1>2
<1> QED BY <1>1, <1>3 DEF w

LEMMA ViewLen ==
  ASSUME NEW b, NEW h, NEW n \in Nat, NEW c
  PROVE  Len(View(b, h, n, c)) = n
BY DEF View

LEMMA ViewPushRight ==
  ASSUME NEW c \in Nat \ {0}, NEW h \in Slot(c), NEW n \in Nat, n < c, NEW v,
         NEW t, t = At(h, n, c), NEW b, NEW nb, nb[t] = v, NEW m, m = n + 1,
         \A i \in Slot(c) : i # t => nb[i] = b[i]
  PROVE  View(nb, h, m, c) = Append(View(b, h, n, c), v)
<1> DEFINE old == View(b, h, n, c)
           new == View(nb, h, m, c)
<1>1. PICK S : old \in Seq(S) /\ v \in S
  BY ViewIsSeq
<1>2. Len(old) = n
  BY ViewLen
<1>3. Append(old, v) = [i \in 1..(n + 1) |-> IF i = n + 1 THEN v ELSE old[i]]
  <2> HIDE DEF old
  <2>1. /\ Append(old, v) \in Seq(S) /\ Len(Append(old, v)) = n + 1
        /\ \A i \in 1..n : Append(old, v)[i] = old[i]
        /\ Append(old, v)[n + 1] = v
    BY <1>1, <1>2, AppendProperties
  <2> DEFINE app == Append(old, v)
  <2>2. app \in [1..(n + 1) -> S]
    BY <2>1, LenProperties
  <2> HIDE DEF app
  <2>3. app = [i \in 1..(n + 1) |-> app[i]]
    BY <2>2
  <2>4. \A i \in 1..(n + 1) : app[i] = IF i = n + 1 THEN v ELSE old[i]
    BY <2>1 DEF app
  <2> QED BY <2>3, <2>4 DEF app
<1>4. ASSUME NEW i \in 1..(n + 1)
      PROVE  new[i] = IF i = n + 1 THEN v ELSE old[i]
  <2> DEFINE at == At(h, i - 1, c)
  <2>1. new[i] = nb[at] /\ (i # n + 1 => old[i] = b[at])
    BY DEF View
  <2>2. at \in Slot(c) /\ (at = t <=> i = n + 1)
    BY DEF Slot, At
  <2> HIDE DEF at, new, old
  <2> QED BY <2>1, <2>2
<1>5. new = [i \in 1..(n + 1) |-> new[i]]
  BY DEF View
<1> HIDE DEF new, old
<1>6. new = Append(old, v)
  BY <1>3, <1>4, <1>5
<1> QED BY <1>6 DEF new, old

LEMMA ViewPushLeft ==
  ASSUME NEW c \in Nat \ {0}, NEW h \in Slot(c), NEW n \in Nat, n < c, NEW v,
         NEW p, p = IF h = 0 THEN c - 1 ELSE h - 1,
         NEW b, NEW nb, nb[p] = v, NEW m, m = n + 1,
         \A i \in Slot(c) : i # p => nb[i] = b[i]
  PROVE  View(nb, p, m, c) = <<v>> \o View(b, h, n, c)
<1> DEFINE old == View(b, h, n, c)
           new == View(nb, p, m, c)
<1>1. PICK S : old \in Seq(S) /\ v \in S
  BY ViewIsSeq
<1>2. Len(old) = n
  BY ViewLen
<1>3. <<v>> \o old = [i \in 1..(n + 1) |-> IF i = 1 THEN v ELSE old[i - 1]]
  <2> HIDE DEF old
  <2>1. <<v>> \in Seq(S) /\ Len(<<v>>) = 1 /\ <<v>>[1] = v
    BY <1>1
  <2>2. /\ <<v>> \o old \in Seq(S) /\ Len(<<v>> \o old) = n + 1
        /\ \A i \in 1..(n + 1) : (<<v>> \o old)[i] = IF i <= 1 THEN <<v>>[i] ELSE old[i - 1]
    BY <1>1, <1>2, <2>1, ConcatProperties
  <2>3. <<v>> \o old \in [1..(n + 1) -> S]
    BY <2>2, LenProperties
  <2> QED BY <2>1, <2>2, <2>3
<1>4. ASSUME NEW i \in 1..(n + 1)
      PROVE  new[i] = IF i = 1 THEN v ELSE old[i - 1]
  <2> DEFINE at == At(p, i - 1, c)
             was == At(h, (i - 1) - 1, c)
  <2>1. new[i] = nb[at] /\ (i # 1 => old[i - 1] = b[was])
    BY DEF View
  <2>2. at \in Slot(c) /\ (at = p <=> i = 1) /\ (i # 1 => at = was)
    BY DEF Slot, At
  <2> HIDE DEF at, was, new, old
  <2> QED BY <2>1, <2>2
<1>5. new = [i \in 1..(n + 1) |-> new[i]]
  BY DEF View
<1> HIDE DEF new, old
<1>6. new = <<v>> \o old
  BY <1>3, <1>4, <1>5
<1> QED BY <1>6 DEF new, old

LEMMA ViewGrow ==
  ASSUME NEW c \in Nat \ {0}, NEW h \in Slot(c), NEW b, NEW nb,
         \A i \in Slot(c) : nb[i] = b[(h + i) % c]
  PROVE  View(nb, 0, c, 2 * c) = View(b, h, c, c)
<1>1. ASSUME NEW i \in 1..c
      PROVE  nb[At(0, i - 1, 2 * c)] = b[At(h, i - 1, c)]
  <2>1. At(0, i - 1, 2 * c) = i - 1 /\ i - 1 \in Slot(c) /\ i - 1 \in 0..c
    BY DEF At, Slot
  <2>2. (h + (i - 1)) % c = At(h, i - 1, c)
    BY <2>1, Position
  <2> QED BY <2>1, <2>2
<1> QED BY <1>1 DEF View

LEMMA ViewPopLeft ==
  ASSUME NEW c \in Nat \ {0}, NEW h \in Slot(c), NEW n \in 1..c,
         NEW p, p = At(h, 1, c), NEW b, NEW nb, NEW m, m = n - 1,
         \A i \in Slot(c) : i # h => nb[i] = b[i]
  PROVE  View(nb, p, m, c) = Tail(View(b, h, n, c))
<1> DEFINE old == View(b, h, n, c)
           new == View(nb, p, m, c)
<1>1. n \in Nat
  OBVIOUS
<1>2. PICK S : old \in Seq(S) /\ c \in S
  BY <1>1, ViewIsSeq
<1>3. Len(old) = n
  BY <1>1, ViewLen
<1>4. Tail(old) = [i \in 1..(n - 1) |-> old[i + 1]]
  <2> HIDE DEF old
  <2>1. old # <<>>
    BY <1>3
  <2>2. /\ Tail(old) \in Seq(S) /\ Len(Tail(old)) = n - 1
        /\ \A i \in 1..(n - 1) : Tail(old)[i] = old[i + 1]
    BY <1>2, <1>3, <2>1, HeadTailProperties
  <2>3. Tail(old) \in [1..(n - 1) -> S]
    BY <2>2, LenProperties
  <2> QED BY <2>2, <2>3
<1>5. ASSUME NEW i \in 1..(n - 1)
      PROVE  new[i] = old[i + 1]
  <2> DEFINE at == At(p, i - 1, c)
             was == At(h, (i + 1) - 1, c)
  <2>1. new[i] = nb[at] /\ old[i + 1] = b[was]
    BY DEF View
  <2>2. at = was /\ at # h /\ at \in Slot(c)
    BY DEF At, Slot
  <2> HIDE DEF at, was, new, old
  <2> QED BY <2>1, <2>2
<1>6. new = [i \in 1..(n - 1) |-> new[i]]
  BY DEF View
<1> HIDE DEF new, old
<1>7. new = Tail(old)
  BY <1>4, <1>5, <1>6
<1> QED BY <1>7 DEF new, old

\* A ring written from its first slot on.
LEMMA ViewRebuilt ==
  ASSUME NEW c \in Nat \ {0}, NEW m \in 0..c, NEW s,
         NEW nb, \A i \in 0..(m - 1) : nb[i] = s[i + 1]
  PROVE  View(nb, 0, m, c) = [i \in 1..m |-> s[i]]
<1>1. ASSUME NEW i \in 1..m
      PROVE  nb[At(0, i - 1, c)] = s[i]
  <2>1. At(0, i - 1, c) = i - 1 /\ i - 1 \in 0..(m - 1) /\ (i - 1) + 1 = i
    BY DEF At, Slot
  <2> QED BY <2>1
<1> QED BY <1>1 DEF View

-----------------------------------------------------------------------------
\* The instance counts with an operator of its own.
LEMMA SameCount ==
  ASSUME NEW S
  PROVE  L!Cardinality(S) = Cardinality(S)
BY DEF L!Cardinality, Cardinality

\* What is left of a sequence.
LEMMA KeptIsSequence ==
  ASSUME NEW s, NEW m \in Nat, DOMAIN s = 1..m, NEW S
  PROVE  /\ Cardinality(DOMAIN s \ S) \in 0..m
         /\ DOMAIN L!Kept(s, S) = 1..Cardinality(DOMAIN s \ S)
         /\ Len(L!Kept(s, S)) = Cardinality(DOMAIN s \ S)
         /\ L!Kept(s, S) = [i \in 1..Cardinality(DOMAIN s \ S) |-> L!Kept(s, S)[i]]
<1>1. IsFiniteSet(1..m) /\ Cardinality(1..m) = m
  <2>1. 1 \in Int /\ m \in Int
    OBVIOUS
  <2>2. /\ IsFiniteSet(1..m)
        /\ Cardinality(1..m) = IF 1 > m THEN 0 ELSE m - 1 + 1
    BY <2>1, FS_Interval
  <2> QED BY <2>2
<1>2. Cardinality(DOMAIN s \ S) \in Nat /\ Cardinality(DOMAIN s \ S) <= m
  <2>1. DOMAIN s \ S \in SUBSET (1..m)
    OBVIOUS
  <2>2. IsFiniteSet(DOMAIN s \ S) /\ Cardinality(DOMAIN s \ S) <= Cardinality(1..m)
    BY <1>1, <2>1, FS_Subset
  <2>3. Cardinality(DOMAIN s \ S) \in Nat
    BY <2>2, FS_CardinalityType
  <2> QED BY <1>1, <2>2, <2>3
<1> DEFINE k == Cardinality(DOMAIN s \ S)
<1>3. L!Kept(s, S) = [i \in 1..k |-> L!Kept(s, S)[i]]
  BY SameCount DEF L!Kept
<1> HIDE DEF k
<1> DEFINE kept == L!Kept(s, S)
<1> HIDE DEF kept
<1>4. kept = [i \in 1..k |-> kept[i]] /\ k \in Nat
  BY <1>2, <1>3 DEF kept, k
<1>5. DOMAIN kept = 1..k /\ Len(kept) = k
  BY <1>4
<1> QED BY <1>2, <1>4, <1>5 DEF kept, k

-----------------------------------------------------------------------------

LEMMA ContentsIsView ==
  /\ RingInv => contents = View(buffer, head, length, capacity)
  /\ RingInv' => contents' = View(buffer', head', length', capacity')
<1>1. ASSUME NEW c \in Nat \ {0}, NEW h \in Slot(c), NEW n \in 0..c, NEW b
      PROVE  View(b, h, n, c) = [i \in 1..n |-> b[(h + (i - 1)) % c]]
  <2>1. ASSUME NEW i \in 1..n
        PROVE  (h + (i - 1)) % c = At(h, i - 1, c)
    <3>1. i - 1 \in 0..c
      OBVIOUS
    <3> QED BY <3>1, Position
  <2> QED BY <2>1 DEF View
<1> QED BY <1>1 DEF contents, Get, RingInv

LEMMA ViewEmpty ==
  ASSUME NEW b, NEW h, NEW c
  PROVE  View(b, h, 0, c) = <<>>
<1> DEFINE w == View(b, h, 0, c)
<1>1. w \in Seq({}) /\ Len(w) = 0
  <2>1. w = [i \in 1..0 |-> w[i]] /\ 0 \in Nat
    BY DEF View
  <2> HIDE DEF w
  <2>2. w \in [1..0 -> {}]
    BY <2>1
  <2> QED BY <2>1, <2>2
<1> HIDE DEF w
<1>2. w = <<>>
  BY <1>1
<1> QED BY <1>2 DEF w

\* The ring a push writes to has a free slot and holds the same list.
LEMMA RingReady ==
  ASSUME RingInv
  PROVE  /\ Ring.capacity \in Nat \ {0} /\ length \in 0..(Ring.capacity - 1)
         /\ DOMAIN Ring.buffer = Slot(Ring.capacity)
         /\ Ring.head \in Slot(Ring.capacity)
         /\ Ring.tail = At(Ring.head, length, Ring.capacity)
         /\ View(Ring.buffer, Ring.head, length, Ring.capacity) = contents
<1>1. CASE length = capacity
  <2>1. /\ Ring.buffer = [i \in Slot(2 * capacity) |->
                            IF i < capacity THEN buffer[(head + i) % capacity] ELSE Empty]
        /\ Ring.capacity = 2 * capacity /\ Ring.head = 0 /\ Ring.tail = capacity
    BY <1>1 DEF Ring, Grown, Get
  <2>2. /\ capacity \in Nat \ {0} /\ head \in Slot(capacity)
        /\ 2 * capacity \in Nat \ {0} /\ 0 \in Slot(2 * capacity)
        /\ capacity \in 0..(2 * capacity - 1)
        /\ capacity = At(0, capacity, 2 * capacity)
    BY DEF RingInv, Slot, At
  <2>3. View(Ring.buffer, 0, capacity, 2 * capacity) = View(buffer, head, capacity, capacity)
    <3>1. \A i \in Slot(capacity) : Ring.buffer[i] = buffer[(head + i) % capacity]
      BY <2>1, <2>2 DEF Slot
    <3> QED BY <2>2, <3>1, ViewGrow
  <2>4. View(Ring.buffer, Ring.head, length, Ring.capacity) = contents
    BY <1>1, <2>1, <2>3, ContentsIsView
  <2>5. DOMAIN Ring.buffer = Slot(Ring.capacity)
    BY <2>1
  <2> QED BY <1>1, <2>1, <2>2, <2>4, <2>5
<1>2. CASE length # capacity
  <2>1. /\ Ring.buffer = buffer /\ Ring.capacity = capacity
        /\ Ring.head = head /\ Ring.tail = tail
    BY <1>2 DEF Ring
  <2> QED BY <1>2, <2>1, ContentsIsView DEF RingInv
<1> QED BY <1>1, <1>2

-----------------------------------------------------------------------------
\* Each operation keeps the ring and does to the list what AbstractList says.
LEMMA PushRightStep ==
  ASSUME RingInv, NEW v \in Val, PushRight(v)
  PROVE  RingInv' /\ contents' = Append(contents, v)
<1> DEFINE c == Ring.capacity
           h == Ring.head
           b == Ring.buffer
           t == Ring.tail
<1>1. /\ c \in Nat \ {0} /\ length \in 0..(c - 1) /\ DOMAIN b = Slot(c)
      /\ h \in Slot(c) /\ t = At(h, length, c) /\ View(b, h, length, c) = contents
  BY RingReady
<1>2. /\ buffer' = [b EXCEPT ![t] = v] /\ tail' = (t + 1) % c
      /\ capacity' = c /\ head' = h /\ length' = length + 1
  BY DEF PushRight
<1> HIDE DEF c, h, b, t
<1>3. length \in Nat /\ length < c /\ length + 1 \in 0..c /\ 1 \in 0..c
  BY <1>1
<1>4. View(buffer', h, length', c) = Append(View(b, h, length, c), v)
  <2>1. t \in Slot(c)
    BY <1>1 DEF At, Slot
  <2>2. buffer'[t] = v /\ \A i \in Slot(c) : i # t => buffer'[i] = b[i]
    BY <1>1, <1>2, <2>1
  <2>3. /\ c \in Nat \ {0} /\ h \in Slot(c) /\ length \in Nat /\ length < c
        /\ length' = length + 1 /\ t = At(h, length, c)
    BY <1>1, <1>2, <1>3
  <2> QED BY <2>2, <2>3, ViewPushRight
<1>5. t \in Slot(c) /\ At(t, 1, c) = At(h, length + 1, c)
  BY <1>1 DEF At, Slot
<1>6. tail' = At(head', length', capacity')
  BY <1>1, <1>2, <1>3, <1>5, Position
<1>7. RingInv'
  BY <1>1, <1>2, <1>3, <1>6 DEF RingInv
<1> QED BY <1>1, <1>2, <1>4, <1>7, ContentsIsView

LEMMA PushLeftStep ==
  ASSUME RingInv, NEW v \in Val, PushLeft(v)
  PROVE  RingInv' /\ contents' = <<v>> \o contents
<1> DEFINE c == Ring.capacity
           h == Ring.head
           b == Ring.buffer
           t == Ring.tail
           p == (h - 1 + c) % c
<1>1. /\ c \in Nat \ {0} /\ length \in 0..(c - 1) /\ DOMAIN b = Slot(c)
      /\ h \in Slot(c) /\ t = At(h, length, c) /\ View(b, h, length, c) = contents
  BY RingReady
<1>2. /\ buffer' = [b EXCEPT ![p] = v] /\ tail' = t
      /\ capacity' = c /\ head' = p /\ length' = length + 1
  BY DEF PushLeft
<1>3. p = (IF h = 0 THEN c - 1 ELSE h - 1) /\ p \in Slot(c)
  <2> HIDE DEF c, h
  <2> QED BY <1>1, Before
<1> HIDE DEF c, h, b, t, p
<1>4. length \in Nat /\ length < c /\ length + 1 \in 0..c
  BY <1>1
<1>5. View(buffer', p, length', c) = <<v>> \o View(b, h, length, c)
  <2>1. buffer'[p] = v /\ \A i \in Slot(c) : i # p => buffer'[i] = b[i]
    BY <1>1, <1>2, <1>3
  <2>2. /\ c \in Nat \ {0} /\ h \in Slot(c) /\ length \in Nat /\ length < c
        /\ length' = length + 1 /\ p = IF h = 0 THEN c - 1 ELSE h - 1
    BY <1>1, <1>2, <1>3, <1>4
  <2> QED BY <2>1, <2>2, ViewPushLeft
<1>6. At(p, length + 1, c) = At(h, length, c)
  BY <1>1, <1>3 DEF At, Slot
<1>7. RingInv'
  BY <1>1, <1>2, <1>3, <1>4, <1>6 DEF RingInv
<1> QED BY <1>1, <1>2, <1>5, <1>7, ContentsIsView

LEMMA NoDequeStep ==
  ASSUME NoDeque
  PROVE  RingInv' /\ contents' = <<>>
<1>1. /\ InitialCapacity \in Nat \ {0} /\ 0 \in Slot(InitialCapacity)
      /\ 0 \in 0..InitialCapacity /\ At(0, 0, InitialCapacity) = 0
  BY CapacityAssumption DEF Slot, At
<1>2. RingInv'
  BY <1>1 DEF NoDeque, RingInv, Blank
<1>3. contents' = View(buffer', head', 0, capacity')
  BY <1>2, ContentsIsView DEF NoDeque
<1>4. contents' = <<>>
  BY <1>3, ViewEmpty
<1> QED BY <1>2, <1>4

LEMMA LenContents ==
  ASSUME RingInv
  PROVE  Len(contents) = length /\ DOMAIN contents = 1..length
BY DEF RingInv, contents

LEMMA PopLeftStep ==
  ASSUME RingInv, PopLeft
  PROVE  RingInv' /\ contents # <<>> /\ contents' = Tail(contents)
<1> DEFINE nb == [buffer EXCEPT ![head] = Empty]
           p == At(head, 1, capacity)
           m == length - 1
<1>1. /\ capacity \in Nat \ {0} /\ head \in Slot(capacity) /\ length \in 1..capacity
      /\ DOMAIN buffer = Slot(capacity) /\ tail = At(head, length, capacity)
  BY DEF RingInv, PopLeft
<1>2. contents # <<>>
  <2>1. Len(contents) = length
    BY LenContents
  <2> QED BY <1>1, <2>1
<1>3. View(nb, p, m, capacity) = Tail(contents)
  <2>0. \A i \in Slot(capacity) : i # head => nb[i] = buffer[i]
    BY <1>1
  <2>1. View(nb, p, m, capacity) = Tail(View(buffer, head, length, capacity))
    <3>1. p = At(head, 1, capacity) /\ m = length - 1
      OBVIOUS
    <3>2. capacity \in Nat \ {0} /\ head \in Slot(capacity) /\ length \in 1..capacity
      BY <1>1
    <3> HIDE DEF nb, p, m
    <3> QED BY <2>0, <3>1, <3>2, ViewPopLeft
  <2> QED BY <2>1, ContentsIsView
<1>4. CASE length = 1
  <2>1. NoDeque
    BY <1>4 DEF PopLeft
  <2>2. Tail(contents) = <<>>
    BY <1>3, <1>4, ViewEmpty
  <2> QED BY <1>2, <2>1, <2>2, NoDequeStep
<1>5. CASE length # 1
  <2>1. /\ buffer' = nb /\ head' = (head + 1) % capacity
        /\ length' = m /\ capacity' = capacity /\ tail' = tail
    BY <1>5 DEF PopLeft
  <2>2. head' = p /\ p \in Slot(capacity)
    <3>1. 1 \in 0..capacity
      BY <1>1
    <3> QED BY <1>1, <2>1, <3>1, Position
  <2>3. At(p, m, capacity) = At(head, length, capacity)
    BY <1>1 DEF At, Slot
  <2>4. m \in 0..capacity /\ DOMAIN nb = Slot(capacity)
    BY <1>1
  <2> HIDE DEF nb, p, m
  <2>5. RingInv'
    BY <1>1, <2>1, <2>2, <2>3, <2>4 DEF RingInv
  <2> QED BY <1>2, <1>3, <2>1, <2>2, <2>5, ContentsIsView
<1> QED BY <1>4, <1>5

LEMMA PopRightStep ==
  ASSUME RingInv, PopRight
  PROVE  /\ RingInv' /\ contents # <<>>
         /\ contents' = SubSeq(contents, 1, Len(contents) - 1)
<1> DEFINE p == (tail - 1 + capacity) % capacity
           nb == [buffer EXCEPT ![p] = Empty]
           m == length - 1
<1>1. /\ capacity \in Nat \ {0} /\ head \in Slot(capacity) /\ length \in 1..capacity
      /\ DOMAIN buffer = Slot(capacity) /\ tail = At(head, length, capacity)
  BY DEF RingInv, PopRight
<1>2. Len(contents) = length /\ contents # <<>>
  <2>1. Len(contents) = length
    BY LenContents
  <2> QED BY <1>1, <2>1
<1>3. p = At(head, length - 1, capacity) /\ p \in Slot(capacity)
  <2>1. tail \in Slot(capacity)
    BY <1>1 DEF At, Slot
  <2>2. p = (IF tail = 0 THEN capacity - 1 ELSE tail - 1) /\ p \in Slot(capacity)
    BY <1>1, <2>1, Before
  <2> HIDE DEF p
  <2> QED BY <1>1, <2>2 DEF At, Slot
<1>4. View(nb, head, m, capacity) = SubSeq(contents, 1, m)
  <2> DEFINE old == View(buffer, head, length, capacity)
             new == View(nb, head, m, capacity)
  <2>1. SubSeq(old, 1, m) = [i \in 1..m |-> old[i]]
    <3> HIDE DEF old
    <3> QED BY <1>1
  <2>2. ASSUME NEW i \in 1..m
        PROVE  new[i] = old[i]
    <3> DEFINE at == At(head, i - 1, capacity)
    <3>1. new[i] = nb[at] /\ old[i] = buffer[at]
      BY <1>1 DEF View
    <3>2. at # p /\ at \in Slot(capacity)
      <4> HIDE DEF p
      <4> QED BY <1>1, <1>3 DEF At, Slot
    <3> HIDE DEF at, new, old, p
    <3> QED BY <1>1, <3>1, <3>2
  <2>3. new = [i \in 1..m |-> new[i]]
    BY DEF View
  <2>4. contents = old
    BY ContentsIsView
  <2> HIDE DEF new, old, m
  <2>5. new = SubSeq(old, 1, m)
    BY <2>1, <2>2, <2>3
  <2> QED BY <2>4, <2>5 DEF new
<1>5. CASE length = 1
  <2>1. NoDeque
    BY <1>5 DEF PopRight
  <2>2. SubSeq(contents, 1, m) = <<>>
    BY <1>4, <1>5, ViewEmpty
  <2> QED BY <1>2, <2>1, <2>2, NoDequeStep
<1>6. CASE length # 1
  <2>1. /\ buffer' = nb /\ tail' = p
        /\ length' = m /\ capacity' = capacity /\ head' = head
    BY <1>6 DEF PopRight
  <2>2. m \in 0..capacity /\ DOMAIN nb = Slot(capacity) /\ m = length - 1
    BY <1>1
  <2> HIDE DEF nb, p, m
  <2>3. RingInv'
    BY <1>1, <1>3, <2>1, <2>2 DEF RingInv
  <2> QED BY <1>2, <1>4, <2>1, <2>2, <2>3, ContentsIsView
<1> QED BY <1>5, <1>6

LEMMA SetStep ==
  ASSUME RingInv, NEW v \in Val, NEW i \in -length..(length - 1), Set(i, v)
  PROVE  RingInv' /\ \E j \in DOMAIN contents : contents' = [contents EXCEPT ![j] = v]
<1> DEFINE j == IF i < 0 THEN length + i ELSE i
           p == (head + j) % capacity
<1>1. /\ capacity \in Nat \ {0} /\ head \in Slot(capacity) /\ length \in 1..capacity
      /\ DOMAIN buffer = Slot(capacity) /\ tail = At(head, length, capacity)
      /\ j \in 0..(length - 1) /\ j \in 0..capacity
  BY DEF RingInv, Set
<1>2. /\ buffer' = [buffer EXCEPT ![p] = v]
      /\ capacity' = capacity /\ head' = head /\ tail' = tail /\ length' = length
  BY DEF Set
<1> HIDE DEF j
<1>3. p = At(head, j, capacity) /\ p \in Slot(capacity)
  BY <1>1, Position
<1> HIDE DEF p
<1>4. buffer'[p] = v /\ \A k \in Slot(capacity) : k # p => buffer'[k] = buffer[k]
  BY <1>1, <1>2, <1>3
<1> DEFINE old == View(buffer, head, length, capacity)
           new == View(buffer', head, length, capacity)
<1>5. new = [old EXCEPT ![j + 1] = v]
  <2>1. ASSUME NEW k \in 1..length
        PROVE  new[k] = IF k = j + 1 THEN v ELSE old[k]
    <3> DEFINE at == At(head, k - 1, capacity)
    <3>1. new[k] = buffer'[at] /\ old[k] = buffer[at]
      BY DEF View
    <3>2. (at = p <=> k = j + 1) /\ at \in Slot(capacity)
      BY <1>1, <1>3 DEF At, Slot
    <3> HIDE DEF at, new, old
    <3> QED BY <1>4, <3>1, <3>2
  <2>2. old = [k \in 1..length |-> old[k]] /\ new = [k \in 1..length |-> new[k]]
    BY DEF View
  <2> HIDE DEF old, new
  <2> QED BY <2>1, <2>2
<1>6. RingInv'
  BY <1>1, <1>2 DEF RingInv
<1>7. contents' = [contents EXCEPT ![j + 1] = v]
  BY <1>2, <1>5, <1>6, ContentsIsView
<1>8. j + 1 \in DOMAIN contents
  BY <1>1, LenContents
<1> QED BY <1>6, <1>7, <1>8

LEMMA RemoveStep ==
  ASSUME RingInv, NEW v \in Val, NEW count \in -length..length, RemoveIndex(v, count)
  PROVE  RingInv' /\ contents' = L!Kept(contents, L!Taken(contents, v, count))
<1> DEFINE gone == L!Taken(contents, v, count)
           kept == L!Kept(contents, gone)
           m == Cardinality(DOMAIN contents \ gone)
<1>1. /\ capacity \in Nat \ {0} /\ length \in 0..capacity
      /\ length \in Nat /\ DOMAIN contents = 1..length
  BY LenContents DEF RingInv
<1>2. m \in 0..length /\ Len(kept) = m /\ kept = [i \in 1..m |-> kept[i]]
  <2> HIDE DEF gone
  <2> QED BY <1>1, KeptIsSequence
<1>3. CASE Len(kept) = 0
  <2>1. NoDeque
    BY <1>3 DEF RemoveIndex
  <2>2. kept = <<>>
    <3> HIDE DEF kept, m
    <3> QED BY <1>2, <1>3
  <2> QED BY <2>1, <2>2, NoDequeStep
<1>4. CASE Len(kept) # 0
  <2>1. /\ buffer' = [i \in Slot(capacity) |-> IF i < Len(kept) THEN kept[i + 1] ELSE Empty]
        /\ head' = 0 /\ tail' = Len(kept) % capacity
        /\ length' = Len(kept) /\ capacity' = capacity
    BY <1>4 DEF RemoveIndex
  <2> HIDE DEF kept, m
  <2>2. m \in 0..capacity /\ m \in Nat
    BY <1>1, <1>2
  <2>3. \A i \in 0..(m - 1) : buffer'[i] = kept[i + 1]
    BY <1>1, <1>2, <2>1, <2>2 DEF Slot
  <2>4. View(buffer', 0, m, capacity) = kept
    <3>1. View(buffer', 0, m, capacity) = [i \in 1..m |-> kept[i]]
      <4>1. capacity \in Nat \ {0} /\ m \in 0..capacity
        BY <1>1, <2>2
      <4> QED
        BY ONLY <4>1, <2>3, ViewRebuilt
    <3> QED BY <1>2, <3>1
  <2>5. tail' = At(0, m, capacity) /\ 0 \in Slot(capacity)
    <3>1. m < 2 * capacity
      BY <1>1, <2>2
    <3>2. m % capacity = IF m < capacity THEN m ELSE m - capacity
      BY <1>1, <2>2, <3>1, Wrap
    <3> QED BY <1>1, <1>2, <2>1, <2>2, <3>2 DEF At, Slot
  <2>6. RingInv'
    BY <1>1, <1>2, <2>1, <2>2, <2>5 DEF RingInv
  <2> QED BY <1>2, <2>1, <2>4, <2>6, ContentsIsView DEF kept
<1> QED BY <1>3, <1>4

-----------------------------------------------------------------------------
LEMMA InitialRing ==
  ASSUME DequeInit
  PROVE  RingInv /\ contents = <<>>
<1>1. /\ InitialCapacity \in Nat \ {0} /\ 0 \in Slot(InitialCapacity)
      /\ 0 \in 0..InitialCapacity /\ At(0, 0, InitialCapacity) = 0
  BY CapacityAssumption DEF Slot, At
<1>2. RingInv
  BY <1>1 DEF DequeInit, RingInv, Blank
<1>3. contents = View(buffer, head, 0, capacity)
  BY <1>2, ContentsIsView DEF DequeInit
<1> QED BY <1>2, <1>3, ViewEmpty

\* Every step of the ring is a step of the list and keeps the ring.
LEMMA DequeStep ==
  ASSUME RingInv, [DequeNext]_dequeVars
  PROVE  RingInv' /\ [L!ListNext]_contents
<1>1. ASSUME NEW v \in Val, PushRight(v)
      PROVE  RingInv' /\ L!ListNext
  BY <1>1, PushRightStep DEF L!ListNext, L!Rpush
<1>2. ASSUME NEW v \in Val, PushLeft(v)
      PROVE  RingInv' /\ L!ListNext
  BY <1>2, PushLeftStep DEF L!ListNext, L!Lpush
<1>3. CASE PopLeft
  BY <1>3, PopLeftStep DEF L!ListNext, L!Lpop
<1>4. CASE PopRight
  BY <1>4, PopRightStep DEF L!ListNext, L!Rpop
<1>5. ASSUME NEW v \in Val, NEW i \in -length..(length - 1), Set(i, v)
      PROVE  RingInv' /\ L!ListNext
  <2>1. PICK j \in DOMAIN contents : contents' = [contents EXCEPT ![j] = v]
    BY <1>5, SetStep
  <2>2. L!Lset(j, v)
    BY <2>1 DEF L!Lset
  <2> QED BY <1>5, <2>2, SetStep DEF L!ListNext
<1>6. ASSUME NEW v \in Val, NEW count \in -length..length, RemoveIndex(v, count)
      PROVE  RingInv' /\ L!ListNext
  <2>1. RingInv' /\ L!Lrem(v, count)
    BY <1>6, RemoveStep DEF L!Lrem
  <2>2. count \in -Len(contents)..Len(contents)
    BY LenContents
  <2> QED BY <2>1, <2>2 DEF L!ListNext
<1>7. CASE UNCHANGED dequeVars
  BY <1>7 DEF dequeVars, RingInv, contents, Get
<1> QED BY <1>1, <1>2, <1>3, <1>4, <1>5, <1>6, <1>7 DEF DequeNext

\* Whatever the sequence of pushes, pops, growths, wrap-arounds and removals,
\* the deque of deque.js is the list the commands promise.
THEOREM DequeIsList == DequeSpec => IsList
<1>1. DequeInit => RingInv /\ L!ListInit
  BY InitialRing DEF L!ListInit
<1>2. RingInv /\ [DequeNext]_dequeVars => RingInv' /\ [L!ListNext]_contents
  BY DequeStep
<1> QED BY <1>1, <1>2, PTL DEF DequeSpec, IsList, L!ListSpec

-----------------------------------------------------------------------------
(* Gateway: what it promises for any number of clients, any capacity and   *)
(* any refill rate.                                                        *)

\* What holds of the limiter between two uses of a bucket: what a client got
\* since the window opened, with the tokens it has left, was either in its full
\* bucket or refilled inside the window.
BucketInv(c) ==
  /\ c \in DOMAIN buckets =>
       buckets[c].tokens \in 0..Capacity /\ buckets[c].lastRefill \in 0..clock
  /\ c \notin DOMAIN buckets => admitted[c] = 0
  /\ c \in DOMAIN buckets /\ buckets[c].lastRefill < since => admitted[c] = 0
  /\ c \in DOMAIN buckets /\ buckets[c].lastRefill >= since =>
       admitted[c] + buckets[c].tokens <= Capacity + Refill * (buckets[c].lastRefill - since)

RateInv ==
  /\ clock \in Nat /\ since \in Nat
  /\ admitted \in [GatewayClient -> Nat]
  /\ \A c \in GatewayClient : BucketInv(c)

LEMMA Elapsed ==
  ASSUME NEW r \in Nat, NEW a \in Int, NEW b \in Int, NEW s \in Int, a <= b
  PROVE  /\ r * (b - s) = r * (a - s) + r * (b - a)
         /\ r * (b - a) \in Nat
         /\ r * (a - s) <= r * (b - s)
<1>1. r * (b - s) = r * (a - s) + r * (b - a)
  OBVIOUS
<1>2. b - a \in Nat
  OBVIOUS
<1>3. r * (b - a) \in Nat
  BY <1>2
<1>4. r * (a - s) \in Int /\ r * (b - s) \in Int
  OBVIOUS
<1> QED BY <1>1, <1>3, <1>4

\* One use of the bucket of c keeps the invariant of c.
LEMMA ConsumeKeeps ==
  ASSUME RateInv, NEW c \in GatewayClient, Consume(c), clock' = clock, since' = since
  PROVE  RateInv'
<1>1. /\ clock \in Nat /\ since \in Nat /\ admitted \in [GatewayClient -> Nat]
      /\ \A d \in GatewayClient : BucketInv(d)
      /\ Capacity \in Nat \ {0} /\ Refill \in Nat
  BY GatewayAssumption DEF RateInv
<1> DEFINE t == Refilled(c).tokens
<1>2. /\ t \in 0..Capacity
      /\ Refilled(c).lastRefill = clock
      /\ clock >= since => admitted[c] + t <= Capacity + Refill * (clock - since)
  <2>1. CASE c \notin DOMAIN buckets
    <3>1. t = Capacity /\ Refilled(c).lastRefill = clock
      BY <2>1 DEF Refilled, Full
    <3>2. admitted[c] = 0
      BY <1>1, <2>1 DEF BucketInv
    <3>3. clock >= since => Refill * (clock - since) \in Nat
      BY <1>1
    <3> QED BY <1>1, <3>1, <3>2, <3>3
  <2>2. CASE c \in DOMAIN buckets
    <3> DEFINE last == buckets[c].lastRefill
               had == buckets[c].tokens
               gain == Refill * (clock - last)
    <3>1. /\ had \in 0..Capacity /\ last \in 0..clock
          /\ last < since => admitted[c] = 0
          /\ last >= since => admitted[c] + had <= Capacity + Refill * (last - since)
      BY <1>1, <2>2 DEF BucketInv
    <3>2. gain \in Nat
      <4>1. last \in Int /\ clock \in Int /\ last <= clock
        BY <1>1, <3>1
      <4> HIDE DEF last
      <4> QED BY <1>1, <4>1, Elapsed
    <3>3. t = Least(Capacity, had + gain) /\ Refilled(c).lastRefill = clock
      BY <2>2 DEF Refilled
    <3>4. Refill * (clock - since) = Refill * (last - since) + gain
      BY <1>1, <3>1, Elapsed
    <3>5. clock >= since => Refill * (clock - since) \in Nat
      BY <1>1
    <3>6. Refill * (last - since) \in Int /\ admitted[c] \in Nat
      BY <1>1, <3>1
    <3> HIDE DEF last, had, gain, t
    <3>7. t \in 0..Capacity /\ t <= had + gain
      BY <1>1, <3>1, <3>2, <3>3 DEF Least
    <3>8. ASSUME clock >= since
          PROVE  admitted[c] + t <= Capacity + Refill * (clock - since)
      <4>1. CASE last < since
        BY <1>1, <3>1, <3>5, <3>7, <3>8, <4>1
      <4>2. CASE last >= since
        BY <1>1, <3>1, <3>2, <3>4, <3>6, <3>7, <4>2
      <4> QED BY <1>1, <3>1, <4>1, <4>2
    <3> QED BY <3>3, <3>7, <3>8 DEF t
  <2> QED BY <2>1, <2>2
<1>3. /\ c \in DOMAIN buckets' /\ buckets'[c].lastRefill = clock
      /\ buckets'[c].tokens = IF t >= 1 THEN t - 1 ELSE t
      /\ \A d \in GatewayClient \ {c} :
           /\ d \in DOMAIN buckets' <=> d \in DOMAIN buckets
           /\ d \in DOMAIN buckets => buckets'[d] = buckets[d]
  BY <1>2 DEF Consume, Consumed, Refilled, Full
<1>4. /\ admitted' \in [GatewayClient -> Nat]
      /\ admitted'[c] = IF t >= 1 /\ clock >= since THEN admitted[c] + 1 ELSE admitted[c]
      /\ \A d \in GatewayClient \ {c} : admitted'[d] = admitted[d]
  BY <1>1 DEF Consume
<1> HIDE DEF t
<1>5. BucketInv(c)'
  <2>1. clock < since => admitted[c] = 0
    BY <1>1 DEF BucketInv
  <2>2. admitted[c] \in Nat /\ Refill * (clock - since) \in Int
    BY <1>1
  <2> QED BY <1>1, <1>2, <1>3, <1>4, <2>1, <2>2 DEF BucketInv
<1>6. ASSUME NEW d \in GatewayClient \ {c}
      PROVE  BucketInv(d)'
  BY <1>1, <1>3, <1>4 DEF BucketInv
<1> QED BY <1>1, <1>4, <1>5, <1>6 DEF RateInv

\* However long a client was idle, whatever the decisions on its commands, the
\* limiter lets no more of them through a window than RateBound says.
THEOREM LimiterBounds == GatewaySpec => []RateBound
<1>1. GatewayInit => RateInv
  BY GatewayAssumption DEF GatewayInit, RateInv, BucketInv
<1>2. RateInv /\ [GatewayNext]_gatewayVars => RateInv'
  <2> SUFFICES ASSUME RateInv, [GatewayNext]_gatewayVars
               PROVE  RateInv'
    OBVIOUS
  <2>1. ASSUME NEW c \in GatewayClient, NEW kind \in Kind, NEW confirmed \in BOOLEAN,
               NEW confirms \in BOOLEAN, NEW right \in BOOLEAN,
               Execute(c, kind, confirmed, confirms, right)
        PROVE  RateInv'
    BY <2>1, ConsumeKeeps DEF Execute
  <2>2. CASE Tick
    BY <2>2 DEF Tick, RateInv, BucketInv
  <2>3. CASE UNCHANGED gatewayVars
    BY <2>3 DEF gatewayVars, RateInv, BucketInv
  <2> QED BY <2>1, <2>2, <2>3 DEF GatewayNext
<1>3. RateInv => RateBound
  <2> SUFFICES ASSUME RateInv, NEW c \in GatewayClient, admitted[c] > 0
               PROVE  admitted[c] <= Capacity + Refill * (clock - since)
    BY DEF RateBound
  <2> DEFINE last == buckets[c].lastRefill
             had == buckets[c].tokens
  <2>1. /\ clock \in Nat /\ since \in Nat /\ admitted[c] \in Nat
        /\ Capacity \in Nat /\ Refill \in Nat
        /\ last \in 0..clock /\ last >= since /\ had \in Nat
        /\ admitted[c] + had <= Capacity + Refill * (last - since)
    BY GatewayAssumption DEF RateInv, BucketInv
  <2> HIDE DEF last, had
  <2>2. Refill * (last - since) <= Refill * (clock - since)
    BY <2>1, Elapsed
  <2>3. Refill * (last - since) \in Int /\ Refill * (clock - since) \in Int
    BY <2>1
  <2> QED BY <2>1, <2>2, <2>3
<1> QED BY <1>1, <1>2, <1>3, PTL DEF GatewaySpec

-----------------------------------------------------------------------------
Status ==
  {"RATE_LIMITED", "UNAUTHENTICATED", "WORKSPACE_DENIED", "PERMISSION_DENIED",
   "DANGEROUS_BLOCKED", "CONFIRMATION_REQUIRED", "ALLOWED"}
Audited == [id : Nat, who : GatewayClient, status : Status]

AuditInv == counter \in Nat \ {0} /\ entries \in Seq(Audited) /\ AuditExact

\* One record more, at the end of a trail that may be full.
LEMMA LogKeeps ==
  ASSUME AuditInv, NEW c \in GatewayClient, NEW status \in Status, AuditLog(c, status)
  PROVE  AuditInv'
<1> DEFINE record == [id |-> counter, who |-> c, status |-> status]
           all == Append(entries, record)
           n == Len(entries)
<1>1. /\ counter \in Nat \ {0} /\ MaxEntries \in Nat /\ n \in Nat
      /\ entries \in Seq(Audited) /\ record \in Audited /\ record.id = counter
      /\ n = Least(counter - 1, MaxEntries)
      /\ \A i \in 1..n : entries[i].id = counter - 1 - (n - i)
  <2>1. counter \in Nat \ {0} /\ entries \in Seq(Audited) /\ MaxEntries \in Nat
    BY GatewayAssumption DEF AuditInv
  <2>2. record \in Audited /\ record.id = counter
    BY <2>1 DEF Audited
  <2>3. n \in Nat /\ DOMAIN entries = 1..n
    <3> HIDE DEF record
    <3> QED
      BY ONLY <2>1, LenProperties
  <2>4. /\ n = Least(counter - 1, MaxEntries)
        /\ \A i \in DOMAIN entries : entries[i].id = counter - 1 - (n - i)
    BY DEF AuditInv, AuditExact
  <2> HIDE DEF record, n
  <2> QED
    BY <2>1, <2>2, <2>3, <2>4
<1>2. /\ all \in Seq(Audited) /\ Len(all) = n + 1
      /\ \A i \in 1..(n + 1) : all[i].id = counter - (n + 1 - i)
  <2> HIDE DEF record
  <2>1. /\ all \in Seq(Audited) /\ Len(all) = n + 1 /\ all[n + 1] = record
        /\ \A i \in 1..n : all[i] = entries[i]
    BY <1>1, AppendProperties
  <2> HIDE DEF all, n
  <2>2. ASSUME NEW i \in 1..(n + 1)
        PROVE  all[i].id = counter - (n + 1 - i)
    <3>1. CASE i = n + 1
      BY <1>1, <2>1, <3>1 DEF record
    <3>2. CASE i # n + 1
      <4>1. i \in 1..n /\ all[i] = entries[i]
        BY <1>1, <2>1, <3>2
      <4>2. all[i].id = counter - 1 - (n - i)
        BY <1>1, <4>1
      <4> QED BY <1>1, <4>1, <4>2
    <3> QED BY <3>1, <3>2
  <2>3. \A i \in 1..(n + 1) : all[i].id = counter - (n + 1 - i)
    BY <2>2
  <2> QED BY <2>1, <2>3, Zenon
<1>3. counter' = counter + 1 /\ entries' = IF n + 1 > MaxEntries THEN Tail(all) ELSE all
  BY <1>2 DEF AuditLog, Logged
<1> HIDE DEF all, n, record
<1>4. CASE n + 1 > MaxEntries
  <2>1. n = MaxEntries
    BY <1>1, <1>4 DEF Least
  <2>2. all # <<>>
    BY <1>1, <1>2
  <2>3. /\ Tail(all) \in Seq(Audited) /\ Len(Tail(all)) = n
        /\ \A i \in 1..n : Tail(all)[i] = all[i + 1]
    BY <1>1, <1>2, <2>2, HeadTailProperties
  <2>4. \A i \in 1..n : Tail(all)[i].id = counter - (n - i)
    <3>1. ASSUME NEW i \in 1..n PROVE Tail(all)[i].id = counter - (n - i)
      <4>1. i + 1 \in 1..(n + 1) /\ n + 1 - (i + 1) = n - i
        BY <1>1
      <4>2. all[i + 1].id = counter - (n + 1 - (i + 1))
        BY <1>2, <4>1
      <4> QED
        BY <2>3, <4>1, <4>2
    <3> QED
      BY <3>1
  <2>5. n = Least(counter, MaxEntries)
    BY <1>1, <2>1 DEF Least
  <2> QED BY <1>1, <1>3, <1>4, <2>3, <2>4, <2>5 DEF AuditInv, AuditExact
<1>5. CASE n + 1 <= MaxEntries
  <2>1. n + 1 = Least(counter, MaxEntries)
    BY <1>1, <1>5 DEF Least
  <2> QED BY <1>1, <1>2, <1>3, <1>5, <2>1 DEF AuditInv, AuditExact
<1> QED BY <1>1, <1>4, <1>5

\* The trail never has a gap and never forgets a record it has room for.
THEOREM AuditIsExact == GatewaySpec => []AuditExact
<1>1. GatewayInit => AuditInv
  BY GatewayAssumption DEF GatewayInit, AuditInv, AuditExact, Least
<1>2. AuditInv /\ [GatewayNext]_gatewayVars => AuditInv'
  <2> SUFFICES ASSUME AuditInv, [GatewayNext]_gatewayVars
               PROVE  AuditInv'
    OBVIOUS
  <2>1. ASSUME NEW c \in GatewayClient, NEW kind \in Kind, NEW confirmed \in BOOLEAN,
               NEW confirms \in BOOLEAN, NEW right \in BOOLEAN,
               Execute(c, kind, confirmed, confirms, right)
        PROVE  AuditInv'
    <3> DEFINE decision == Decision(sessions[c], kind, confirmed, confirms)
               logged == IF Refilled(c).tokens < 1 THEN "RATE_LIMITED" ELSE decision
    <3>1. logged \in Status
      <4>1. decision \in Status
        BY DEF Decision, Status
      <4> HIDE DEF decision
      <4> QED BY <4>1 DEF Status
    <3>2. IF logged = "CONFIRMATION_REQUIRED" THEN UNCHANGED <<entries, counter>>
          ELSE AuditLog(c, logged)
      BY <2>1 DEF Execute
    <3> HIDE DEF logged
    <3>3. CASE logged = "CONFIRMATION_REQUIRED"
      BY <3>2, <3>3 DEF AuditInv, AuditExact
    <3>4. CASE logged # "CONFIRMATION_REQUIRED"
      BY <3>1, <3>2, <3>4, LogKeeps
    <3> QED BY <3>3, <3>4
  <2>2. CASE Tick
    BY <2>2 DEF Tick, AuditInv, AuditExact
  <2>3. CASE UNCHANGED gatewayVars
    BY <2>3 DEF gatewayVars, AuditInv, AuditExact
  <2> QED BY <2>1, <2>2, <2>3 DEF GatewayNext
<1>3. AuditInv => AuditExact
  BY DEF AuditInv
<1> QED BY <1>1, <1>2, <1>3, PTL DEF GatewaySpec


-----------------------------------------------------------------------------
(* ExpiryTimers: the heap of the deadlines, for any databases, names,      *)
(* deadlines and size of a sweep.                                          *)

\* The argument: a sift starts at the one entry that may be out of order (Loose), and
\* every round of its loop leaves at most one, closer to an end of the heap; the loops
\* of the code are unfolded by RoundsExist. So each operation takes an ordered heap
\* that holds a table to an ordered heap that holds the table after it.

\* The parent of a position.
Half(j) == j \div 2

LEMMA Halves ==
  /\ \A j \in Nat : j >= 2 => Half(j) \in Nat /\ 1 <= Half(j) /\ Half(j) < j
  /\ \A i, j \in Nat : i >= 1 => (Half(j) = i <=> j = 2 * i \/ j = 2 * i + 1)
BY DEF Half

Node == [key : TimerKey, deadline : Nat]
Table == UNION {[K -> Nat] : K \in SUBSET TimerKey}
D(h, i) == h.heap[i].deadline

\* The heap and its index hold exactly the deadlines of table T.
Holds(h, T) ==
  /\ T \in Table
  /\ h = [heap |-> h.heap, indices |-> h.indices]
  /\ h.heap \in Seq(Node)
  /\ h.indices \in [DOMAIN T -> 1..Len(h.heap)]
  /\ \A k \in DOMAIN T : h.heap[h.indices[k]] = [key |-> k, deadline |-> T[k]]
  /\ \A i \in 1..Len(h.heap) :
       h.heap[i].key \in DOMAIN T /\ h.indices[h.heap[i].key] = i

\* Ordered: no entry is earlier than its parent. Loose: entry i alone may be out of
\* order, and its children are no earlier than its parent. Above: it can only be too
\* low, for its children are no earlier than it. Below: it can only be too high.
Ordered(h) == \A j \in 2..Len(h.heap) : D(h, Half(j)) <= D(h, j)
Loose(h, i) ==
  /\ \A j \in 2..Len(h.heap) : j # i /\ Half(j) # i => D(h, Half(j)) <= D(h, j)
  /\ \A j \in 2..Len(h.heap) : Half(j) = i /\ i > 1 => D(h, Half(i)) <= D(h, j)
Above(h, i) ==
  Loose(h, i) /\ \A j \in 2..Len(h.heap) : Half(j) = i => D(h, i) <= D(h, j)
Below(h, i) == Loose(h, i) /\ (i > 1 => D(h, Half(i)) <= D(h, i))

LEMMA Entries ==
  ASSUME NEW T, NEW h, Holds(h, T)
  PROVE  /\ Len(h.heap) \in Nat /\ DOMAIN h.heap = 1..Len(h.heap)
         /\ \A i \in 1..Len(h.heap) : h.heap[i] \in Node /\ D(h, i) \in Nat /\ h.heap[i].key \in DOMAIN T
<1>1. h.heap \in Seq(Node) /\ \A i \in 1..Len(h.heap) : h.heap[i].key \in DOMAIN T
  BY DEF Holds
<1>2. Len(h.heap) \in Nat /\ DOMAIN h.heap = 1..Len(h.heap)
      /\ \A i \in 1..Len(h.heap) : h.heap[i] \in Node
  BY <1>1
<1>3. \A e \in Node : e.deadline \in Nat
  BY DEF Node
<1> QED
  BY <1>1, <1>2, <1>3 DEF D

\* A swap exchanges two entries and leaves the rest,
LEMMA SwapEntries ==
  ASSUME NEW T, NEW h, Holds(h, T), NEW i \in 1..Len(h.heap), NEW j \in 1..Len(h.heap)
  PROVE  LET x == Swap(h, i, j)
         IN  /\ x.heap \in Seq(Node) /\ Len(x.heap) = Len(h.heap)
             /\ \A p \in 1..Len(h.heap) :
                  x.heap[p] = IF p = j THEN h.heap[i] ELSE IF p = i THEN h.heap[j] ELSE h.heap[p]
<1> DEFINE a == h.heap
           y == [a EXCEPT ![i] = a[j], ![j] = a[i]]
<1>1. /\ a \in Seq(Node) /\ a[i] \in Node /\ a[j] \in Node
      /\ i \in 1..Len(a) /\ j \in 1..Len(a)
  BY Entries DEF Holds
<1> HIDE DEF a
<1>2. y \in Seq(Node) /\ Len(y) = Len(a)
  <2> DEFINE z == [a EXCEPT ![i] = a[j]]
  <2>1. z \in Seq(Node) /\ Len(z) = Len(a)
    BY <1>1
  <2>2. y = [z EXCEPT ![j] = a[i]]
    OBVIOUS
  <2> HIDE DEF z
  <2> QED
    BY <1>1, <2>1, <2>2
<1>3. \A p \in 1..Len(a) : y[p] = IF p = j THEN a[i] ELSE IF p = i THEN a[j] ELSE a[p]
  BY <1>1
<1>4. Swap(h, i, j).heap = y
  BY DEF Swap, a
<1> QED
  BY <1>2, <1>3, <1>4 DEF a

\* and the index follows it.
LEMMA SwapHolds ==
  ASSUME NEW T, NEW h, Holds(h, T), NEW i \in 1..Len(h.heap), NEW j \in 1..Len(h.heap)
  PROVE  Holds(Swap(h, i, j), T)
<1> DEFINE x == Swap(h, i, j)
           a == h.heap
           ki == a[i].key
           kj == a[j].key
<1>1. /\ x.heap \in Seq(Node) /\ Len(x.heap) = Len(a)
      /\ \A p \in 1..Len(a) : x.heap[p] = IF p = j THEN a[i] ELSE IF p = i THEN a[j] ELSE a[p]
  BY SwapEntries
<1>2. ki \in DOMAIN T /\ kj \in DOMAIN T /\ h.indices[ki] = i /\ h.indices[kj] = j
  BY DEF Holds
<1>3. x.indices = [h.indices EXCEPT ![kj] = i, ![ki] = j]
  BY DEF Swap
<1>4. h.indices \in [DOMAIN T -> 1..Len(a)]
  BY DEF Holds
<1>5. x = [heap |-> x.heap, indices |-> x.indices]
  BY DEF Swap
<1>6. /\ x.indices \in [DOMAIN T -> 1..Len(a)]
      /\ \A k \in DOMAIN T : x.indices[k] = IF k = ki THEN j ELSE IF k = kj THEN i ELSE h.indices[k]
  BY <1>2, <1>3, <1>4
<1> HIDE DEF x
<1>7. ASSUME NEW k \in DOMAIN T PROVE x.heap[x.indices[k]] = [key |-> k, deadline |-> T[k]]
  <2>1. h.indices[k] \in 1..Len(a) /\ a[h.indices[k]] = [key |-> k, deadline |-> T[k]]
    BY DEF Holds
  <2>2. k # ki => h.indices[k] # i
    BY <2>1
  <2>3. k # kj => h.indices[k] # j
    BY <2>1
  <2> QED
    <3>1. CASE k = ki
      BY <1>1, <1>2, <1>6, <2>1, <3>1
    <3>2. CASE k # ki /\ k = kj
      BY <1>1, <1>2, <1>6, <2>1, <2>2, <3>2
    <3>3. CASE k # ki /\ k # kj
      BY <1>1, <1>6, <2>1, <2>2, <2>3, <3>3
    <3> QED
      BY <3>1, <3>2, <3>3
<1>8. ASSUME NEW p \in 1..Len(a)
      PROVE  x.heap[p].key \in DOMAIN T /\ x.indices[x.heap[p].key] = p
  <2>1. a[p].key \in DOMAIN T /\ h.indices[a[p].key] = p
    BY DEF Holds
  <2> QED
    <3>1. CASE p = j
      BY <1>1, <1>2, <1>6, <3>1
    <3>2. CASE p # j /\ p = i
      BY <1>1, <1>2, <1>6, <3>2
    <3>3. CASE p # j /\ p # i
      BY <1>1, <1>2, <1>6, <2>1, <3>3
    <3> QED
      BY <3>1, <3>2, <3>3
<1> QED
  BY <1>1, <1>5, <1>6, <1>7, <1>8 DEF Holds, x

\* In an ordered heap every entry may be called the one to look at,
LEMMA OrderedAbove ==
  ASSUME NEW T, NEW h, Holds(h, T), Ordered(h), NEW i \in 1..Len(h.heap)
  PROVE  Above(h, i) /\ Below(h, i)
<1>1. Len(h.heap) \in Nat /\ \A p \in 1..Len(h.heap) : D(h, p) \in Nat
  BY Entries
<1>2. i > 1 => i \in 2..Len(h.heap) /\ Half(i) \in 1..Len(h.heap)
  BY <1>1, Halves
<1>3. \A j \in 2..Len(h.heap) : j \in 1..Len(h.heap)
  OBVIOUS
<1>4. \A x, y, z \in Nat : x <= y /\ y <= z => x <= z
  OBVIOUS
<1> HIDE DEF Half
<1> QED
  BY <1>1, <1>2, <1>3, <1>4 DEF Ordered, Above, Below, Loose

\* One round upwards.
LEMMA UpStep ==
  ASSUME NEW T, NEW h, Holds(h, T), NEW i \in 1..Len(h.heap), Above(h, i),
         NEW s, s = [h |-> h, at |-> i]
  PROVE  \/ Up(s) = s /\ Ordered(h)
         \/ /\ i > 1 /\ Half(i) \in 1..Len(h.heap)
            /\ Up(s) = [h |-> Swap(h, i, Half(i)), at |-> Half(i)]
            /\ Holds(Swap(h, i, Half(i)), T) /\ Above(Swap(h, i, Half(i)), Half(i))
            /\ Len(Swap(h, i, Half(i)).heap) = Len(h.heap)
<1> DEFINE Size == Len(h.heap)
           q == Half(i)
           x == Swap(h, i, q)
<1>1. Size \in Nat /\ \A p \in 1..Size : D(h, p) \in Nat
  BY Entries
<1>2. i > 1 => q \in 1..Size /\ q < i /\ i \in 2..Size
  BY <1>1, Halves
<1>3. CASE ~(i > 1 /\ D(h, i) < D(h, q))
  <2>1. Up(s) = s
    BY <1>3 DEF Up, Later, Half, D
  <2>2. ASSUME NEW j \in 2..Size PROVE D(h, Half(j)) <= D(h, j)
    <3>1. CASE j = i
      BY <1>1, <1>2, <1>3, <3>1
    <3>2. CASE j # i
      BY <3>2 DEF Above, Loose
    <3> QED
      BY <3>1, <3>2
  <2> QED
    BY <2>1, <2>2 DEF Ordered
<1>4. CASE i > 1 /\ D(h, i) < D(h, q)
  <2>1. Up(s) = [h |-> x, at |-> q]
    BY <1>4 DEF Up, Later, Half, D
  <2>2. Holds(x, T) /\ Len(x.heap) = Size
    BY <1>2, <1>4, SwapHolds, SwapEntries
  <2>3. \A p \in 1..Size : D(x, p) = IF p = q THEN D(h, i) ELSE IF p = i THEN D(h, q) ELSE D(h, p)
    BY <1>2, <1>4, SwapEntries DEF D
  <2>4. \A j \in 2..Size : j \in 1..Size /\ Half(j) \in 1..Size /\ Half(j) # j
    BY <1>1, Halves
  <2>5. q > 1 => q \in 2..Size /\ Half(q) \in 1..Size /\ Half(q) < q
    BY <1>1, <1>2, <1>4, Halves
  <2> HIDE DEF x
  <2>6. ASSUME NEW j \in 2..Size, j # q, Half(j) # q PROVE D(x, Half(j)) <= D(x, j)
    <3>1. j # i
      BY <2>6
    <3>2. CASE Half(j) = i
      BY <1>2, <1>4, <2>3, <2>4, <2>6, <3>1, <3>2 DEF Above, Loose
    <3>3. CASE Half(j) # i
      BY <1>2, <1>4, <2>3, <2>4, <2>6, <3>1, <3>3 DEF Above, Loose
    <3> QED
      BY <3>2, <3>3
  <2>7. ASSUME NEW j \in 2..Size, Half(j) = q
        PROVE  (q > 1 => D(x, Half(q)) <= D(x, j)) /\ D(x, q) <= D(x, j)
    <3>1. q > 1 => D(h, Half(q)) <= D(h, q)
      <4>1. q > 1 => Half(q) # i /\ q # i
        BY <1>2, <1>4, <2>5
      <4> QED
        BY <2>5, <4>1 DEF Above, Loose
    <3>2. q > 1 => D(x, Half(q)) = D(h, Half(q)) /\ D(h, Half(q)) \in Nat
      BY <1>1, <1>2, <1>4, <2>3, <2>5
    <3>3. D(x, q) = D(h, i) /\ D(h, i) \in Nat /\ D(h, q) \in Nat
      BY <1>1, <1>2, <1>4, <2>3
    <3>4. CASE j = i
      <4>1. D(x, j) = D(h, q)
        BY <1>2, <1>4, <2>3, <3>4
      <4> QED
        BY <1>4, <3>1, <3>2, <3>3, <4>1
    <3>5. CASE j # i
      <4>1. D(h, q) <= D(h, j)
        BY <1>2, <1>4, <2>7, <3>5 DEF Above, Loose
      <4>2. D(x, j) = D(h, j) /\ D(h, j) \in Nat
        BY <1>1, <2>3, <2>4, <2>7, <3>5
      <4> QED
        BY <1>4, <3>1, <3>2, <3>3, <4>1, <4>2
    <3> QED
      BY <3>4, <3>5
  <2>8. Above(x, q)
    BY <2>2, <2>6, <2>7 DEF Above, Loose
  <2> QED
    BY <1>2, <1>4, <2>1, <2>2, <2>8 DEF x
<1> QED
  BY <1>3, <1>4

\* A loop of at most N rounds, g[n] being what round n does to a state of S.
Rounds(f, g, b, N) == f = [n \in 0..N |-> IF n = 0 THEN b ELSE g[n][f[n - 1]]]

\* There is such a loop, whatever its rounds do within S.
LEMMA RoundsExist ==
  ASSUME NEW S, NEW N \in Nat, NEW g \in [1..N -> [S -> S]], NEW b \in S
  PROVE  \E f : Rounds(f, g, b, N) /\ \A n \in 0..N : f[n] \in S
<1> DEFINE P == {n \in Nat : n <= N => \E f : Rounds(f, g, b, n) /\ \A m \in 0..n : f[m] \in S}
<1>1. 0 \in P
  <2>1. Rounds([i \in 0..0 |-> b], g, b, 0)
    BY DEF Rounds
  <2> QED
    BY <2>1
<1>2. ASSUME NEW n \in Nat, n \in P PROVE n + 1 \in P
  <2> SUFFICES ASSUME n + 1 <= N 
                 PROVE  \E f : Rounds(f, g, b, n + 1) /\ \A m \in 0..(n + 1) : f[m] \in S
    OBVIOUS
  <2>1. PICK f : Rounds(f, g, b, n) /\ \A m \in 0..n : f[m] \in S
    BY <1>2
  <2> DEFINE r == [i \in 0..(n + 1) |-> IF i = n + 1 THEN g[n + 1][f[n]] ELSE f[i]]
  <2>2. ASSUME NEW i \in 0..(n + 1)
        PROVE  r[i] = IF i = 0 THEN b ELSE g[i][r[i - 1]]
    <3>1. CASE i = n + 1
      <4>1. i # 0 /\ i - 1 = n /\ n \in 0..(n + 1) /\ n # n + 1
        BY <3>1
      <4>2. r[n] = f[n] /\ r[i] = g[n + 1][f[n]]
        BY <3>1, <4>1
      <4> HIDE DEF r
      <4> QED
        BY <3>1, <4>1, <4>2
    <3>2. CASE i # n + 1
      <4>1. i \in 0..n
        BY <3>2
      <4>2. f[i] = IF i = 0 THEN b ELSE g[i][f[i - 1]]
        BY <2>1, <4>1 DEF Rounds
      <4>3. i # 0 => i - 1 \in 0..(n + 1) /\ i - 1 # n + 1
        BY <4>1
      <4>4. r[i] = f[i] /\ (i # 0 => r[i - 1] = f[i - 1])
        BY <3>2, <4>3
      <4> HIDE DEF r
      <4> QED
        BY <4>2, <4>4
    <3> QED
      BY <3>1, <3>2
  <2>3. r = [i \in 0..(n + 1) |-> r[i]] /\ r[n + 1] = g[n + 1][f[n]]
    OBVIOUS
  <2>4. n + 1 \in 1..N
    OBVIOUS
  <2>7. \A m \in 0..n : r[m] = f[m]
    OBVIOUS
  <2> HIDE DEF r
  <2>5. Rounds(r, g, b, n + 1)
    BY <2>2, <2>3 DEF Rounds
  <2>6. r[n + 1] \in S
    <3>1. f[n] \in S /\ g[n + 1] \in [S -> S]
      BY <2>1, <2>4
    <3> QED
      BY <2>3, <3>1
  <2>8. ASSUME NEW m \in 0..(n + 1) PROVE r[m] \in S
    <3>1. CASE m = n + 1
      BY <2>6, <3>1
    <3>2. CASE m # n + 1
      <4>1. m \in 0..n
        BY <3>2
      <4> QED
        BY <2>1, <2>7, <4>1
    <3> QED
      BY <3>1, <3>2
  <2> QED
    BY <2>5, <2>8
<1> HIDE DEF P
<1>3. N \in P
  BY <1>1, <1>2, Induction
<1> QED
  BY <1>3 DEF P

\* The loop upwards ends with an ordered heap.
LEMMA SiftUpSorts ==
  ASSUME NEW T, NEW h, Holds(h, T), NEW i \in 1..Len(h.heap), Above(h, i)
  PROVE  Holds(SiftUp(h, i), T) /\ Ordered(SiftUp(h, i))
<1> DEFINE Size == Len(h.heap)
           S == {s \in [h : [heap : Seq(Node), indices : [DOMAIN T -> 1..Size]], at : 1..Size] :
                   Holds(s.h, T) /\ Len(s.h.heap) = Size /\ Above(s.h, s.at)}
           b == [h |-> h, at |-> i]
           g == [n \in 1..i |-> [s \in S |-> Up(s)]]
           IsLoop(f) == f = [n \in 0..i |-> IF n = 0 THEN b ELSE Up(f[n - 1])]
           f == CHOOSE f : IsLoop(f)
<1>1. Size \in Nat /\ i \in Nat
  BY Entries
<1>2. \A x, p : Holds(x, T) /\ Len(x.heap) = Size /\ Above(x, p) /\ p \in 1..Size => [h |-> x, at |-> p] \in S
  BY DEF Holds
<1>3. ASSUME NEW s \in S
      PROVE  Up(s) \in S /\ ((Up(s) = s /\ Ordered(s.h)) \/ Up(s).at < s.at)
  <2>1. /\ Holds(s.h, T) /\ Len(s.h.heap) = Size /\ Above(s.h, s.at) /\ s.at \in 1..Size
        /\ s = [h |-> s.h, at |-> s.at]
    OBVIOUS
  <2> HIDE DEF S
  <2>2. CASE Up(s) = s /\ Ordered(s.h)
    BY <2>2
  <2>3. CASE ~(Up(s) = s /\ Ordered(s.h))
    <3>1. /\ s.at > 1 /\ Half(s.at) \in 1..Size
          /\ Up(s) = [h |-> Swap(s.h, s.at, Half(s.at)), at |-> Half(s.at)]
          /\ Holds(Swap(s.h, s.at, Half(s.at)), T) /\ Above(Swap(s.h, s.at, Half(s.at)), Half(s.at))
          /\ Len(Swap(s.h, s.at, Half(s.at)).heap) = Size
      BY <2>1, <2>3, UpStep
    <3>2. Half(s.at) < s.at
      BY <1>1, <2>1, <3>1, Halves
    <3> QED
      BY <1>2, <3>1, <3>2
  <2> QED
    BY <2>2, <2>3
<1>4. b \in S
  BY <1>1, <1>2
<1> HIDE DEF S
<1>5. g \in [1..i -> [S -> S]]
  BY <1>3
<1>6. PICK r : Rounds(r, g, b, i) /\ \A n \in 0..i : r[n] \in S
  BY <1>1, <1>4, <1>5, RoundsExist
<1>7. \A n \in 1..i, s \in S : g[n][s] = Up(s)
  OBVIOUS
<1> HIDE DEF g
<1>9. IsLoop(r)
  <2>1. ASSUME NEW n \in 0..i PROVE r[n] = IF n = 0 THEN b ELSE Up(r[n - 1])
    <3>1. n # 0 => n \in 1..i /\ n - 1 \in 0..i
      BY <1>1
    <3>2. r[n] = IF n = 0 THEN b ELSE g[n][r[n - 1]]
      BY <1>6 DEF Rounds
    <3> QED
      BY <1>6, <1>7, <3>1, <3>2
  <2>2. r = [n \in 0..i |-> r[n]]
    BY <1>6 DEF Rounds
  <2> QED
    BY <2>1, <2>2
<1>10. IsLoop(f) /\ SiftUp(h, i) = f[i].h
  BY <1>9 DEF SiftUp
<1> HIDE DEF f, b
<1>11. \A n \in 0..i : f[n] \in S /\ (Ordered(f[n].h) \/ f[n].at <= i - n)
  <2> DEFINE P == {n \in Nat : n <= i => f[n] \in S /\ (Ordered(f[n].h) \/ f[n].at <= i - n)}
  <2>1. 0 \in P
    <3>1. f[0] = b /\ b.at = i
      BY <1>1, <1>10 DEF b
    <3> QED
      BY <1>1, <1>4, <3>1
  <2>2. ASSUME NEW n \in Nat, n \in P PROVE n + 1 \in P
    <3> SUFFICES ASSUME n + 1 <= i
                 PROVE  f[n + 1] \in S /\ (Ordered(f[n + 1].h) \/ f[n + 1].at <= i - (n + 1))
      OBVIOUS
    <3>1. n + 1 \in 0..i /\ n + 1 # 0 /\ (n + 1) - 1 = n /\ n <= i
      BY <1>1
    <3>2. f[n + 1] = Up(f[n])
      BY <1>10, <3>1
    <3>3. f[n] \in S /\ (Ordered(f[n].h) \/ f[n].at <= i - n)
      BY <2>2, <3>1
    <3>4. f[n].at \in 1..Size /\ f[n + 1] \in S /\ f[n + 1].at \in 1..Size
      BY <1>3, <3>2, <3>3 DEF S
    <3>5. CASE Ordered(f[n].h)
      <4>1. Up(f[n]) = f[n]
        <5>1. Above(f[n].h, f[n].at) /\ Holds(f[n].h, T) /\ Len(f[n].h.heap) = Size
          BY <3>3 DEF S
        <5>2. Len(f[n].h.heap) \in Nat /\ \A p \in 1..Size : D(f[n].h, p) \in Nat
          BY <5>1, Entries
        <5>3. f[n].at > 1 => /\ f[n].at \in 2..Size /\ Half(f[n].at) \in 1..Size
                             /\ D(f[n].h, Half(f[n].at)) <= D(f[n].h, f[n].at)
          BY <1>1, <3>4, <3>5, <5>1, Halves DEF Ordered
        <5>4. ~(f[n].at > 1 /\ D(f[n].h, f[n].at) < D(f[n].h, Half(f[n].at)))
          <6>1. D(f[n].h, f[n].at) \in Nat
            BY <3>4, <5>2
          <6>2. f[n].at > 1 => /\ D(f[n].h, Half(f[n].at)) \in Nat
                               /\ D(f[n].h, Half(f[n].at)) <= D(f[n].h, f[n].at)
            BY <5>2, <5>3
          <6> QED
            BY ONLY <6>1, <6>2
        <5> QED
          BY <5>4 DEF Up, Later, D, Half
      <4> QED
        BY <3>2, <3>3, <3>5, <4>1
    <3>6. CASE ~Ordered(f[n].h)
      <4>1. f[n + 1].at < f[n].at
        BY <1>3, <3>2, <3>3, <3>6
      <4> QED
        BY <1>1, <3>3, <3>4, <3>6, <4>1
    <3> QED
      BY <3>5, <3>6
  <2> HIDE DEF P
  <2>3. Nat \subseteq P
    BY <2>1, <2>2, Induction
  <2> QED
    BY <1>1, <2>3 DEF P
<1>12. f[i] \in S /\ (Ordered(f[i].h) \/ f[i].at <= i - i)
  BY <1>1, <1>11
<1>13. f[i].at >= 1 /\ f[i].at \in Nat /\ Holds(f[i].h, T)
  BY <1>1, <1>12 DEF S
<1>14. Ordered(f[i].h)
  BY <1>1, <1>12, <1>13
<1> QED
  BY <1>10, <1>13, <1>14

\* and a heap is ordered when that entry is neither too low nor too high.
LEMMA AboveBelow ==
  ASSUME NEW h, NEW i \in Nat, Above(h, i), Below(h, i), Len(h.heap) \in Nat
  PROVE  Ordered(h)
<1> SUFFICES ASSUME NEW j \in 2..Len(h.heap) PROVE D(h, Half(j)) <= D(h, j)
  BY DEF Ordered
<1>1. CASE j = i
  BY <1>1 DEF Below
<1>2. CASE j # i
  BY <1>2 DEF Above, Loose
<1> QED
  BY <1>1, <1>2

\* One round downwards.
LEMMA DownStep ==
  ASSUME NEW T, NEW h, Holds(h, T), NEW i \in 1..Len(h.heap), Loose(h, i),
         NEW s, s = [h |-> h, at |-> i]
  PROVE  \/ Children(h, i) = {} /\ Down(s) = s /\ Above(h, i)
         \/ \E c \in 1..Len(h.heap) :
              /\ i < c /\ Down(s) = [h |-> Swap(h, i, c), at |-> c]
              /\ Holds(Swap(h, i, c), T) /\ Below(Swap(h, i, c), c)
              /\ Len(Swap(h, i, c).heap) = Len(h.heap)
<1> DEFINE Size == Len(h.heap)
           C == Children(h, i)
           c == Smallest(h, C)
           x == Swap(h, i, c)
<1>1. Size \in Nat /\ (\A p \in 1..Size : D(h, p) \in Nat) /\ DOMAIN h.heap = 1..Size
  BY Entries
<1>2. \A o : o \in C <=> o \in {2 * i, 2 * i + 1} /\ o \in 1..Size /\ D(h, o) < D(h, i)
  BY <1>1 DEF Children, Later, D
<1>3. \A j \in 2..Size : /\ j \in 1..Size /\ Half(j) \in 1..Size /\ Half(j) # j
                         /\ (Half(j) = i <=> j \in {2 * i, 2 * i + 1})
  <2> TAKE j \in 2..Size
  <2>1. j \in Nat /\ j >= 2 /\ j <= Size /\ j \in 1..Size /\ i \in Nat /\ i >= 1
    BY <1>1
  <2>2. Half(j) \in Nat /\ 1 <= Half(j) /\ Half(j) < j
    BY <2>1, Halves
  <2>3. Half(j) = i <=> j = 2 * i \/ j = 2 * i + 1
    BY <2>1, Halves
  <2>4. Half(j) \in 1..Size
    BY <1>1, <2>1, <2>2
  <2> QED
    BY <2>1, <2>2, <2>3, <2>4
<1>4. CASE C = {}
  <2>1. Down(s) = s
    BY <1>4 DEF Down
  <2>2. ASSUME NEW j \in 2..Size, Half(j) = i PROVE D(h, i) <= D(h, j)
    BY <1>1, <1>2, <1>3, <1>4, <2>2
  <2> QED
    BY <1>4, <2>1, <2>2 DEF Above
<1>5. CASE C # {}
  <2>1. Down(s) = [h |-> x, at |-> c]
    BY <1>5 DEF Down
  <2>2. c \in C /\ \A o \in C : D(h, c) <= D(h, o)
    <3> DEFINE Best(e) == e \in C /\ \A o \in C : Later(h, o, e) \/ (~Later(h, e, o) /\ e <= o)
    <3>1. \E e : Best(e)
      <4>1. CASE C = {2 * i}
        BY <1>1, <1>2, <4>1 DEF Later, D
      <4>2. CASE C = {2 * i + 1}
        BY <1>1, <1>2, <4>2 DEF Later, D
      <4>3. CASE C = {2 * i, 2 * i + 1}
        <5>1. D(h, 2 * i) \in Nat /\ D(h, 2 * i + 1) \in Nat
          BY <1>1, <1>2, <4>3
        <5>2. CASE D(h, 2 * i + 1) < D(h, 2 * i)
          <6>1. Best(2 * i + 1)
            BY <4>3, <5>1, <5>2 DEF Later, D
          <6> QED
            BY <6>1
        <5>3. CASE ~(D(h, 2 * i + 1) < D(h, 2 * i))
          <6>1. Best(2 * i)
            BY <4>3, <5>1, <5>3 DEF Later, D
          <6> QED
            BY <6>1
        <5> QED
          BY <5>2, <5>3
      <4>4. C \subseteq {2 * i, 2 * i + 1}
        BY <1>2
      <4> HIDE DEF C, Best
      <4> QED
        BY <1>5, <4>1, <4>2, <4>3, <4>4
    <3>2. Best(c)
      <4>1. c = CHOOSE e \in C : \A o \in C : Later(h, o, e) \/ (~Later(h, e, o) /\ e <= o)
        BY DEF Smallest
      <4> HIDE DEF C, c
      <4> QED
        BY <3>1, <4>1
    <3> HIDE DEF c
    <3>3. ASSUME NEW o \in C PROVE D(h, c) <= D(h, o)
      <4>1. D(h, c) \in Nat /\ D(h, o) \in Nat
        BY <1>1, <1>2, <3>2
      <4>2. D(h, o) > D(h, c) \/ ~(D(h, o) < D(h, c))
        BY <3>2 DEF Later, D
      <4> QED
        BY <4>1, <4>2
    <3> QED
      BY <3>2, <3>3
  <2> HIDE DEF c, C
  <2>3. /\ c \in 2..Size /\ c \in 1..Size /\ i < c /\ Half(c) = i
        /\ D(h, c) < D(h, i) /\ D(h, c) \in Nat /\ D(h, i) \in Nat
    <3>1. (c = 2 * i \/ c = 2 * i + 1) /\ c \in 1..Size /\ D(h, c) < D(h, i)
      BY <1>2, <2>2
    <3>2. i \in 1..Size /\ i \in Nat /\ i >= 1
      BY <1>1
    <3>3. D(h, c) \in Nat /\ D(h, i) \in Nat
      BY <1>1, <3>1, <3>2
    <3> HIDE DEF Size
    <3>4. c \in 2..Size /\ i < c
      BY <1>1, <3>1, <3>2
    <3>5. Half(c) = i
      BY <1>3, <3>1, <3>4
    <3> QED
      BY <3>1, <3>3, <3>4, <3>5
  <2>4. Holds(x, T) /\ Len(x.heap) = Size
    BY <2>3, SwapHolds, SwapEntries
  <2>5. \A p \in 1..Size : D(x, p) = IF p = c THEN D(h, i) ELSE IF p = i THEN D(h, c) ELSE D(h, p)
    BY <2>3, SwapEntries DEF D
  <2> HIDE DEF x
  <2>6. ASSUME NEW j \in 2..Size, Half(j) = i PROVE D(h, c) <= D(h, j)
    <3>1. CASE j \in C
      BY <2>2, <3>1
    <3>2. CASE j \notin C
      <4>1. D(h, j) \in Nat /\ ~(D(h, j) < D(h, i))
        BY <1>1, <1>2, <1>3, <2>6, <3>2
      <4> QED
        BY <2>3, <4>1
    <3> QED
      BY <3>1, <3>2
  <2>7. ASSUME NEW j \in 2..Size, j # c, Half(j) # c PROVE D(x, Half(j)) <= D(x, j)
    <3>1. CASE j = i
      <4>1. D(h, Half(i)) <= D(h, c)
        BY <2>3, <2>7, <3>1 DEF Loose
      <4> QED
        BY <1>3, <2>3, <2>5, <2>7, <3>1, <4>1
    <3>2. CASE j # i /\ Half(j) = i
      BY <1>3, <2>3, <2>5, <2>6, <2>7, <3>2
    <3>3. CASE j # i /\ Half(j) # i
      BY <1>3, <2>3, <2>5, <2>7, <3>3 DEF Loose
    <3> QED
      BY <3>1, <3>2, <3>3
  <2>8. ASSUME NEW j \in 2..Size, Half(j) = c PROVE D(x, Half(c)) <= D(x, j)
    <3>1. j # i /\ j # c
      BY <1>1, <1>3, <2>3, <2>8, Halves
    <3>2. D(h, c) <= D(h, j)
      BY <2>3, <2>8, <3>1 DEF Loose
    <3> QED
      BY <1>3, <2>3, <2>5, <3>1, <3>2
  <2>9. D(x, Half(c)) <= D(x, c)
    BY <2>3, <2>5
  <2>10. Below(x, c)
    BY <2>3, <2>4, <2>7, <2>8, <2>9 DEF Below, Loose
  <2> QED
    BY <2>1, <2>3, <2>4, <2>10 DEF x
<1> QED
  BY <1>4, <1>5

\* The loop downwards ends with an ordered heap if it began below an earlier
\* parent, and else with at most one entry that has still to rise, where it began.
LEMMA SiftDownSorts ==
  ASSUME NEW T, NEW h, Holds(h, T), NEW i \in 1..Len(h.heap), Loose(h, i)
  PROVE  /\ Holds(SiftDown(h, i), T) /\ Len(SiftDown(h, i).heap) = Len(h.heap)
         /\ Above(SiftDown(h, i), i)
         /\ Below(h, i) => Ordered(SiftDown(h, i))
<1> DEFINE Size == Len(h.heap)
           b == [h |-> h, at |-> i]
           S == {s \in [h : [heap : Seq(Node), indices : [DOMAIN T -> 1..Size]], at : 1..Size] :
                   /\ Holds(s.h, T) /\ Len(s.h.heap) = Size /\ Loose(s.h, s.at)
                   /\ Below(s.h, s.at) \/ s = b}
           g == [n \in 1..Size |-> [s \in S |-> Down(s)]]
           IsLoop(f) == f = [n \in 0..Size |-> IF n = 0 THEN b ELSE Down(f[n - 1])]
           f == CHOOSE f : IsLoop(f)
<1>1. Size \in Nat /\ i \in Nat
  BY Entries
<1>2. \A x, p : /\ Holds(x, T) /\ Len(x.heap) = Size /\ Loose(x, p) /\ p \in 1..Size
                /\ Below(x, p) \/ [h |-> x, at |-> p] = b
        => [h |-> x, at |-> p] \in S
  <2> SUFFICES ASSUME NEW x, NEW p, Holds(x, T), Len(x.heap) = Size, Loose(x, p), p \in 1..Size,
                      Below(x, p) \/ [h |-> x, at |-> p] = b
               PROVE  [h |-> x, at |-> p] \in S
    OBVIOUS
  <2>1. /\ x = [heap |-> x.heap, indices |-> x.indices]
        /\ x.heap \in Seq(Node) /\ x.indices \in [DOMAIN T -> 1..Size]
    BY DEF Holds
  <2>2. x \in [heap : Seq(Node), indices : [DOMAIN T -> 1..Size]]
    <3> HIDE DEF Size
    <3> QED
      BY ONLY <2>1
  <2> HIDE DEF b, Size
  <2> QED
    BY <2>2
<1>3. ASSUME NEW s \in S
      PROVE  /\ Down(s) \in S
             /\ \/ Children(s.h, s.at) = {} /\ Down(s) = s /\ Above(s.h, s.at)
                \/ s.at < Down(s).at
  <2>1. /\ Holds(s.h, T) /\ Len(s.h.heap) = Size /\ Loose(s.h, s.at) /\ s.at \in 1..Size
        /\ s = [h |-> s.h, at |-> s.at]
    OBVIOUS
  <2> HIDE DEF S, b
  <2>2. CASE Children(s.h, s.at) = {} /\ Down(s) = s /\ Above(s.h, s.at)
    BY <2>2
  <2>3. CASE ~(Children(s.h, s.at) = {} /\ Down(s) = s /\ Above(s.h, s.at))
    <3>1. PICK c \in 1..Size :
              /\ s.at < c /\ Down(s) = [h |-> Swap(s.h, s.at, c), at |-> c]
              /\ Holds(Swap(s.h, s.at, c), T) /\ Below(Swap(s.h, s.at, c), c)
              /\ Len(Swap(s.h, s.at, c).heap) = Size
      BY <2>1, <2>3, DownStep
    <3>2. Loose(Swap(s.h, s.at, c), c)
      BY <3>1 DEF Below
    <3> QED
      BY <1>2, <3>1, <3>2
  <2> QED
    BY <2>2, <2>3
<1>4. b \in S
  BY <1>1, <1>2
<1> HIDE DEF S, b
<1>5. g \in [1..Size -> [S -> S]]
  BY <1>3
<1>6. PICK r : Rounds(r, g, b, Size) /\ \A n \in 0..Size : r[n] \in S
  BY <1>1, <1>4, <1>5, RoundsExist
<1>7. \A n \in 1..Size, s \in S : g[n][s] = Down(s)
  OBVIOUS
<1> HIDE DEF g
<1>9. IsLoop(r)
  <2>1. ASSUME NEW n \in 0..Size PROVE r[n] = IF n = 0 THEN b ELSE Down(r[n - 1])
    <3>1. n # 0 => n \in 1..Size /\ n - 1 \in 0..Size
      BY <1>1
    <3>2. r[n] = IF n = 0 THEN b ELSE g[n][r[n - 1]]
      BY <1>6 DEF Rounds
    <3> QED
      BY <1>6, <1>7, <3>1, <3>2
  <2>2. r = [n \in 0..Size |-> r[n]]
    BY <1>6 DEF Rounds
  <2> QED
    BY <2>1, <2>2
<1>10. IsLoop(f) /\ SiftDown(h, i) = f[Size].h
  BY <1>9 DEF SiftDown, b
<1> HIDE DEF f
<1>11. \A n \in 0..Size : f[n] \in S /\ (Children(f[n].h, f[n].at) = {} \/ f[n].at >= i + n)
  <2> DEFINE P == {n \in Nat : n <= Size => /\ f[n] \in S
                                            /\ Children(f[n].h, f[n].at) = {} \/ f[n].at >= i + n}
  <2>1. 0 \in P
    <3>1. f[0] = b /\ b.at = i
      BY <1>1, <1>10 DEF b
    <3> QED
      BY <1>1, <1>4, <3>1
  <2>2. ASSUME NEW n \in Nat, n \in P PROVE n + 1 \in P
    <3> SUFFICES ASSUME n + 1 <= Size
                 PROVE  /\ f[n + 1] \in S
                        /\ Children(f[n + 1].h, f[n + 1].at) = {} \/ f[n + 1].at >= i + (n + 1)
      OBVIOUS
    <3>1. n + 1 \in 0..Size /\ n + 1 # 0 /\ (n + 1) - 1 = n /\ n <= Size
      BY <1>1
    <3>2. f[n + 1] = Down(f[n])
      BY <1>10, <3>1
    <3>3. f[n] \in S /\ (Children(f[n].h, f[n].at) = {} \/ f[n].at >= i + n)
      BY <2>2, <3>1
    <3>4. f[n].at \in 1..Size /\ f[n + 1] \in S /\ f[n + 1].at \in 1..Size
      BY <1>3, <3>2, <3>3 DEF S
    <3>5. CASE Children(f[n].h, f[n].at) = {}
      <4>1. Down(f[n]) = f[n]
        BY <3>5 DEF Down
      <4> QED
        BY <3>2, <3>3, <3>5, <4>1
    <3>6. CASE Children(f[n].h, f[n].at) # {}
      <4>1. f[n].at < f[n + 1].at
        BY <1>3, <3>2, <3>3, <3>6
      <4> QED
        BY <1>1, <3>3, <3>4, <3>6, <4>1
    <3> QED
      BY <3>5, <3>6
  <2> HIDE DEF P
  <2>3. Nat \subseteq P
    BY <2>1, <2>2, Induction
  <2> TAKE n \in 0..Size
  <2>4. n \in Nat /\ n <= Size
    BY <1>1
  <2>5. n \in P
    BY <2>3, <2>4
  <2> QED
    BY <2>4, <2>5 DEF P
<1> DEFINE e == f[Size]
<1>12. e \in S /\ (Children(e.h, e.at) = {} \/ e.at >= i + Size)
  <2>1. Size \in 0..Size
    BY <1>1
  <2> HIDE DEF Size
  <2> QED
    BY <1>11, <2>1
<1> HIDE DEF e
<1>13. /\ e.at \in 1..Size /\ Holds(e.h, T) /\ Len(e.h.heap) = Size /\ Loose(e.h, e.at)
       /\ Below(e.h, e.at) \/ e = b
  BY <1>12 DEF S
<1>14. Children(e.h, e.at) = {}
  BY <1>1, <1>12, <1>13
<1>15. Above(e.h, e.at)
  <2>1. Down(e) = e
    BY <1>14 DEF Down
  <2>2. ~(e.at < Down(e).at)
    BY <1>1, <1>13, <2>1
  <2> QED
    BY <1>3, <1>12, <2>2
<1>16. Below(e.h, e.at) => Ordered(e.h)
  BY <1>1, <1>13, <1>15, AboveBelow
<1>17. Ordered(e.h) => Above(e.h, i)
  BY <1>13, OrderedAbove
<1>18. e = b => e.h = h /\ e.at = i
  BY DEF b
<1> QED
  BY <1>10, <1>13, <1>15, <1>16, <1>17, <1>18 DEF e

\* Tables with one key more, or with some keys fewer.
LEMMA WithTable ==
  ASSUME NEW T \in Table, NEW k \in TimerKey, NEW d \in Nat
  PROVE  /\ With(T, k, d) \in Table /\ DOMAIN With(T, k, d) = DOMAIN T \cup {k}
         /\ \A q \in DOMAIN T \cup {k} : With(T, k, d)[q] = IF q = k THEN d ELSE T[q]
<1>1. PICK Q \in SUBSET TimerKey : T \in [Q -> Nat]
  BY DEF Table
<1>2. With(T, k, d) \in [Q \cup {k} -> Nat] /\ Q \cup {k} \in SUBSET TimerKey
  BY <1>1 DEF With
<1>3. With(T, k, d) \in Table
  BY <1>2 DEF Table
<1> QED
  BY <1>3 DEF With

LEMMA WithoutTable ==
  ASSUME NEW T \in Table, NEW K
  PROVE  /\ Without(T, K) \in Table /\ DOMAIN Without(T, K) = DOMAIN T \ K
         /\ \A q \in DOMAIN T \ K : Without(T, K)[q] = T[q]
<1>1. PICK Q \in SUBSET TimerKey : T \in [Q -> Nat]
  BY DEF Table
<1>2. Without(T, K) \in [Q \ K -> Nat] /\ Q \ K \in SUBSET TimerKey
  BY <1>1 DEF Without
<1>3. Without(T, K) \in Table
  BY <1>2 DEF Table
<1> QED
  BY <1>3 DEF Without

\* A key gets another deadline, or its first.
LEMMA InsertSorts ==
  ASSUME NEW T, NEW h, Holds(h, T), Ordered(h), NEW k \in TimerKey, NEW d \in Nat
  PROVE  Holds(InsertOrUpdate(h, k, d), With(T, k, d)) /\ Ordered(InsertOrUpdate(h, k, d))
<1> DEFINE Size == Len(h.heap)
           W == With(T, k, d)
<1>0. T \in Table
  BY DEF Holds
<1>1. Size \in Nat /\ (\A p \in 1..Size : D(h, p) \in Nat) /\ DOMAIN h.heap = 1..Size /\ h.heap \in Seq(Node)
  BY Entries DEF Holds
<1>2. /\ W \in Table /\ DOMAIN W = DOMAIN T \cup {k}
      /\ \A q \in DOMAIN T \cup {k} : W[q] = IF q = k THEN d ELSE T[q]
  <2>1. T \in Table /\ k \in TimerKey /\ d \in Nat
    BY <1>0
  <2> QED
    BY ONLY <2>1, WithTable
<1>3. DOMAIN h.indices = DOMAIN T /\ h.indices \in [DOMAIN T -> 1..Size]
      /\ h = [heap |-> h.heap, indices |-> h.indices]
  BY DEF Holds
<1>4. [key |-> k, deadline |-> d] \in Node
  BY DEF Node
<1> HIDE DEF W
<1>5. CASE k \in DOMAIN h.indices
  <2> DEFINE i == h.indices[k]
             n == [h EXCEPT !.heap[i].deadline = d]
             a == [h.heap EXCEPT ![i] = [key |-> k, deadline |-> d]]
  <2>1. i \in 1..Size /\ h.heap[i] = [key |-> k, deadline |-> T[k]] /\ k \in DOMAIN T
    BY <1>3, <1>5 DEF Holds
  <2>2. n.heap = a /\ n.indices = h.indices /\ n = [heap |-> n.heap, indices |-> n.indices]
    <3>1. [h.heap[i] EXCEPT !.deadline = d] = [key |-> k, deadline |-> d]
      BY <2>1
    <3>2. n = [h EXCEPT !.heap = [h.heap EXCEPT ![i] = [h.heap[i] EXCEPT !.deadline = d]]]
      OBVIOUS
    <3>3. n = [h EXCEPT !.heap = a]
      BY <3>1, <3>2
    <3> HIDE DEF n, a
    <3> QED
      BY <1>3, <3>3
  <2>3. a \in Seq(Node) /\ Len(a) = Size
    BY <1>1, <1>4, <2>1
  <2>4. \A p \in 1..Size : a[p] = IF p = i THEN [key |-> k, deadline |-> d] ELSE h.heap[p]
    BY <1>1, <2>1
  <2>5. DOMAIN W = DOMAIN T
    BY <1>2, <2>1
  <2> HIDE DEF a
  <2>6. ASSUME NEW q \in DOMAIN T PROVE a[h.indices[q]] = [key |-> q, deadline |-> W[q]]
    <3>1. h.indices[q] \in 1..Size /\ h.heap[h.indices[q]] = [key |-> q, deadline |-> T[q]]
      BY DEF Holds
    <3>2. CASE q = k
      BY <1>2, <2>1, <2>4, <3>2
    <3>3. CASE q # k
      BY <1>2, <2>1, <2>4, <3>1, <3>3
    <3> QED
      BY <3>2, <3>3
  <2>7. ASSUME NEW p \in 1..Size PROVE a[p].key \in DOMAIN T /\ h.indices[a[p].key] = p
    <3>1. h.heap[p].key \in DOMAIN T /\ h.indices[h.heap[p].key] = p
      BY DEF Holds
    <3> QED
      BY <2>1, <2>4, <3>1
  <2> HIDE DEF n
  <2>8. Holds(n, W) /\ Len(n.heap) = Size
    BY <1>2, <1>3, <2>2, <2>3, <2>5, <2>6, <2>7 DEF Holds
  <2>9. \A p \in 1..Size : D(n, p) = IF p = i THEN d ELSE D(h, p)
    BY <2>2, <2>4 DEF D
  <2>10. \A j \in 2..Size : j \in 1..Size /\ Half(j) \in 1..Size /\ Half(j) # j
    BY <1>1, Halves
  <2>11. i > 1 => i \in 2..Size
    BY <1>1, <2>1
  <2>12. Loose(n, i)
    <3>1. ASSUME NEW j \in 2..Size, j # i, Half(j) # i PROVE D(n, Half(j)) <= D(n, j)
      BY <2>9, <2>10, <3>1 DEF Ordered
    <3>2. ASSUME NEW j \in 2..Size, Half(j) = i, i > 1 PROVE D(n, Half(i)) <= D(n, j)
      <4>1. D(h, Half(i)) <= D(h, i) /\ D(h, i) <= D(h, j)
        BY <2>11, <3>2 DEF Ordered
      <4>2. D(n, Half(i)) = D(h, Half(i)) /\ D(n, j) = D(h, j)
        BY <2>9, <2>10, <2>11, <3>2
      <4>3. D(h, Half(i)) \in Nat /\ D(h, i) \in Nat /\ D(h, j) \in Nat
        BY <1>1, <2>10, <2>11, <3>2
      <4> QED
        BY <4>1, <4>2, <4>3
    <3> QED
      BY <2>8, <3>1, <3>2 DEF Loose
  <2>13. D(h, i) = h.heap[i].deadline /\ D(h, i) \in Nat
    BY <1>1, <2>1 DEF D
  <2>14. CASE d < h.heap[i].deadline
    <3>1. ASSUME NEW j \in 2..Size, Half(j) = i PROVE D(n, i) <= D(n, j)
      BY <1>1, <2>1, <2>9, <2>10, <2>13, <2>14, <3>1 DEF Ordered
    <3>2. Above(n, i)
      BY <2>8, <2>12, <3>1 DEF Above
    <3>3. InsertOrUpdate(h, k, d) = SiftUp(n, i)
      BY <1>5, <2>14 DEF InsertOrUpdate, n
    <3> QED
      BY <2>1, <2>8, <3>2, <3>3, SiftUpSorts DEF W
  <2>15. CASE ~(d < h.heap[i].deadline)
    <3>1. i > 1 => D(n, Half(i)) <= D(n, i)
      BY <1>1, <2>1, <2>9, <2>10, <2>11, <2>13, <2>15 DEF Ordered
    <3>2. Below(n, i)
      BY <2>12, <3>1 DEF Below
    <3>3. InsertOrUpdate(h, k, d) = SiftDown(n, i)
      BY <1>5, <2>15 DEF InsertOrUpdate, n
    <3> QED
      BY <2>1, <2>8, <2>12, <3>2, <3>3, SiftDownSorts DEF W
  <2> QED
    BY <2>14, <2>15
<1>6. CASE k \notin DOMAIN h.indices
  <2> DEFINE e == [key |-> k, deadline |-> d]
             a == Append(h.heap, e)
             x == With(h.indices, k, Size + 1)
             n == [heap |-> a, indices |-> x]
  <2>1. InsertOrUpdate(h, k, d) = SiftUp(n, Size + 1)
    BY <1>6 DEF InsertOrUpdate
  <2>2. /\ a \in Seq(Node) /\ Len(a) = Size + 1
        /\ \A p \in 1..(Size + 1) : a[p] = IF p = Size + 1 THEN e ELSE h.heap[p]
    BY <1>1, <1>4, AppendProperties
  <2>3. k \notin DOMAIN T
    BY <1>3, <1>6
  <2>4. /\ x \in [DOMAIN W -> 1..(Size + 1)]
        /\ \A q \in DOMAIN W : x[q] = IF q = k THEN Size + 1 ELSE h.indices[q]
    BY <1>1, <1>2, <1>3 DEF With
  <2>5. n.heap = a /\ n.indices = x /\ n = [heap |-> n.heap, indices |-> n.indices]
    OBVIOUS
  <2> HIDE DEF a, x, n
  <2>6. ASSUME NEW q \in DOMAIN W PROVE a[x[q]] = [key |-> q, deadline |-> W[q]]
    <3>1. CASE q = k
      <4>1. Size + 1 \in 1..(Size + 1)
        BY <1>1
      <4> QED
        BY <1>2, <2>2, <2>4, <3>1, <4>1
    <3>2. CASE q # k
      <4>1. q \in DOMAIN T /\ x[q] = h.indices[q] /\ W[q] = T[q]
        BY <1>2, <2>4, <3>2
      <4>2. h.indices[q] \in 1..Size /\ h.heap[h.indices[q]] = [key |-> q, deadline |-> T[q]]
        BY <4>1 DEF Holds
      <4>3. h.indices[q] \in 1..(Size + 1) /\ h.indices[q] # Size + 1
        BY <1>1, <4>2
      <4> QED
        BY <2>2, <4>1, <4>2, <4>3
    <3> QED
      BY <3>1, <3>2
  <2>7. ASSUME NEW p \in 1..(Size + 1) PROVE a[p].key \in DOMAIN W /\ x[a[p].key] = p
    <3>1. CASE p = Size + 1
      BY <1>2, <2>2, <2>4, <3>1
    <3>2. CASE p # Size + 1
      <4>1. p \in 1..Size
        BY <1>1, <3>2
      <4>2. h.heap[p].key \in DOMAIN T /\ h.indices[h.heap[p].key] = p
        BY <4>1 DEF Holds
      <4> QED
        BY <1>2, <2>2, <2>3, <2>4, <3>2, <4>2
    <3> QED
      BY <3>1, <3>2
  <2>8. Holds(n, W) /\ Len(n.heap) = Size + 1
    BY <1>2, <2>2, <2>4, <2>5, <2>6, <2>7 DEF Holds
  <2>9. \A p \in 1..Size : D(n, p) = D(h, p)
    <3> TAKE p \in 1..Size
    <3>1. p \in 1..(Size + 1) /\ p # Size + 1
      BY <1>1
    <3> QED
      BY <2>2, <2>5, <3>1 DEF D
  <2>10. ASSUME NEW j \in 2..(Size + 1)
         PROVE  Half(j) # Size + 1 /\ (j # Size + 1 => D(n, Half(j)) <= D(n, j))
    <3>1. j \in Nat /\ Half(j) \in Nat /\ 1 <= Half(j) /\ Half(j) < j
      BY <1>1, Halves
    <3>2. Half(j) # Size + 1
      BY <1>1, <3>1
    <3>3. ASSUME j # Size + 1 PROVE D(n, Half(j)) <= D(n, j)
      <4>1. j \in 2..Size /\ j \in 1..Size /\ Half(j) \in 1..Size
        BY <1>1, <3>1, <3>3
      <4>2. D(h, Half(j)) <= D(h, j)
        BY <4>1 DEF Ordered
      <4> QED
        BY <2>9, <4>1, <4>2
    <3> QED
      BY <3>2, <3>3
  <2>11. Above(n, Size + 1)
    BY <2>8, <2>10 DEF Above, Loose
  <2>12. Size + 1 \in 1..Len(n.heap)
    BY <1>1, <2>8
  <2> QED
    BY <2>1, <2>8, <2>11, <2>12, SiftUpSorts DEF W
<1> QED
  BY <1>5, <1>6

\* Popping the last entry takes its key out of the table.
LEMMA DropLastHolds ==
  ASSUME NEW T, NEW h, Holds(h, T), h.heap # <<>>
  PROVE  LET k == h.heap[Len(h.heap)].key
         IN  /\ k \in DOMAIN T /\ T[k] = D(h, Len(h.heap))
             /\ Holds(DropLast(h), Without(T, {k}))
             /\ Len(DropLast(h).heap) = Len(h.heap) - 1 /\ Len(h.heap) >= 1
             /\ \A p \in 1..(Len(h.heap) - 1) : D(DropLast(h), p) = D(h, p)
<1> DEFINE Size == Len(h.heap)
           k == h.heap[Len(h.heap)].key
           W == Without(T, {k})
           x == DropLast(h)
<1>1. /\ h.heap \in Seq(Node) /\ Size \in Nat /\ Size >= 1 /\ Size \in 1..Size
      /\ h.indices \in [DOMAIN T -> 1..Size] /\ T \in Table
  BY EmptySeq, Entries DEF Holds
<1>2. k \in DOMAIN T /\ h.indices[k] = Size /\ h.heap[Size] = [key |-> k, deadline |-> T[k]]
  BY <1>1 DEF Holds
<1>3. /\ x.heap \in Seq(Node) /\ Len(x.heap) = Size - 1
      /\ \A p \in 1..(Size - 1) : x.heap[p] = h.heap[p]
  <2>1. x.heap = SubSeq(h.heap, 1, Size - 1)
    BY DEF DropLast, Front
  <2> HIDE DEF x
  <2> QED
    BY <1>1, <2>1, SubSeqProperties
<1>4. /\ W \in Table /\ DOMAIN W = DOMAIN T \ {k} /\ \A q \in DOMAIN T \ {k} : W[q] = T[q]
  BY <1>1, WithoutTable
<1>5. x.indices = Without(h.indices, {k}) /\ x = [heap |-> x.heap, indices |-> x.indices]
  BY DEF DropLast, Last
<1>6. ASSUME NEW q \in DOMAIN T \ {k}
      PROVE  h.indices[q] \in 1..(Size - 1) /\ h.heap[h.indices[q]] = [key |-> q, deadline |-> T[q]]
  <2>1. h.indices[q] \in 1..Size /\ h.heap[h.indices[q]] = [key |-> q, deadline |-> T[q]]
    BY DEF Holds
  <2>2. h.indices[q] # Size
    BY <1>2, <2>1
  <2> HIDE DEF Size
  <2> QED
    BY <1>1, <2>1, <2>2
<1>7. /\ x.indices \in [DOMAIN T \ {k} -> 1..(Size - 1)]
      /\ \A q \in DOMAIN T \ {k} : x.indices[q] = h.indices[q]
  <2>1. x.indices = [q \in DOMAIN T \ {k} |-> h.indices[q]]
    BY <1>1, <1>5 DEF Without
  <2> HIDE DEF x, Size
  <2> QED
    BY <1>6, <2>1
<1>8. ASSUME NEW p \in 1..(Size - 1)
      PROVE  x.heap[p].key \in DOMAIN W /\ x.indices[x.heap[p].key] = p
  <2>1. p \in 1..Size /\ p # Size
    BY <1>1
  <2>2. h.heap[p].key \in DOMAIN T /\ h.indices[h.heap[p].key] = p
    BY <2>1 DEF Holds
  <2> HIDE DEF x, Size, W
  <2> QED
    BY <1>2, <1>3, <1>4, <1>7, <2>1, <2>2
<1> HIDE DEF x, W, Size
<1>9. Holds(x, W)
  <2>1. ASSUME NEW q \in DOMAIN W PROVE x.heap[x.indices[q]] = [key |-> q, deadline |-> W[q]]
    <3>1. q \in DOMAIN T \ {k}
      BY <1>4
    <3> QED
      BY <1>3, <1>4, <1>6, <1>7, <3>1
  <2> QED
    BY <1>3, <1>4, <1>5, <1>7, <1>8, <2>1 DEF Holds
<1>10. \A p \in 1..(Size - 1) : D(x, p) = D(h, p)
  BY <1>3 DEF D
<1>11. T[k] = D(h, Size)
  BY <1>2 DEF D
<1> QED
  BY <1>1, <1>2, <1>3, <1>9, <1>10, <1>11 DEF x, W, Size

\* The heap whose entry i went to the end and was popped, the last entry in its place.
\* An entry leaves from position i.
Pop(h, i) == DropLast(Swap(h, i, Len(h.heap)))

LEMMA Popped ==
  ASSUME NEW T, NEW h, Holds(h, T), Ordered(h), NEW i \in 1..Len(h.heap)
  PROVE  LET k == h.heap[i].key
             x == Pop(h, i)
         IN  /\ k \in DOMAIN T /\ T[k] = D(h, i)
             /\ Holds(x, Without(T, {k})) /\ Len(x.heap) = Len(h.heap) - 1 /\ Len(h.heap) \in Nat
             /\ Loose(x, i) /\ (i > Len(x.heap) => Ordered(x))
<1> DEFINE Size == Len(h.heap)
           k == h.heap[i].key
           y == Swap(h, i, Size)
           x == DropLast(y)
<1>1. Size \in Nat /\ Size >= 1 /\ Size \in 1..Size /\ i \in Nat /\ \A p \in 1..Size : D(h, p) \in Nat
  BY Entries
<1>2. Holds(y, T) /\ Len(y.heap) = Size /\ y.heap \in Seq(Node)
  BY <1>1, SwapHolds, SwapEntries
<1>3. \A p \in 1..Size : y.heap[p] = IF p = Size THEN h.heap[i] ELSE IF p = i THEN h.heap[Size] ELSE h.heap[p]
  <2>1. Holds(h, T) /\ i \in 1..Len(h.heap) /\ Size \in 1..Len(h.heap)
    BY <1>1
  <2> QED
    BY ONLY <2>1, SwapEntries
<1>4. k = y.heap[Len(y.heap)].key /\ y.heap # <<>>
  BY <1>1, <1>2, <1>3, EmptySeq
<1>16. x = Pop(h, i)
  BY DEF Pop
<1>5. \A p \in 1..Size : D(y, p) = IF p = Size THEN D(h, i) ELSE IF p = i THEN D(h, Size) ELSE D(h, p)
  BY <1>3 DEF D
<1> HIDE DEF y, k
<1>6. /\ k \in DOMAIN T /\ T[k] = D(y, Size)
      /\ Holds(x, Without(T, {k})) /\ Len(x.heap) = Size - 1
      /\ \A p \in 1..(Size - 1) : D(x, p) = D(y, p)
  <2>1. /\ y.heap[Len(y.heap)].key \in DOMAIN T
        /\ T[y.heap[Len(y.heap)].key] = D(y, Len(y.heap))
        /\ Holds(DropLast(y), Without(T, {y.heap[Len(y.heap)].key}))
        /\ Len(DropLast(y).heap) = Len(y.heap) - 1
        /\ \A p \in 1..(Len(y.heap) - 1) : D(DropLast(y), p) = D(y, p)
    <3>1. Holds(y, T) /\ y.heap # <<>>
      BY <1>2, <1>4
    <3> QED
      BY ONLY <3>1, DropLastHolds
  <2> QED
    BY <1>2, <1>4, <2>1
<1> HIDE DEF Size, x
<1>7. \A p \in 1..(Size - 1) : p \in 1..Size /\ p # Size
  BY <1>1
<1>8. \A p \in 1..(Size - 1) : D(x, p) = IF p = i THEN D(h, Size) ELSE D(h, p)
  BY <1>5, <1>6, <1>7
<1>9. \A j \in 2..(Size - 1) : /\ j \in 1..(Size - 1) /\ j \in 2..Size /\ j # Size
                             /\ Half(j) \in 1..(Size - 1) /\ Half(j) \in 1..Size /\ Half(j) # j
  <2> TAKE j \in 2..(Size - 1)
  <2>1. j \in Nat /\ j >= 2 /\ j <= Size - 1
    BY <1>1
  <2>2. Half(j) \in Nat /\ 1 <= Half(j) /\ Half(j) < j
    BY <2>1, Halves
  <2> QED
    BY <1>1, <2>1, <2>2
<1>10. \A j \in 2..Size : D(h, Half(j)) <= D(h, j)
  BY DEF Ordered, Size
<1>11. ASSUME NEW j \in 2..(Size - 1), j # i, Half(j) # i PROVE D(x, Half(j)) <= D(x, j)
  BY <1>8, <1>9, <1>10, <1>11
<1>12. ASSUME NEW j \in 2..(Size - 1), Half(j) = i, i > 1 PROVE D(x, Half(i)) <= D(x, j)
  <2>1. i \in 2..(Size - 1) /\ j # i
    BY <1>1, <1>9, <1>12
  <2>2. D(x, Half(i)) = D(h, Half(i)) /\ D(x, j) = D(h, j)
    BY <1>8, <1>9, <1>12, <2>1
  <2>3. D(h, Half(i)) <= D(h, i) /\ D(h, i) <= D(h, j)
    BY <1>9, <1>10, <1>12, <2>1
  <2>4. D(h, Half(i)) \in Nat /\ D(h, i) \in Nat /\ D(h, j) \in Nat
    BY <1>1, <1>9, <1>12, <2>1
  <2> QED
    BY <2>2, <2>3, <2>4
<1>13. Loose(x, i)
  BY <1>6, <1>11, <1>12 DEF Loose
<1>14. ASSUME i > Size - 1, NEW j \in 2..(Size - 1) PROVE D(x, Half(j)) <= D(x, j)
  <2>1. j # i /\ Half(j) # i
    <3>1. j \in Nat /\ j <= Size - 1 /\ Half(j) \in Nat /\ Half(j) <= Size - 1
      BY <1>1, <1>9
    <3> QED
      BY <1>1, <1>14, <3>1
  <2> QED
    BY <1>11, <2>1
<1>15. T[k] = D(h, i)
  BY <1>1, <1>5, <1>6 DEF Size
<1> QED
  BY <1>1, <1>6, <1>13, <1>14, <1>15, <1>16 DEF Ordered, Size, k

\* A key leaves, or is not there.
LEMMA RemoveSorts ==
  ASSUME NEW T, NEW h, Holds(h, T), Ordered(h), NEW k
  PROVE  Holds(RemoveKey(h, k), Without(T, {k})) /\ Ordered(RemoveKey(h, k))
<1> DEFINE Size == Len(h.heap)
           i == h.indices[k]
           x == Pop(h, i)
           W == Without(T, {k})
<1>1. DOMAIN h.indices = DOMAIN T /\ T \in Table
  BY DEF Holds
<1>2. CASE k \notin DOMAIN h.indices
  <2>1. W = T
    <3>1. PICK Q \in SUBSET TimerKey : T \in [Q -> Nat]
      BY <1>1 DEF Table
    <3> QED
      BY <1>1, <1>2, <3>1 DEF Without
  <2> QED
    BY <1>2, <2>1 DEF RemoveKey
<1>3. CASE k \in DOMAIN h.indices
  <2>1. i \in 1..Size /\ h.heap[i].key = k
    <3>1. k \in DOMAIN T
      BY <1>1, <1>3
    <3>2. h.heap[i] = [key |-> k, deadline |-> T[k]] /\ i \in 1..Size
      BY <3>1 DEF Holds
    <3> QED
      BY <3>2
  <2>2. /\ Holds(x, W) /\ Len(x.heap) = Size - 1 /\ Size \in Nat
        /\ Loose(x, i) /\ (i > Len(x.heap) => Ordered(x))
    <3>1. /\ Holds(Pop(h, i), Without(T, {h.heap[i].key})) /\ Len(Pop(h, i).heap) = Len(h.heap) - 1
          /\ Len(h.heap) \in Nat /\ Loose(Pop(h, i), i) /\ (i > Len(Pop(h, i).heap) => Ordered(Pop(h, i)))
      <4>1. Holds(h, T) /\ Ordered(h) /\ i \in 1..Len(h.heap)
        BY <2>1
      <4> HIDE DEF i
      <4> QED
        BY ONLY <4>1, Popped
    <3> QED
      BY <2>1, <3>1
  <2>3. RemoveKey(h, k) = IF i = Size THEN x ELSE Settled(x, i)
    BY <1>3 DEF RemoveKey, Pop
  <2> HIDE DEF x, W, i
  <2>4. CASE i = Size
    BY <2>1, <2>2, <2>3, <2>4 DEF W
  <2>5. CASE i # Size
    <3>1. i \in 1..Len(x.heap)
      BY <2>1, <2>2, <2>5
    <3> DEFINE y == SiftDown(x, i)
    <3>2. Holds(y, W) /\ Len(y.heap) = Len(x.heap) /\ Above(y, i)
      BY <2>2, <3>1, SiftDownSorts
    <3>3. Holds(SiftUp(y, i), W) /\ Ordered(SiftUp(y, i))
      <4> HIDE DEF y
      <4> QED
        BY <3>1, <3>2, SiftUpSorts
    <3> QED
      BY <2>3, <2>5, <3>3 DEF Settled, W
  <2> QED
    BY <2>4, <2>5
<1> QED
  BY <1>2, <1>3

\* The root is no later than any entry.
LEMMA RootFirst ==
  ASSUME NEW T, NEW h, Holds(h, T), Ordered(h), NEW i \in 1..Len(h.heap)
  PROVE  D(h, 1) <= D(h, i)
<1> DEFINE Size == Len(h.heap)
           P == {n \in Nat : \A p \in 1..Size : p <= n => D(h, 1) <= D(h, p)}
<1>1. Size \in Nat /\ 1 \in 1..Size /\ i \in Nat /\ \A p \in 1..Size : D(h, p) \in Nat
  BY Entries
<1>2. 0 \in P
  BY <1>1
<1>3. ASSUME NEW n \in Nat, n \in P PROVE n + 1 \in P
  <2> SUFFICES ASSUME NEW p \in 1..Size, p <= n + 1 PROVE D(h, 1) <= D(h, p)
    OBVIOUS
  <2>1. CASE p <= n
    BY <1>3, <2>1
  <2>2. CASE ~(p <= n)
    <3>1. p = n + 1 /\ p \in Nat
      BY <1>1, <2>2
    <3>2. CASE p = 1
      BY <1>1, <3>2
    <3>3. CASE p # 1
      <4>1. p \in 2..Size /\ Half(p) \in 1..Size /\ Half(p) <= n
        BY <1>1, <3>1, <3>3, Halves
      <4>2. D(h, 1) <= D(h, Half(p)) /\ D(h, Half(p)) <= D(h, p)
        BY <1>3, <4>1 DEF Ordered
      <4>3. D(h, 1) \in Nat /\ D(h, Half(p)) \in Nat /\ D(h, p) \in Nat
        BY <1>1, <4>1
      <4> QED
        BY <4>2, <4>3
    <3> QED
      BY <3>2, <3>3
  <2> QED
    BY <2>1, <2>2
<1> HIDE DEF P
<1>4. i \in P
  BY <1>1, <1>2, <1>3, Induction
<1> QED
  BY <1>1, <1>4 DEF P

\* Nothing moves in an empty heap.
LEMMA SiftNothing ==
  ASSUME NEW h, NEW i, Len(h.heap) = 0
  PROVE  SiftDown(h, i) = h
<1> DEFINE b == [h |-> h, at |-> i]
           IsLoop(f) == f = [n \in 0..0 |-> IF n = 0 THEN b ELSE Down(f[n - 1])]
           f == CHOOSE f : IsLoop(f)
<1>1. IsLoop([n \in 0..0 |-> b])
  OBVIOUS
<1>2. IsLoop(f)
  <2> HIDE DEF IsLoop
  <2> QED
    BY <1>1
<1>3. SiftDown(h, i) = f[0].h
  BY DEF SiftDown
<1> HIDE DEF f
<1> QED
  BY <1>2, <1>3

\* The root is popped: the key of an earliest deadline leaves.
LEMMA PopSorts ==
  ASSUME NEW T, NEW h, Holds(h, T), Ordered(h), h.heap # <<>>
  PROVE  LET k == h.heap[1].key
         IN  /\ k \in DOMAIN T /\ T[k] = Head(h.heap).deadline /\ \A q \in DOMAIN T : T[k] <= T[q]
             /\ Holds(PopRoot(h), Without(T, {k})) /\ Ordered(PopRoot(h))
<1> DEFINE Size == Len(h.heap)
           k == h.heap[1].key
           x == Pop(h, 1)
<1>1. Size \in Nat /\ 1 \in 1..Size /\ h.heap \in Seq(Node)
  BY Entries, EmptySeq DEF Holds
<1>2. /\ k \in DOMAIN T /\ T[k] = D(h, 1)
      /\ Holds(x, Without(T, {k})) /\ Len(x.heap) = Size - 1
      /\ Loose(x, 1) /\ (1 > Len(x.heap) => Ordered(x))
  <2>1. Holds(h, T) /\ Ordered(h) /\ 1 \in 1..Len(h.heap)
    BY <1>1
  <2>2. /\ h.heap[1].key \in DOMAIN T /\ T[h.heap[1].key] = D(h, 1)
        /\ Holds(Pop(h, 1), Without(T, {h.heap[1].key})) /\ Len(Pop(h, 1).heap) = Len(h.heap) - 1
        /\ Loose(Pop(h, 1), 1) /\ (1 > Len(Pop(h, 1).heap) => Ordered(Pop(h, 1)))
    BY ONLY <2>1, Popped
  <2> QED
    BY <2>2
<1>3. PopRoot(h) = SiftDown(x, 1)
  BY DEF PopRoot, Pop
<1>4. Holds(SiftDown(x, 1), Without(T, {k})) /\ Ordered(SiftDown(x, 1))
  <2> HIDE DEF x, k, Size
  <2>1. CASE Size = 1
    <3>1. Len(x.heap) = 0
      BY <1>2, <2>1
    <3>2. SiftDown(x, 1) = x
      BY <3>1, SiftNothing
    <3> QED
      BY <1>2, <3>1, <3>2
  <2>2. CASE Size # 1
    <3>0. Len(x.heap) \in Nat /\ Len(x.heap) >= 1
      BY <1>1, <1>2, <2>2
    <3>1. 1 \in 1..Len(x.heap) /\ Below(x, 1)
      BY <1>2, <3>0 DEF Below
    <3> QED
      BY <1>2, <3>1, SiftDownSorts
  <2> QED
    BY <2>1, <2>2
<1>5. ASSUME NEW q \in DOMAIN T PROVE T[k] <= T[q]
  <2>1. h.indices[q] \in 1..Size /\ h.heap[h.indices[q]] = [key |-> q, deadline |-> T[q]]
    BY DEF Holds
  <2>2. D(h, 1) <= D(h, h.indices[q]) /\ D(h, h.indices[q]) = T[q]
    BY <2>1, RootFirst DEF D
  <2> QED
    BY <1>2, <2>2
<1>6. Head(h.heap).deadline = D(h, 1)
  BY <1>1 DEF D
<1> QED
  BY <1>2, <1>3, <1>4, <1>5, <1>6

-----------------------------------------------------------------------------
(* The loops over whole heaps: swapDb, clearDb and the sweep.              *)

Heaps == {x \in [heap : Seq(Node), indices : Table] : \E U : Holds(x, U) /\ Ordered(x)}

LEMMA InHeaps ==
  ASSUME NEW U, NEW x, Holds(x, U), Ordered(x)
  PROVE  x \in Heaps
<1>1. PICK Q \in SUBSET TimerKey : U \in [Q -> Nat]
  BY DEF Holds, Table
<1>2. x.indices \in [Q -> Nat] /\ x.heap \in Seq(Node) /\ x = [heap |-> x.heap, indices |-> x.indices]
  BY <1>1, Entries DEF Holds
<1>3. x.indices \in Table
  BY <1>1, <1>2 DEF Table
<1> QED
  BY <1>2, <1>3 DEF Heaps

\* What the first n keys of a sequence are.
Named(keys, n) == {keys[m] : m \in 1..n}

LEMMA NamedGrows ==
  /\ \A keys : Named(keys, 0) = {}
  /\ \A keys : \A n \in Nat : Named(keys, n + 1) = Named(keys, n) \cup {keys[n + 1]}
<1>1. \A n \in Nat : 1..(n + 1) = 1..n \cup {n + 1}
  OBVIOUS
<1> QED
  BY <1>1 DEF Named

\* The keys of a sequence leave,
LEMMA RemoveAllSorts ==
  ASSUME NEW T, NEW h, Holds(h, T), Ordered(h), NEW keys, Len(keys) \in Nat
  PROVE  Holds(RemoveAll(h, keys), Without(T, Named(keys, Len(keys)))) /\ Ordered(RemoveAll(h, keys))
<1> DEFINE N == Len(keys)
           g == [n \in 1..N |-> [x \in Heaps |-> RemoveKey(x, keys[n])]]
           IsLoop(f) == f = [n \in 0..N |-> IF n = 0 THEN h ELSE RemoveKey(f[n - 1], keys[n])]
           f == CHOOSE f : IsLoop(f)
<1>1. h \in Heaps /\ N \in Nat
  BY InHeaps
<1>2. \A n \in 1..N, x \in Heaps : RemoveKey(x, keys[n]) \in Heaps
  <2> TAKE n \in 1..N, x \in Heaps
  <2>1. PICK U : Holds(x, U) /\ Ordered(x)
    BY DEF Heaps
  <2>2. Holds(RemoveKey(x, keys[n]), Without(U, {keys[n]})) /\ Ordered(RemoveKey(x, keys[n]))
    BY <2>1, RemoveSorts
  <2> QED
    BY <2>2, InHeaps
<1> HIDE DEF N
<1>3. g \in [1..N -> [Heaps -> Heaps]]
  BY <1>2
<1>4. PICK r : Rounds(r, g, h, N) /\ \A n \in 0..N : r[n] \in Heaps
  BY <1>1, <1>3, RoundsExist
<1>5. \A n \in 1..N, x \in Heaps : g[n][x] = RemoveKey(x, keys[n])
  OBVIOUS
<1> HIDE DEF g
<1>6. IsLoop(r)
  <2>1. ASSUME NEW n \in 0..N PROVE r[n] = IF n = 0 THEN h ELSE RemoveKey(r[n - 1], keys[n])
    <3>1. n # 0 => n \in 1..N /\ n - 1 \in 0..N
      BY <1>1
    <3>2. r[n] = IF n = 0 THEN h ELSE g[n][r[n - 1]]
      BY <1>4 DEF Rounds
    <3> QED
      BY <1>4, <1>5, <3>1, <3>2
  <2>2. r = [n \in 0..N |-> r[n]]
    BY <1>4 DEF Rounds
  <2> QED
    BY <2>1, <2>2
<1>7. IsLoop(f) /\ RemoveAll(h, keys) = f[N]
  BY <1>6 DEF RemoveAll, N
<1> HIDE DEF f
<1> DEFINE P == {n \in Nat : n <= N => /\ Holds(f[n], Without(T, Named(keys, n))) /\ Ordered(f[n])}
<1>8. 0 \in P
  <2>1. Without(T, {}) = T
    <3>1. PICK Q \in SUBSET TimerKey : T \in [Q -> Nat]
      BY DEF Holds, Table
    <3> QED
      BY <3>1 DEF Without
  <2>2. f[0] = h
    BY <1>1, <1>7
  <2> QED
    BY <2>1, <2>2, NamedGrows
<1>9. ASSUME NEW n \in Nat, n \in P PROVE n + 1 \in P
  <2> SUFFICES ASSUME n + 1 <= N
               PROVE  Holds(f[n + 1], Without(T, Named(keys, n + 1))) /\ Ordered(f[n + 1])
    OBVIOUS
  <2> DEFINE A == Named(keys, n)
             k == keys[n + 1]
  <2>1. n + 1 \in 0..N /\ n + 1 # 0 /\ (n + 1) - 1 = n /\ n <= N
    BY <1>1
  <2>2. f[n + 1] = RemoveKey(f[n], k)
    BY <1>7, <2>1
  <2>3. Holds(f[n], Without(T, A)) /\ Ordered(f[n])
    BY <1>9, <2>1
  <2>4. Named(keys, n + 1) = A \cup {k}
    BY NamedGrows
  <2>5. Without(Without(T, A), {k}) = Without(T, A \cup {k})
    BY DEF Without
  <2> HIDE DEF A, k
  <2>6. Holds(RemoveKey(f[n], k), Without(Without(T, A), {k})) /\ Ordered(RemoveKey(f[n], k))
    BY <2>3, RemoveSorts
  <2> QED
    BY <2>2, <2>4, <2>5, <2>6
<1> HIDE DEF P
<1>10. N \in P
  BY <1>1, <1>8, <1>9, Induction
<1> QED
  BY <1>1, <1>7, <1>10 DEF P, N

\* Table T with the entries of u for the keys in K.
Over(T, u, K) == [k \in DOMAIN T \cup K |-> IF k \in K THEN u[k] ELSE T[k]]

\* and come in.
LEMMA InsertAllSorts ==
  ASSUME NEW T, NEW h, Holds(h, T), Ordered(h), NEW keys, Len(keys) \in Nat, NEW u,
         \A n \in 1..Len(keys) : keys[n] \in TimerKey /\ u[keys[n]] \in Nat
  PROVE  /\ Holds(InsertAll(h, keys, u), Over(T, u, Named(keys, Len(keys))))
         /\ Ordered(InsertAll(h, keys, u))
<1> DEFINE N == Len(keys)
           g == [n \in 1..N |-> [x \in Heaps |-> InsertOrUpdate(x, keys[n], u[keys[n]])]]
           IsLoop(f) == f = [n \in 0..N |-> IF n = 0 THEN h ELSE InsertOrUpdate(f[n - 1], keys[n], u[keys[n]])]
           f == CHOOSE f : IsLoop(f)
<1>1. h \in Heaps /\ N \in Nat
  BY InHeaps
<1>2. \A n \in 1..N, x \in Heaps : InsertOrUpdate(x, keys[n], u[keys[n]]) \in Heaps
  <2> TAKE n \in 1..N, x \in Heaps
  <2>1. PICK U : Holds(x, U) /\ Ordered(x)
    BY DEF Heaps
  <2>2. /\ Holds(InsertOrUpdate(x, keys[n], u[keys[n]]), With(U, keys[n], u[keys[n]]))
        /\ Ordered(InsertOrUpdate(x, keys[n], u[keys[n]]))
    BY <2>1, InsertSorts
  <2> QED
    BY <2>2, InHeaps
<1>0. \A n \in 1..N : keys[n] \in TimerKey /\ u[keys[n]] \in Nat
  OBVIOUS
<1> HIDE DEF N
<1>3. g \in [1..N -> [Heaps -> Heaps]]
  BY <1>2
<1>4. PICK r : Rounds(r, g, h, N) /\ \A n \in 0..N : r[n] \in Heaps
  BY <1>1, <1>3, RoundsExist
<1>5. \A n \in 1..N, x \in Heaps : g[n][x] = InsertOrUpdate(x, keys[n], u[keys[n]])
  OBVIOUS
<1> HIDE DEF g
<1>6. IsLoop(r)
  <2>1. ASSUME NEW n \in 0..N PROVE r[n] = IF n = 0 THEN h ELSE InsertOrUpdate(r[n - 1], keys[n], u[keys[n]])
    <3>1. n # 0 => n \in 1..N /\ n - 1 \in 0..N
      BY <1>1
    <3>2. r[n] = IF n = 0 THEN h ELSE g[n][r[n - 1]]
      BY <1>4 DEF Rounds
    <3> QED
      BY <1>4, <1>5, <3>1, <3>2
  <2>2. r = [n \in 0..N |-> r[n]]
    BY <1>4 DEF Rounds
  <2> QED
    BY <2>1, <2>2
<1>7. IsLoop(f) /\ InsertAll(h, keys, u) = f[N]
  BY <1>6 DEF InsertAll, N
<1> HIDE DEF f
<1> DEFINE P == {n \in Nat : n <= N => /\ Holds(f[n], Over(T, u, Named(keys, n))) /\ Ordered(f[n])}
<1>8. 0 \in P
  <2>1. Over(T, u, {}) = T
    <3>1. PICK Q \in SUBSET TimerKey : T \in [Q -> Nat]
      BY DEF Holds, Table
    <3> QED
      BY <3>1 DEF Over
  <2>2. f[0] = h
    BY <1>1, <1>7
  <2> QED
    BY <2>1, <2>2, NamedGrows
<1>9. ASSUME NEW n \in Nat, n \in P PROVE n + 1 \in P
  <2> SUFFICES ASSUME n + 1 <= N
               PROVE  Holds(f[n + 1], Over(T, u, Named(keys, n + 1))) /\ Ordered(f[n + 1])
    OBVIOUS
  <2> DEFINE A == Named(keys, n)
             k == keys[n + 1]
  <2>1. n + 1 \in 0..N /\ n + 1 # 0 /\ (n + 1) - 1 = n /\ n <= N /\ n + 1 \in 1..N
    BY <1>1
  <2>2. f[n + 1] = InsertOrUpdate(f[n], k, u[k])
    BY <1>7, <2>1
  <2>3. Holds(f[n], Over(T, u, A)) /\ Ordered(f[n])
    BY <1>9, <2>1
  <2>4. Named(keys, n + 1) = A \cup {k}
    BY NamedGrows
  <2>5. k \in TimerKey /\ u[k] \in Nat
    BY <1>0, <2>1
  <2> HIDE DEF A, k
  <2>6. With(Over(T, u, A), k, u[k]) = Over(T, u, A \cup {k})
    <3>1. DOMAIN Over(T, u, A) \cup {k} = DOMAIN T \cup (A \cup {k})
      BY DEF Over
    <3>2. \A q \in DOMAIN T \cup (A \cup {k}) :
             (IF q = k THEN u[k] ELSE Over(T, u, A)[q]) = IF q \in A \cup {k} THEN u[q] ELSE T[q]
      BY DEF Over
    <3> QED
      BY <3>1, <3>2 DEF With, Over
  <2>7. /\ Holds(InsertOrUpdate(f[n], k, u[k]), With(Over(T, u, A), k, u[k]))
        /\ Ordered(InsertOrUpdate(f[n], k, u[k]))
    BY <2>3, <2>5, InsertSorts
  <2> QED
    BY <2>2, <2>4, <2>6, <2>7
<1> HIDE DEF P
<1>10. N \in P
  BY <1>1, <1>8, <1>9, Induction
<1> QED
  BY <1>1, <1>7, <1>10 DEF P, N

\* A sweep of at most n keys has left heap x of table T, and taken the keys G.
Taken(T, x, G, now, n) ==
  /\ G \subseteq DOMAIN T /\ IsFiniteSet(G) /\ \A k \in G : T[k] <= now
  /\ Holds(x, Without(T, G)) /\ Ordered(x)
  /\ Cardinality(G) = n \/ ~Due(x, now)
  /\ \A k \in G, q \in DOMAIN T \ G : T[k] <= T[q]

\* One round of it.
LEMMA TakenNext ==
  ASSUME NEW T \in Table, NEW x, NEW G, NEW now \in Nat, NEW n \in Nat, Taken(T, x, G, now, n)
  PROVE  \E H : Taken(T, IF Due(x, now) THEN PopRoot(x) ELSE x, H, now, n + 1)
<1>1. CASE ~Due(x, now)
  BY <1>1 DEF Taken
<1>2. CASE Due(x, now)
  <2> DEFINE k == x.heap[1].key
             W == Without(T, G)
             H == G \cup {k}
  <2>1. x.heap # <<>> /\ Head(x.heap).deadline <= now
    BY <1>2 DEF Due
  <2>2. Holds(x, W) /\ Ordered(x) /\ Cardinality(G) = n
    BY <1>2 DEF Taken
  <2>3. /\ k \in DOMAIN W /\ W[k] = Head(x.heap).deadline /\ \A q \in DOMAIN W : W[k] <= W[q]
        /\ Holds(PopRoot(x), Without(W, {k})) /\ Ordered(PopRoot(x))
    BY <2>1, <2>2, PopSorts
  <2>4. DOMAIN W = DOMAIN T \ G /\ \A q \in DOMAIN T \ G : W[q] = T[q]
    BY WithoutTable
  <2>5. Without(W, {k}) = Without(T, H)
    BY DEF Without
  <2> HIDE DEF k, W
  <2>6. IsFiniteSet(H) /\ Cardinality(H) = n + 1
    BY <2>2, <2>3, <2>4, FS_AddElement DEF Taken
  <2>7. T[k] <= now /\ k \in DOMAIN T \ G
    BY <2>1, <2>3, <2>4
  <2>8. ASSUME NEW g \in H, NEW q \in DOMAIN T \ H PROVE T[g] <= T[q]
    BY <2>3, <2>4 DEF Taken
  <2>9. Taken(T, PopRoot(x), H, now, n + 1)
    BY <2>3, <2>5, <2>6, <2>7, <2>8 DEF Taken
  <2> QED
    BY <1>2, <2>9
<1> QED
  BY <1>1, <1>2

\* The loop of _sweep.
LEMMA SweptTakes ==
  ASSUME NEW T, NEW h, Holds(h, T), Ordered(h), NEW now \in Nat, NEW N \in Nat
  PROVE  \E G : Taken(T, Swept(h, now, N), G, now, N)
<1> DEFINE Round(x) == IF Due(x, now) THEN PopRoot(x) ELSE x
           g == [n \in 1..N |-> [x \in Heaps |-> Round(x)]]
           IsLoop(f) == f = [n \in 0..N |-> IF n = 0 THEN h ELSE Round(f[n - 1])]
           f == CHOOSE f : IsLoop(f)
<1>1. h \in Heaps /\ T \in Table
  BY InHeaps DEF Holds
<1>2. \A x \in Heaps : Round(x) \in Heaps
  <2> TAKE x \in Heaps
  <2>1. PICK U : Holds(x, U) /\ Ordered(x)
    BY DEF Heaps
  <2>2. CASE Due(x, now)
    <3>1. x.heap # <<>>
      BY <2>2 DEF Due
    <3>2. Holds(PopRoot(x), Without(U, {x.heap[1].key})) /\ Ordered(PopRoot(x))
      BY <2>1, <3>1, PopSorts
    <3> QED
      BY <2>2, <3>2, InHeaps
  <2> QED
    BY <2>2
<1>7. Swept(h, now, N) = f[N]
  BY DEF Swept
<1>12. \A x, G : \A n \in Nat : Taken(T, x, G, now, n) => \E H : Taken(T, Round(x), H, now, n + 1)
  BY <1>1, TakenNext
<1> HIDE DEF Round
<1>3. g \in [1..N -> [Heaps -> Heaps]]
  BY <1>2
<1>4. PICK r : Rounds(r, g, h, N) /\ \A n \in 0..N : r[n] \in Heaps
  BY <1>1, <1>3, RoundsExist
<1>5. \A n \in 1..N, x \in Heaps : g[n][x] = Round(x)
  OBVIOUS
<1> HIDE DEF g
<1>6. IsLoop(r)
  <2>1. ASSUME NEW n \in 0..N PROVE r[n] = IF n = 0 THEN h ELSE Round(r[n - 1])
    <3>1. n # 0 => n \in 1..N /\ n - 1 \in 0..N
      OBVIOUS
    <3>2. r[n] = IF n = 0 THEN h ELSE g[n][r[n - 1]]
      BY <1>4 DEF Rounds
    <3> QED
      BY <1>4, <1>5, <3>1, <3>2
  <2>2. r = [n \in 0..N |-> r[n]]
    BY <1>4 DEF Rounds
  <2> QED
    BY <2>1, <2>2
<1>8. IsLoop(f)
  BY <1>6
<1> HIDE DEF f
<1> DEFINE P == {n \in Nat : n <= N => \E G : Taken(T, f[n], G, now, n)}
<1>9. 0 \in P
  <2>1. Without(T, {}) = T
    <3>1. PICK Q \in SUBSET TimerKey : T \in [Q -> Nat]
      BY DEF Holds, Table
    <3> QED
      BY <3>1 DEF Without
  <2>2. f[0] = h
    BY <1>8
  <2>3. Taken(T, h, {}, now, 0)
    BY <2>1, FS_EmptySet DEF Taken
  <2> QED
    BY <2>2, <2>3
<1>10. ASSUME NEW n \in Nat, n \in P PROVE n + 1 \in P
  <2> SUFFICES ASSUME n + 1 <= N PROVE \E H : Taken(T, f[n + 1], H, now, n + 1)
    OBVIOUS
  <2>1. n + 1 \in 0..N /\ n + 1 # 0 /\ (n + 1) - 1 = n /\ n <= N
    OBVIOUS
  <2>2. f[n + 1] = Round(f[n])
    BY <1>8, <2>1
  <2>3. PICK G : Taken(T, f[n], G, now, n)
    BY <1>10, <2>1
  <2> QED
    BY <1>12, <2>2, <2>3
<1> HIDE DEF P
<1>11. N \in P
  BY <1>9, <1>10, Induction
<1> QED
  BY <1>7, <1>11 DEF P

\* What it has taken are elapsed keys, all of them when there were fewer than n.
LEMMA TakenElapsed ==
  ASSUME NEW T \in Table, NEW x, NEW G, NEW now \in Nat, NEW n \in Nat, Taken(T, x, G, now, n)
  PROVE  G = {k \in DOMAIN T : T[k] <= now} \/ Cardinality(G) = n
<1> SUFFICES ASSUME ~Due(x, now), NEW k \in DOMAIN T, T[k] <= now, k \notin G PROVE FALSE
  BY DEF Taken
<1> DEFINE W == Without(T, G)
<1>1. DOMAIN W = DOMAIN T \ G /\ \A q \in DOMAIN T \ G : W[q] = T[q]
  BY WithoutTable
<1>2. Holds(x, W) /\ Ordered(x)
  BY DEF Taken
<1> HIDE DEF W
<1>3. /\ k \in DOMAIN W /\ x.indices[k] \in 1..Len(x.heap)
      /\ x.heap[x.indices[k]] = [key |-> k, deadline |-> T[k]]
  BY <1>1, <1>2 DEF Holds
<1>4. D(x, x.indices[k]) = T[k] /\ T[k] \in Nat
  BY <1>2, <1>3, Entries DEF D
<1>5. D(x, 1) <= T[k] /\ D(x, 1) \in Nat /\ x.heap # <<>>
  <2>1. Len(x.heap) \in Nat /\ x.heap \in Seq(Node) /\ 1 \in 1..Len(x.heap)
    BY <1>2, <1>3, Entries DEF Holds
  <2> QED
    BY <1>2, <1>3, <1>4, <2>1, RootFirst, Entries
<1>6. Head(x.heap).deadline = D(x, 1)
  <2>1. x.heap \in Seq(Node)
    BY <1>2 DEF Holds
  <2> QED
    BY <1>5, <2>1 DEF D
<1> QED
  BY <1>4, <1>5, <1>6 DEF Due

-----------------------------------------------------------------------------
\* The inductive invariant: the heap is ordered and holds the table.
TimersInv == Holds(Current, timers) /\ Ordered(Current)

\* The keys of the table are as many as the entries of the heap.
LEMMA FiniteTable ==
  ASSUME NEW T, NEW h, Holds(h, T)
  PROVE  IsFiniteSet(DOMAIN T) /\ Cardinality(DOMAIN T) = Len(h.heap)
<1> DEFINE f == [i \in 1..Len(h.heap) |-> h.heap[i].key]
<1>1. f \in Bijection(1..Len(h.heap), DOMAIN T)
  <2>1. f \in [1..Len(h.heap) -> DOMAIN T]
    BY DEF Holds
  <2>2. \A i, j \in 1..Len(h.heap) : f[i] = f[j] => i = j
    BY DEF Holds
  <2>3. ASSUME NEW k \in DOMAIN T PROVE h.indices[k] \in 1..Len(h.heap) /\ f[h.indices[k]] = k
    <3>1. h.indices[k] \in 1..Len(h.heap) /\ h.heap[h.indices[k]] = [key |-> k, deadline |-> T[k]]
      BY DEF Holds
    <3>2. h.heap[h.indices[k]].key = k
      BY <3>1
    <3> QED
      BY <3>1, <3>2
  <2> HIDE DEF f
  <2> QED
    BY <2>1, <2>2, <2>3, Fun_IsBij
<1>2. Len(h.heap) \in Nat
  BY Entries
<1> QED
  BY <1>1, <1>2, FS_NatBijection, FS_CountingElements DEF ExistsBijection

\* An order of a finite set names its elements.
LEMMA OrderNames ==
  ASSUME NEW S, IsFiniteSet(S), NEW s \in SetToSeqs(S)
  PROVE  s \in Seq(S) /\ Len(s) \in Nat /\ Named(s, Len(s)) = S
<1> DEFINE N == Cardinality(S)
<1>1. N \in Nat
  BY FS_CardinalityType
<1>2. s \in [1..N -> S] /\ \A i, j \in 1..N : i # j => s[i] # s[j]
  BY DEF SetToSeqs
<1>3. s \in Injection(1..N, S)
  BY <1>2, Fun_IsInj
<1>4. Cardinality(1..N) = N /\ IsFiniteSet(1..N)
  BY <1>1, FS_Interval
<1>5. s \in Surjection(1..N, S)
  BY <1>3, <1>4, FS_Injection
<1>6. \A x \in S : \E i \in 1..N : s[i] = x
  BY <1>5 DEF Surjection
<1> HIDE DEF N
<1>7. s \in Seq(S) /\ Len(s) = N
  BY <1>1, <1>2
<1> QED
  BY <1>1, <1>2, <1>6, <1>7 DEF Named

LEMMA ConcatNames ==
  ASSUME NEW S, NEW s \in Seq(S), NEW t \in Seq(S)
  PROVE  /\ s \o t \in Seq(S) /\ Len(s \o t) \in Nat
         /\ Named(s \o t, Len(s \o t)) = Named(s, Len(s)) \cup Named(t, Len(t))
<1> DEFINE u == s \o t
           m == Len(s)
           n == Len(t)
<1>1. /\ u \in Seq(S) /\ Len(u) = m + n /\ m \in Nat /\ n \in Nat
      /\ \A i \in 1..(m + n) : u[i] = IF i <= m THEN s[i] ELSE t[i - m]
  BY ConcatProperties
<1> HIDE DEF u, m, n
<1>2. ASSUME NEW i \in 1..m PROVE s[i] \in Named(u, m + n)
  <2>1. i \in 1..(m + n) /\ u[i] = s[i]
    BY <1>1
  <2> QED
    BY <2>1 DEF Named
<1>3. ASSUME NEW i \in 1..n PROVE t[i] \in Named(u, m + n)
  <2>1. m + i \in 1..(m + n) /\ ~(m + i <= m) /\ (m + i) - m = i
    BY <1>1
  <2>2. u[m + i] = t[i]
    BY <1>1, <2>1
  <2> QED
    BY <2>1, <2>2 DEF Named
<1>4. ASSUME NEW i \in 1..(m + n) PROVE u[i] \in Named(s, m) \cup Named(t, n)
  <2>1. CASE i <= m
    <3>1. i \in 1..m /\ u[i] = s[i]
      BY <1>1, <2>1
    <3> QED
      BY <3>1 DEF Named
  <2>2. CASE ~(i <= m)
    <3>1. i - m \in 1..n /\ u[i] = t[i - m]
      BY <1>1, <2>2
    <3> QED
      BY <3>1 DEF Named
  <2> QED
    BY <2>1, <2>2
<1>5. Named(u, m + n) = Named(s, m) \cup Named(t, n)
  BY <1>2, <1>3, <1>4 DEF Named
<1> QED
  BY <1>1, <1>5 DEF u, m, n

\* The other name of a key.
LEMMA OtherTwice ==
  ASSUME NEW a, NEW b, NEW k \in TimerKey
  PROVE  Other(a, b, Other(a, b, k)) = k /\ (k[1] \notin {a, b} => Other(a, b, k) = k)
BY DEF TimerKey, Other

LEMMA OtherKey ==
  ASSUME NEW a \in TimerDb, NEW b \in TimerDb, NEW k \in TimerKey
  PROVE  Other(a, b, k) \in TimerKey
BY DEF TimerKey, Other

\* The tables of the two databases change places.
LEMMA SwapDbInv ==
  ASSUME TimersInv, NEW a \in TimerDb, NEW b \in TimerDb, SwapDb(a, b)
  PROVE  TimersInv'
<1> DEFINE T == timers
           swapped == [k \in {Other(a, b, q) : q \in DOMAIN T} |-> T[Other(a, b, k)]]
<1>1. PICK first \in Orders(a), second \in IF a = b THEN {<<>>} ELSE Orders(b) :
        LET moved == first \o second
            renamed == [n \in DOMAIN moved |-> Other(a, b, moved[n])]
        IN /\ SetHeap(InsertAll(RemoveAll(Current, moved), renamed, swapped))
           /\ timers' = swapped
  BY DEF SwapDb
<1> DEFINE moved == first \o second
           renamed == [n \in DOMAIN moved |-> Other(a, b, moved[n])]
           M == KeysOf(a) \cup KeysOf(b)
           R == {Other(a, b, k) : k \in M}
           x == RemoveAll(Current, moved)
           y == InsertAll(x, renamed, swapped)
<1>2. Holds(Current, T) /\ Ordered(Current) /\ T \in Table
  BY DEF TimersInv, Holds
<1>3. DOMAIN T \subseteq TimerKey /\ \A k \in DOMAIN T : T[k] \in Nat
  BY <1>2 DEF Table
<1>4. IsFiniteSet(KeysOf(a)) /\ IsFiniteSet(KeysOf(b)) /\ M = {k \in DOMAIN T : k[1] \in {a, b}}
  BY <1>2, FiniteTable, FS_Subset DEF KeysOf
<1>5. moved \in Seq(M) /\ Len(moved) \in Nat /\ Named(moved, Len(moved)) = M
  <2>1. first \in Seq(M) /\ Named(first, Len(first)) = KeysOf(a)
    BY <1>4, OrderNames DEF Orders
  <2>2. second \in Seq(M) /\ M = KeysOf(a) \cup Named(second, Len(second))
    <3>1. CASE a = b
      <4>1. second = <<>>
        BY <3>1
      <4>2. second \in Seq(M) /\ Len(second) = 0
        BY <4>1, EmptySeq
      <4> QED
        BY <3>1, <4>2, NamedGrows
    <3>2. CASE a # b
      <4>1. second \in Orders(b)
        BY <3>2
      <4> QED
        BY <1>4, <4>1, OrderNames DEF Orders
    <3> QED
      BY <3>1, <3>2
  <2> HIDE DEF M
  <2> QED
    BY <2>1, <2>2, ConcatNames
<1> HIDE DEF moved, M
<1>6. /\ DOMAIN moved = 1..Len(moved) /\ \A n \in 1..Len(moved) : moved[n] \in M
  BY <1>5
<1>7. M \subseteq DOMAIN T /\ \A k \in M : Other(a, b, k) \in TimerKey /\ Other(a, b, Other(a, b, k)) = k
  BY <1>3, <1>4, OtherTwice, OtherKey
<1>8. renamed \in Seq(TimerKey) /\ Len(renamed) = Len(moved) /\ Named(renamed, Len(renamed)) = R
  <2>1. renamed \in [1..Len(moved) -> TimerKey]
    BY <1>6, <1>7
  <2>2. \A n \in 1..Len(moved) : renamed[n] = Other(a, b, moved[n])
    BY <1>6
  <2> HIDE DEF renamed
  <2>3. renamed \in Seq(TimerKey) /\ Len(renamed) = Len(moved)
    BY <1>5, <2>1
  <2>4. R = {Other(a, b, moved[n]) : n \in 1..Len(moved)}
    BY <1>5 DEF Named
  <2> HIDE DEF R
  <2> QED
    BY <2>2, <2>3, <2>4 DEF Named
<1>9. Holds(x, Without(T, M)) /\ Ordered(x)
  BY <1>2, <1>5, RemoveAllSorts
<1>10. \A n \in 1..Len(renamed) : renamed[n] \in TimerKey /\ swapped[renamed[n]] \in Nat
  <2> TAKE n \in 1..Len(renamed)
  <2>1. moved[n] \in M /\ renamed[n] = Other(a, b, moved[n])
    BY <1>6, <1>8
  <2>2. renamed[n] \in TimerKey /\ swapped[renamed[n]] = T[moved[n]]
    BY <1>7, <2>1
  <2> QED
    BY <1>3, <1>7, <2>1, <2>2
<1>11. Over(Without(T, M), swapped, R) = swapped
  <2>0. \A k \in DOMAIN T \ M : Other(a, b, k) = k
    BY <1>3, <1>4, OtherTwice
  <2>1. DOMAIN Without(T, M) \cup R = DOMAIN swapped
    <3>1. {Other(a, b, q) : q \in DOMAIN T} = (DOMAIN T \ M) \cup R
      BY <1>7, <2>0
    <3> QED
      BY <3>1 DEF Without
  <2>2. \A k \in DOMAIN swapped : (IF k \in R THEN swapped[k] ELSE Without(T, M)[k]) = swapped[k]
    BY <2>0, <2>1 DEF Without
  <2>3. swapped = [k \in DOMAIN swapped |-> swapped[k]]
    OBVIOUS
  <2> HIDE DEF swapped, R
  <2> QED
    BY <2>1, <2>2, <2>3 DEF Over
<1>12. SetHeap(y) /\ timers' = swapped
  BY <1>1 DEF moved
<1> HIDE DEF renamed, swapped, R, x
<1>13. Holds(y, swapped) /\ Ordered(y)
  <2>1. Len(renamed) \in Nat
    BY <1>5, <1>8
  <2>2. Holds(y, Over(Without(T, M), swapped, Named(renamed, Len(renamed)))) /\ Ordered(y)
    BY <1>9, <1>10, <2>1, InsertAllSorts
  <2> QED
    BY <1>8, <1>11, <2>2
<1> HIDE DEF y
<1>14. Current' = y
  BY <1>12, <1>13 DEF SetHeap, Current, Holds
<1> QED
  BY <1>12, <1>13, <1>14 DEF TimersInv

\* The first heap, and the one clearAll leaves.
LEMMA EmptyHeap ==
  LET T == [k \in {} |-> 0]
      h == [heap |-> <<>>, indices |-> T]
  IN  Holds(h, T) /\ Ordered(h)
<1> DEFINE T == [k \in {} |-> 0]
           h == [heap |-> <<>>, indices |-> T]
<1>2. T \in [{} -> Nat] /\ T \in Table
  BY DEF Table
<1>3. /\ h.heap = <<>> /\ h.indices = T /\ h = [heap |-> h.heap, indices |-> h.indices]
      /\ <<>> \in Seq(Node) /\ Len(<<>>) = 0
  OBVIOUS
<1>4. T \in [{} -> 1..0] /\ DOMAIN T = {}
  OBVIOUS
<1> HIDE DEF h, T
<1>5. Holds(h, T)
  BY <1>2, <1>3, <1>4 DEF Holds
<1>6. Ordered(h)
  BY <1>3 DEF Ordered
<1> QED
  BY <1>5, <1>6 DEF h, T

\* A step to a heap that is in order and holds the table of the step.
LEMMA Sets ==
  ASSUME NEW x, NEW T, Holds(x, T), Ordered(x), SetHeap(x), timers' = T
  PROVE  TimersInv'
BY DEF TimersInv, SetHeap, Current, Holds

LEMMA TimersStep ==
  ASSUME TimersInv, [TimersNext]_timerVars
  PROVE  TimersInv'
<1>1. Holds(Current, timers) /\ Ordered(Current) /\ timers \in Table
  BY DEF TimersInv, Holds
<1>2. ASSUME NEW k \in TimerKey, NEW d \in Deadline, SetExpiry(k, d) PROVE TimersInv'
  <2>1. d \in Nat
    BY TimersAssumption
  <2>2. /\ Holds(InsertOrUpdate(Current, k, d), With(timers, k, d))
        /\ Ordered(InsertOrUpdate(Current, k, d))
    BY <1>1, <2>1, InsertSorts
  <2> QED
    BY <1>2, <2>2, Sets DEF SetExpiry
<1>3. ASSUME NEW k \in TimerKey, RemoveExpiry(k) PROVE TimersInv'
  <2>1. /\ Holds(RemoveKey(Current, k), Without(timers, {k}))
        /\ Ordered(RemoveKey(Current, k))
    BY <1>1, RemoveSorts
  <2> QED
    BY <1>3, <2>1, Sets DEF RemoveExpiry
<1>4. ASSUME NEW now \in Deadline, Sweep(now) PROVE TimersInv'
  <2> DEFINE left == Swept(Current, now, Batch)
  <2>1. SetHeap(left) /\ timers' = Without(timers, DOMAIN indices \ DOMAIN left.indices)
    BY <1>4 DEF Sweep
  <2>2. PICK G : Taken(timers, left, G, now, Batch)
    BY <1>1, SweptTakes, TimersAssumption
  <2> HIDE DEF left
  <2>3. DOMAIN indices = DOMAIN timers /\ DOMAIN left.indices = DOMAIN timers \ G
    <3>1. DOMAIN left.indices = DOMAIN Without(timers, G)
      BY <2>2 DEF Taken, Holds
    <3>2. DOMAIN indices = DOMAIN timers
      BY <1>1 DEF Holds, Current
    <3> QED
      BY <3>1, <3>2 DEF Without
  <2>4. DOMAIN indices \ DOMAIN left.indices = G
    BY <2>2, <2>3 DEF Taken
  <2> QED
    BY <2>1, <2>2, <2>4, Sets DEF Taken
<1>5. ASSUME NEW a \in TimerDb, NEW b \in TimerDb, SwapDb(a, b) PROVE TimersInv'
  BY <1>5, SwapDbInv
<1>6. ASSUME NEW db \in TimerDb, ClearDb(db) PROVE TimersInv'
  <2>1. PICK keys \in Orders(db) :
          timers' = Without(timers, KeysOf(db)) /\ SetHeap(RemoveAll(Current, keys))
    BY <1>6 DEF ClearDb
  <2>2. IsFiniteSet(KeysOf(db))
    BY <1>1, FiniteTable, FS_Subset DEF KeysOf
  <2>3. Len(keys) \in Nat /\ Named(keys, Len(keys)) = KeysOf(db)
    BY <2>2, OrderNames DEF Orders
  <2>4. Holds(RemoveAll(Current, keys), Without(timers, KeysOf(db))) /\ Ordered(RemoveAll(Current, keys))
    BY <1>1, <2>3, RemoveAllSorts
  <2> QED
    BY <2>1, <2>4, Sets
<1>7. CASE ClearAll
  BY <1>7, EmptyHeap DEF ClearAll, TimersInv, Current
<1>8. CASE UNCHANGED timerVars
  BY <1>8 DEF timerVars, TimersInv, Current
<1> QED
  BY <1>2, <1>3, <1>4, <1>5, <1>6, <1>7, <1>8 DEF TimersNext

LEMMA TimersInvariant == TimersSpec => []TimersInv
<1>1. TimersInit => TimersInv
  BY EmptyHeap DEF TimersInit, TimersInv, Current
<1> QED
  BY <1>1, TimersStep, PTL DEF TimersSpec

\* The heap, its index and the table of the deadlines agree in every state that
\* sets, removals, sweeps, swaps and clears can reach: no key is lost to the
\* sweep, and none is swept that has no TTL.
THEOREM HeapIsExact == TimersSpec => []HeapExact
<1>1. TimersInv => HeapExact
  <2> SUFFICES ASSUME TimersInv PROVE HeapExact
    OBVIOUS
  <2>0. Holds(Current, timers) /\ Ordered(Current) /\ Current.heap = heap /\ Current.indices = indices
    BY DEF TimersInv, Current
  <2>1. \A i \in 2..Len(heap) : heap[i \div 2].deadline <= heap[i].deadline
    BY <2>0 DEF Ordered, D, Half
  <2>2. Len(heap) = Cardinality(DOMAIN timers)
    BY <2>0, FiniteTable
  <2>3. DOMAIN indices = DOMAIN timers /\ DOMAIN heap = 1..Len(heap)
    BY <2>0, Entries DEF Holds
  <2>4. \A k \in DOMAIN timers : /\ indices[k] \in 1..Len(heap)
                                 /\ heap[indices[k]] = [key |-> k, deadline |-> timers[k]]
    BY <2>0 DEF Holds
  <2> QED
    BY <2>1, <2>2, <2>3, <2>4 DEF HeapExact
<1> QED
  BY <1>1, TimersInvariant, PTL

\* A sweep takes elapsed keys only, the earliest first, and stops before the last
\* one only when its batch is full.
THEOREM SweepsTakeEarliest == TimersSpec => []SweepTakesEarliest
<1>1. TimersInv => SweepTakesEarliest
  <2> SUFFICES ASSUME TimersInv, NEW now \in Deadline
               PROVE  LET elapsed == {k \in DOMAIN timers : timers[k] <= now}
                          gone == DOMAIN indices \ DOMAIN Swept(Current, now, Batch).indices
                      IN /\ gone \subseteq elapsed
                         /\ gone = elapsed \/ Cardinality(gone) = Batch
                         /\ \A k \in gone, q \in DOMAIN timers \ gone : timers[k] <= timers[q]
    BY DEF SweepTakesEarliest
  <2> DEFINE left == Swept(Current, now, Batch)
  <2>0. Holds(Current, timers) /\ Ordered(Current) /\ timers \in Table /\ now \in Nat /\ Batch \in Nat
    BY TimersAssumption DEF TimersInv, Holds
  <2>1. PICK G : Taken(timers, left, G, now, Batch)
    BY <2>0, SweptTakes
  <2> HIDE DEF left
  <2>2. DOMAIN indices \ DOMAIN left.indices = G
    <3>1. DOMAIN left.indices = DOMAIN Without(timers, G)
      BY <2>1 DEF Taken, Holds
    <3>2. DOMAIN indices = DOMAIN timers
      BY <2>0 DEF Holds, Current
    <3> QED
      BY <2>1, <3>1, <3>2 DEF Without, Taken
  <2>3. G = {k \in DOMAIN timers : timers[k] <= now} \/ Cardinality(G) = Batch
    BY <2>0, <2>1, TakenElapsed
  <2> QED
    BY <2>1, <2>2, <2>3 DEF Taken, left
<1> QED
  BY <1>1, TimersInvariant, PTL

-----------------------------------------------------------------------------
(* SortedSet: the skip list and its reads, for any members, scores and     *)
(* levels, and after any sequence of commands.                             *)

\* The header and the nodes whose towers reach level i.
On(l, i) == {n \in DOMAIN l.score : i \in DOMAIN l.forward[n]}
Linked(l, i) == On(l, i) \cup {Header}

\* The fields of a list are functions of its nodes, and no tower is above the level.
Shape(l) ==
  /\ DOMAIN l.score \subseteq Member
  /\ \A n \in DOMAIN l.score : l.score[n] \in Score
  /\ l.level \in 1..MaxLevel /\ l.length \in Nat
  /\ DOMAIN l.forward = DOMAIN l.score \cup {Header}
  /\ DOMAIN l.span = DOMAIN l.score \cup {Header}
  /\ DOMAIN l.backward = DOMAIN l.score
  /\ DOMAIN l.forward[Header] = 1..MaxLevel /\ DOMAIN l.span[Header] = 1..MaxLevel
  /\ \A n \in DOMAIN l.score :
       \E h \in 1..l.level : DOMAIN l.forward[n] = 1..h /\ DOMAIN l.span[n] = 1..h

\* P numbers the nodes from 1 on, in the order of compareNodes; the header is 0.
Numbered(l, P) ==
  /\ DOMAIN P = DOMAIN l.score \cup {Header} /\ P[Header] = 0
  /\ \A n \in DOMAIN l.score : P[n] \in 1..l.length
  /\ \A k \in 1..l.length : \E n \in DOMAIN l.score : P[n] = k
  /\ \A m, n \in DOMAIN l.score :
       /\ P[m] = P[n] => m = n
       /\ P[m] < P[n] <=> Precedes(l.score[m], m, l.score[n], n)

\* x is the first node of level i beyond position p, or Nil when there is none.
FirstPast(l, P, i, p, x) ==
  \/ x = Nil /\ \A y \in On(l, i) : P[y] <= p
  \/ /\ x \in On(l, i) /\ p < P[x]
     /\ \A y \in On(l, i) : p < P[y] => P[x] <= P[y]
\* The position a link leads to; Nil is after the last node.
Reach(l, P, x) == IF x = Nil THEN l.length ELSE P[x]

\* Every link leads to the next node of its level, and its span is the distance.
LinksExact(l, P) ==
  \A i \in 1..MaxLevel : \A n \in Linked(l, i) :
    /\ FirstPast(l, P, i, P[n], l.forward[n][i])
    /\ i <= l.level => l.span[n][i] = Reach(l, P, l.forward[n][i]) - P[n]
\* The backward links lead to the node before, and the tail is the last.
BackExact(l, P) ==
  /\ \A n \in DOMAIN l.score :
       \/ P[n] = 1 /\ l.backward[n] = Nil
       \/ l.backward[n] \in DOMAIN l.score /\ P[l.backward[n]] = P[n] - 1
  /\ \/ l.length = 0 /\ l.tail = Nil
     \/ l.tail \in DOMAIN l.score /\ P[l.tail] = l.length

Sound(l, P) == Shape(l) /\ Numbered(l, P) /\ LinksExact(l, P) /\ BackExact(l, P)

\* A recursive function over 0..n exists, and stays in the set its steps stay in.
Iterates(f, n, init, step) == f = [k \in 0..n |-> IF k = 0 THEN init ELSE step[k][f[k - 1]]]

LEMMA Iteration ==
  ASSUME NEW n \in Nat, NEW V, NEW init \in V, NEW step,
         \A k \in 1..n : \A v \in V : step[k][v] \in V
  PROVE  \E f : Iterates(f, n, init, step) /\ \A k \in 0..n : f[k] \in V
<1> DEFINE IsLoop(j, f) ==
             f = [k \in 0..j |-> IF k = 0 THEN init ELSE step[k][f[k - 1]]]
           I == {j \in Nat : \E f : IsLoop(j, f)}
<1>1. 0 \in I
  <2> DEFINE f == [k \in 0..0 |-> init]
             g == [k \in 0..0 |-> IF k = 0 THEN init ELSE step[k][f[k - 1]]]
  <2>1. \A k \in 0..0 : f[k] = g[k]
    OBVIOUS
  <2>2. IsLoop(0, f)
    BY <2>1
  <2> HIDE DEF IsLoop, f
  <2> QED
    BY <2>2
<1>2. ASSUME NEW j \in Nat, j \in I PROVE j + 1 \in I
  <2>1. PICK f : IsLoop(j, f)
    BY <1>2
  <2> DEFINE g == [k \in 0..(j + 1) |-> IF k = j + 1 THEN step[j + 1][f[j]] ELSE f[k]]
             h == [k \in 0..(j + 1) |-> IF k = 0 THEN init ELSE step[k][g[k - 1]]]
  <2>2. ASSUME NEW k \in 0..(j + 1) PROVE g[k] = h[k]
    <3>1. CASE k = j + 1
      <4>1. k - 1 = j /\ j \in 0..(j + 1) /\ j # j + 1 /\ k # 0
        BY <3>1
      <4> QED
        BY <3>1, <4>1
    <3>2. CASE k # j + 1
      <4>1. k \in 0..j
        BY <3>2
      <4>2. f[k] = IF k = 0 THEN init ELSE step[k][f[k - 1]]
        BY <2>1, <4>1
      <4>3. k # 0 => k - 1 \in 0..(j + 1) /\ k - 1 # j + 1
        BY <4>1
      <4>4. k # 0 => g[k - 1] = f[k - 1]
        BY <4>3
      <4> QED
        BY <3>2, <4>1, <4>2, <4>4
    <3> QED
      BY <3>1, <3>2
  <2>3. g = h
    BY <2>2
  <2>4. IsLoop(j + 1, g)
    BY <2>3
  <2> HIDE DEF IsLoop, g
  <2> QED
    BY <2>4
<1> HIDE DEF I
<1>3. Nat \subseteq I
  BY ONLY <1>1, <1>2, Induction
<1>4. PICK f : IsLoop(n, f)
  BY <1>3 DEF I
<1> DEFINE J == {k \in Nat : k \in 0..n => f[k] \in V}
<1>5. f[0] = init /\ \A k \in 1..n : f[k] = step[k][f[k - 1]]
  BY <1>4
<1>6. 0 \in J
  BY <1>5
<1>7. ASSUME NEW k \in Nat, k \in J PROVE k + 1 \in J
  <2> SUFFICES ASSUME k + 1 \in 0..n PROVE f[k + 1] \in V
    OBVIOUS
  <2>1. k \in 0..n /\ k + 1 \in 1..n /\ (k + 1) - 1 = k
    OBVIOUS
  <2>2. f[k] \in V
    BY <1>7, <2>1
  <2>3. f[k + 1] = step[k + 1][f[k]]
    BY <1>5, <2>1
  <2> QED
    BY <2>1, <2>2, <2>3
<1> HIDE DEF J
<1>8. Nat \subseteq J
  BY ONLY <1>6, <1>7, Induction
<1>9. \A k \in 0..n : f[k] \in V
  BY <1>8 DEF J
<1> QED
  BY <1>4, <1>9 DEF Iterates

\* The last node of level i up to position c.
LastBy(l, P, i, c, y) ==
  /\ y \in Linked(l, i) /\ P[y] <= c
  /\ \A z \in On(l, i) : P[z] <= c => P[z] <= P[y]
PlaceOf(P, x) == [node |-> x, rank |-> P[x]]
\* The near places are those of the nodes up to position c.
NearBy(l, P, near, c) ==
  /\ \A p \in near : p.node \in DOMAIN l.score
  /\ \A n \in DOMAIN l.score : PlaceOf(P, n) \in near <=> P[n] <= c

\* What a Sound list says of one node of a level and of its link.
LEMMA LinkIs ==
  ASSUME NEW l, NEW P, Sound(l, P), NEW i \in 1..l.level, NEW x \in Linked(l, i)
  PROVE  /\ P[x] \in 0..l.length /\ l.length \in Nat /\ i \in 1..MaxLevel
         /\ FirstPast(l, P, i, P[x], l.forward[x][i])
         /\ l.span[x][i] = Reach(l, P, l.forward[x][i]) - P[x]
         /\ Nil \notin DOMAIN l.score
         /\ \A y \in On(l, i) : y \in DOMAIN l.score /\ P[y] \in 1..l.length
         /\ IF l.forward[x][i] = Nil THEN \A y \in On(l, i) : P[y] <= P[x]
            ELSE /\ l.forward[x][i] \in On(l, i) /\ P[x] < P[l.forward[x][i]]
                 /\ \A y \in On(l, i) : P[x] < P[y] => P[l.forward[x][i]] <= P[y]
<1>0. /\ l.level \in 1..MaxLevel /\ MaxLevel \in Nat /\ Nil \notin Member
      /\ DOMAIN l.score \subseteq Member /\ l.length \in Nat
  BY ZsetAssumption DEF Sound, Shape
<1>1. i \in 1..MaxLevel
  BY <1>0
<1>2. P[x] \in 0..l.length
  BY <1>0 DEF Sound, Numbered, Linked, On
<1>3. /\ FirstPast(l, P, i, P[x], l.forward[x][i])
      /\ l.span[x][i] = Reach(l, P, l.forward[x][i]) - P[x]
  BY <1>0, <1>1 DEF Sound, LinksExact
<1>4. \A y \in On(l, i) : y \in DOMAIN l.score /\ P[y] \in 1..l.length
  BY DEF On, Sound, Numbered
<1>5. Nil \notin On(l, i)
  BY <1>0 DEF On
<1>6. IF l.forward[x][i] = Nil THEN \A y \in On(l, i) : P[y] <= P[x]
      ELSE /\ l.forward[x][i] \in On(l, i) /\ P[x] < P[l.forward[x][i]]
           /\ \A y \in On(l, i) : P[x] < P[y] => P[l.forward[x][i]] <= P[y]
  BY <1>3, <1>5 DEF FirstPast
<1> QED
  BY <1>0, <1>1, <1>2, <1>3, <1>4, <1>6

\* Where one step from x goes: to the next node of the level, when it is by c.
Ahead(l, P, i, x, c) == l.forward[x][i] # Nil /\ P[l.forward[x][i]] <= c
StepTo(l, P, i, x, c) == IF Ahead(l, P, i, x, c) THEN l.forward[x][i] ELSE x

\* One round of a walk from x goes where StepTo says.
LEMMA OntoIs ==
  ASSUME NEW l, NEW P, Sound(l, P), NEW i \in 1..l.level, NEW x \in Linked(l, i),
         NEW near, NEW c \in Nat, NearBy(l, P, near, c)
  PROVE  Onto(l, i, PlaceOf(P, x), near) = PlaceOf(P, StepTo(l, P, i, x, c))
<1> DEFINE y == l.forward[x][i]
           next == [node |-> y, rank |-> P[x] + l.span[x][i]]
<1>1. Onto(l, i, PlaceOf(P, x), near) = IF next \in near THEN next ELSE PlaceOf(P, x)
  BY DEF Onto, PlaceOf
<1>2. CASE y = Nil
  <2>1. next \notin near
    BY <1>2, LinkIs DEF NearBy
  <2> QED
    BY <1>1, <1>2, <2>1 DEF StepTo, Ahead
<1>3. CASE y # Nil
  <2>1. /\ y \in DOMAIN l.score /\ P[y] \in 1..l.length /\ P[x] \in 0..l.length
        /\ l.length \in Nat /\ l.span[x][i] = P[y] - P[x]
    BY <1>3, LinkIs DEF Reach
  <2>2. P[x] + l.span[x][i] = P[y]
    BY <2>1
  <2>3. next = PlaceOf(P, y)
    BY <2>2 DEF PlaceOf
  <2>4. next \in near <=> P[y] <= c
    BY <2>1, <2>3 DEF NearBy
  <2>5. CASE P[y] <= c
    <3>1. StepTo(l, P, i, x, c) = y
      BY <1>3, <2>5 DEF StepTo, Ahead
    <3> QED
      BY <1>1, <2>3, <2>4, <2>5, <3>1
  <2>6. CASE ~(P[y] <= c)
    <3>1. StepTo(l, P, i, x, c) = x
      BY <2>6 DEF StepTo, Ahead
    <3> QED
      BY <1>1, <2>4, <2>6, <3>1
  <2> QED
    BY <2>5, <2>6
<1> QED
  BY <1>2, <1>3

\* One level of a descent ends at its last node by c.
LEMMA WalkIs ==
  ASSUME NEW l, NEW P, Sound(l, P), NEW i \in 1..l.level, NEW x \in Linked(l, i),
         NEW near, NEW c \in Nat, NearBy(l, P, near, c), P[x] <= c
  PROVE  \E y : LastBy(l, P, i, c, y) /\ Walk(l, i, PlaceOf(P, x), near) = PlaceOf(P, y)
<1> DEFINE N == l.length
           T == {y \in Linked(l, i) : P[y] <= c}
           V == {PlaceOf(P, y) : y \in T}
           from == PlaceOf(P, x)
           step == [k \in 1..N |-> [v \in V |-> Onto(l, i, v, near)]]
           Steps(f) == f = [k \in 0..N |-> IF k = 0 THEN from ELSE Onto(l, i, f[k - 1], near)]
<1>0. N \in Nat
  BY LinkIs
<1>1. ASSUME NEW y \in T
      PROVE  /\ Onto(l, i, PlaceOf(P, y), near) = PlaceOf(P, StepTo(l, P, i, y, c))
             /\ StepTo(l, P, i, y, c) \in T
             /\ P[y] < P[StepTo(l, P, i, y, c)] \/ LastBy(l, P, i, c, y)
             /\ P[y] \in Nat /\ P[StepTo(l, P, i, y, c)] \in Nat
             /\ StepTo(l, P, i, y, c) = y \/ P[y] < P[StepTo(l, P, i, y, c)]
  <2> DEFINE z == l.forward[y][i]
  <2>1. y \in Linked(l, i) /\ P[y] <= c
    OBVIOUS
  <2>2. Onto(l, i, PlaceOf(P, y), near) = PlaceOf(P, StepTo(l, P, i, y, c))
    BY <2>1, OntoIs
  <2>3. /\ P[y] \in Nat
        /\ \A w \in On(l, i) : P[w] \in Nat
        /\ IF z = Nil THEN \A w \in On(l, i) : P[w] <= P[y]
           ELSE /\ z \in On(l, i) /\ P[y] < P[z]
                /\ \A w \in On(l, i) : P[y] < P[w] => P[z] <= P[w]
    BY <2>1, LinkIs
  <2>4. CASE Ahead(l, P, i, y, c)
    <3>1. StepTo(l, P, i, y, c) = z /\ z # Nil /\ P[z] <= c
      BY <2>4 DEF StepTo, Ahead
    <3> QED
      BY <2>2, <2>3, <3>1 DEF Linked
  <2>5. CASE ~Ahead(l, P, i, y, c)
    <3>1. StepTo(l, P, i, y, c) = y /\ (z # Nil => ~(P[z] <= c))
      BY <2>5 DEF StepTo, Ahead
    <3>2. \A w \in On(l, i) : P[w] <= c => P[w] <= P[y]
      BY <2>3, <3>1
    <3> QED
      BY <2>1, <2>2, <2>3, <3>1, <3>2 DEF LastBy
  <2> QED
    BY <2>4, <2>5
<1>2. \A v \in V : Onto(l, i, v, near) \in V
  BY <1>1
<1>3. from \in V
  OBVIOUS
<1>4. \A k \in 1..N : \A v \in V : step[k][v] = Onto(l, i, v, near)
  OBVIOUS
<1> HIDE DEF V, step
<1>5. \A k \in 1..N : \A v \in V : step[k][v] \in V
  BY <1>2, <1>4
<1>6. PICK f : Iterates(f, N, from, step) /\ \A k \in 0..N : f[k] \in V
  <2> HIDE DEF N, from
  <2> QED
    BY ONLY <1>0, <1>3, <1>5, Iteration
<1>7. Steps(f)
  <2> DEFINE g == [k \in 0..N |-> IF k = 0 THEN from ELSE Onto(l, i, f[k - 1], near)]
  <2>1. \A k \in 0..N : k # 0 => k \in 1..N /\ k - 1 \in 0..N
    BY <1>0
  <2> HIDE DEF from
  <2>2. f = [k \in 0..N |-> IF k = 0 THEN from ELSE step[k][f[k - 1]]]
    BY <1>6 DEF Iterates
  <2>3. \A k \in 0..N : f[k] = g[k]
    BY <1>4, <1>6, <2>1, <2>2
  <2>4. f = g
    BY <2>2, <2>3
  <2> QED
    BY <2>4
<1> DEFINE at == CHOOSE g : Steps(g)
<1>8. Walk(l, i, from, near) = at[N]
  BY DEF Walk
<1>9. Steps(at)
  BY <1>7
<1> HIDE DEF at, from
<1>10. at[0] = from /\ \A k \in 1..N : at[k] = Onto(l, i, at[k - 1], near)
  BY <1>0, <1>9
<1> DEFINE Arrived(k, y) ==
             y \in T /\ at[k] = PlaceOf(P, y) /\ (k <= P[y] \/ LastBy(l, P, i, c, y))
           I == {k \in Nat : k \in 0..N => \E y : Arrived(k, y)}
<1>11. 0 \in I
  <2>1. at[0] = PlaceOf(P, x) /\ x \in T
    BY <1>10 DEF from
  <2>2. P[x] \in Nat
    BY LinkIs
  <2>3. Arrived(0, x)
    BY <2>1, <2>2
  <2> HIDE DEF Arrived
  <2> QED
    BY <2>3
<1>12. ASSUME NEW k \in Nat, k \in I PROVE k + 1 \in I
  <2> SUFFICES ASSUME k + 1 \in 0..N PROVE \E y : Arrived(k + 1, y)
    OBVIOUS
  <2>1. k \in 0..N /\ k + 1 \in 1..N /\ (k + 1) - 1 = k
    BY <1>0
  <2>2. PICK y : Arrived(k, y)
    BY <1>12, <2>1
  <2> DEFINE w == StepTo(l, P, i, y, c)
  <2>3. at[k + 1] = PlaceOf(P, w) /\ w \in T
    BY <1>1, <1>10, <2>1, <2>2
  <2>4. /\ P[y] \in Nat /\ P[w] \in Nat
        /\ P[y] < P[w] \/ LastBy(l, P, i, c, y)
        /\ w = y \/ P[y] < P[w]
    BY <1>1, <2>2
  <2> HIDE DEF w
  <2>5. k + 1 <= P[w] \/ LastBy(l, P, i, c, w)
    <3>1. CASE P[y] < P[w]
      <4>1. ~LastBy(l, P, i, c, y)
        <5>1. w \in Linked(l, i) /\ P[w] <= c
          BY <2>3
        <5>2. y \in Linked(l, i) /\ P[y] \in Nat /\ P[Header] = 0
          BY <2>2, <2>4 DEF Sound, Numbered
        <5>3. w \in On(l, i)
          BY <2>4, <3>1, <5>1, <5>2 DEF Linked
        <5> QED
          BY <2>4, <3>1, <5>1, <5>3 DEF LastBy
      <4> QED
        BY <2>2, <2>4, <3>1, <4>1
    <3>2. CASE ~(P[y] < P[w])
      BY <2>4, <3>2
    <3> QED
      BY <3>1, <3>2
  <2>6. Arrived(k + 1, w)
    BY <2>3, <2>5
  <2> HIDE DEF Arrived
  <2> QED
    BY <2>6
<1> HIDE DEF I
<1>13. Nat \subseteq I
  BY ONLY <1>11, <1>12, Induction
<1>14. N \in 0..N
  BY <1>0
<1>15. PICK y : Arrived(N, y)
  BY <1>0, <1>13, <1>14 DEF I
<1>16. LastBy(l, P, i, c, y)
  <2>1. y \in Linked(l, i) /\ P[y] <= c /\ P[y] \in 0..N
    BY <1>15, LinkIs
  <2>2. CASE N <= P[y]
    <3>1. \A u \in On(l, i) : P[u] \in 0..N
      BY LinkIs DEF Linked
    <3> QED
      BY <1>0, <2>1, <2>2, <3>1 DEF LastBy
  <2> QED
    BY <1>15, <2>2
<1> QED
  BY <1>8, <1>15, <1>16 DEF from

\* Every level of a descent ends at its last node by c.
LEMMA DescentIs ==
  ASSUME NEW l, NEW P, Sound(l, P), NEW near, NEW c \in Nat, NearBy(l, P, near, c)
  PROVE  \A i \in 1..l.level :
           \E y : LastBy(l, P, i, c, y) /\ Descent(l, near)[i] = PlaceOf(P, y)
<1> DEFINE high == l.level
           V == {PlaceOf(P, y) : y \in DOMAIN l.score \cup {Header}}
           Here(i) == {y \in Linked(l, i) : P[y] <= c}
           Sat(i, v) == \E y \in Here(i) : v = PlaceOf(P, y)
           body(i, v) == IF Sat(i, v) THEN Walk(l, i, v, near) ELSE Top
           step == [k \in 1..high |-> [v \in V |-> body(high - k + 1, v)]]
           Stops(f) == f = [i \in 1..high |-> Walk(l, i, IF i = high THEN Top ELSE f[i + 1], near)]
<1>0. high \in Nat \ {0} /\ P[Header] = 0 /\ Top = PlaceOf(P, Header) /\ Header \in Here(high)
  BY ZsetAssumption DEF Sound, Shape, Numbered, Top, PlaceOf, Linked
<1>1. ASSUME NEW i \in 1..high, NEW x \in Here(i)
      PROVE  \E y : LastBy(l, P, i, c, y) /\ Walk(l, i, PlaceOf(P, x), near) = PlaceOf(P, y)
  BY WalkIs
<1>2. ASSUME NEW i \in 1..high, i # 1, NEW y, LastBy(l, P, i, c, y)
      PROVE  y \in Here(i - 1) /\ i - 1 \in 1..high
  <2>1. i - 1 \in 1..high
    BY <1>0, <1>2
  <2>2. CASE y = Header
    BY <1>2, <2>1, <2>2 DEF LastBy, Linked
  <2>3. CASE y \in On(l, i)
    <3>1. PICK h \in 1..l.level : DOMAIN l.forward[y] = 1..h
      BY <2>3 DEF On, Sound, Shape
    <3>2. i - 1 \in 1..h
      BY <1>0, <2>1, <2>3, <3>1 DEF On
    <3> QED
      BY <1>2, <2>1, <2>3, <3>1, <3>2 DEF LastBy, Linked, On
  <2> QED
    BY <1>2, <2>2, <2>3 DEF LastBy, Linked
<1>3. ASSUME NEW i \in 1..high, NEW v PROVE body(i, v) \in V
  <2>1. CASE Sat(i, v)
    <3>1. PICK x \in Here(i) : v = PlaceOf(P, x)
      BY <2>1
    <3>2. PICK y : LastBy(l, P, i, c, y) /\ Walk(l, i, PlaceOf(P, x), near) = PlaceOf(P, y)
      BY <1>1
    <3>3. y \in DOMAIN l.score \cup {Header}
      BY <3>2 DEF LastBy, Linked, On
    <3> QED
      BY <2>1, <3>1, <3>2, <3>3
  <2>2. CASE ~Sat(i, v)
    BY <1>0, <2>2
  <2> QED
    BY <2>1, <2>2
<1>4. \A k \in 1..high : high - k + 1 \in 1..high
  BY <1>0
<1>5. Top \in V
  BY <1>0
<1> HIDE DEF Sat, V
<1>6. \A k \in 1..high : \A v \in V : step[k][v] = body(high - k + 1, v)
  OBVIOUS
<1> HIDE DEF body, step
<1>7. \A k \in 1..high : \A v \in V : step[k][v] \in V
  BY <1>3, <1>4, <1>6
<1>8. PICK f : Iterates(f, high, Top, step) /\ \A k \in 0..high : f[k] \in V
  <2>1. high \in Nat
    BY <1>0
  <2> HIDE DEF high
  <2> QED
    BY ONLY <1>5, <1>7, <2>1, Iteration
<1>9. f[0] = Top /\ \A k \in 1..high : f[k] = body(high - k + 1, f[k - 1])
  <2>1. f = [k \in 0..high |-> IF k = 0 THEN Top ELSE step[k][f[k - 1]]]
    BY <1>8 DEF Iterates
  <2>2. 0 \in 0..high /\ \A k \in 1..high : k \in 0..high /\ k # 0 /\ k - 1 \in 0..high
    BY <1>0
  <2> HIDE DEF high
  <2>3. f[0] = Top
    BY <2>1, <2>2
  <2>4. ASSUME NEW k \in 1..high PROVE f[k] = body(high - k + 1, f[k - 1])
    <3>1. f[k] = step[k][f[k - 1]]
      BY <2>1, <2>2
    <3>2. f[k - 1] \in V
      BY <1>8, <2>2
    <3> QED
      BY <1>6, <3>1, <3>2
  <2> QED
    BY <2>3, <2>4
<1> DEFINE Ends(i, v) == \E y : LastBy(l, P, i, c, y) /\ v = PlaceOf(P, y)
           I == {k \in Nat : k \in 1..high =>
                   /\ Sat(high - k + 1, f[k - 1])
                   /\ Ends(high - k + 1, f[k])}
<1>10. ASSUME NEW k \in 1..high, Sat(high - k + 1, f[k - 1]) PROVE Ends(high - k + 1, f[k])
  <2>1. high - k + 1 \in 1..high
    BY <1>4
  <2>2. PICK x \in Here(high - k + 1) : f[k - 1] = PlaceOf(P, x)
    BY <1>10 DEF Sat
  <2>3. PICK y : /\ LastBy(l, P, high - k + 1, c, y)
                 /\ Walk(l, high - k + 1, f[k - 1], near) = PlaceOf(P, y)
    BY <1>1, <2>1, <2>2
  <2> QED
    BY <1>9, <1>10, <2>3 DEF body
<1>11. 0 \in I
  OBVIOUS
<1>12. ASSUME NEW k \in Nat, k \in I PROVE k + 1 \in I
  <2> SUFFICES ASSUME k + 1 \in 1..high
               PROVE  /\ Sat(high - (k + 1) + 1, f[(k + 1) - 1])
                      /\ Ends(high - (k + 1) + 1, f[k + 1])
    OBVIOUS
  <2>1. (k + 1) - 1 = k /\ high - (k + 1) + 1 = high - k
    BY <1>0
  <2>2. Sat(high - (k + 1) + 1, f[(k + 1) - 1])
    <3>1. CASE k = 0
      <4>1. f[(k + 1) - 1] = PlaceOf(P, Header) /\ high - (k + 1) + 1 = high
        BY <1>0, <1>9, <2>1, <3>1
      <4> QED
        BY <1>0, <4>1 DEF Sat
    <3>2. CASE k # 0
      <4>1. k \in 1..high /\ high - k + 1 \in 1..high /\ high - k + 1 # 1 /\ (high - k + 1) - 1 = high - (k + 1) + 1
        BY <1>0, <3>2
      <4>2. PICK y : LastBy(l, P, high - k + 1, c, y) /\ f[k] = PlaceOf(P, y)
        BY <1>12, <4>1
      <4>3. y \in Here(high - (k + 1) + 1)
        BY <1>2, <4>1, <4>2
      <4> QED
        BY <2>1, <4>2, <4>3 DEF Sat
    <3> QED
      BY <3>1, <3>2
  <2>3. Ends(high - (k + 1) + 1, f[k + 1])
    BY <1>10, <2>2
  <2> QED
    BY <2>2, <2>3
<1> HIDE DEF I
<1>13. Nat \subseteq I
  BY ONLY <1>11, <1>12, Induction
<1>14. ASSUME NEW k \in 1..high PROVE Sat(high - k + 1, f[k - 1]) /\ Ends(high - k + 1, f[k])
  <2>1. k \in Nat
    BY <1>0
  <2> QED
    BY <1>13, <2>1 DEF I
<1>15. ASSUME NEW i \in 1..high
       PROVE /\ high - i + 1 \in 1..high /\ high - (high - i + 1) + 1 = i
             /\ f[high - i + 1] = Walk(l, i, IF i = high THEN Top ELSE f[high - (i + 1) + 1], near)
  <2>1. high - i + 1 \in 1..high /\ high - (high - i + 1) + 1 = i /\ (high - i + 1) - 1 = high - (i + 1) + 1
    BY <1>0
  <2>2. f[high - i + 1] = Walk(l, i, f[(high - i + 1) - 1], near)
    BY <1>9, <1>14, <2>1 DEF body
  <2>3. i = high => (high - i + 1) - 1 = 0
    BY <1>0
  <2> QED
    BY <1>9, <2>1, <2>2, <2>3
<1> DEFINE g == [i \in 1..high |-> f[high - i + 1]]
           h == [i \in 1..high |-> Walk(l, i, IF i = high THEN Top ELSE g[i + 1], near)]
<1>16. \A i \in 1..high : i # high => i + 1 \in 1..high
  BY <1>0
<1>17. \A i \in 1..high : g[i] = h[i]
  BY <1>15, <1>16
<1>18. g = h
  BY <1>17
<1>19. \E e : Stops(e)
  BY <1>18
<1> DEFINE stop == CHOOSE e : Stops(e)
<1>20. Descent(l, near) = stop
  BY DEF Descent
<1>21. Stops(stop)
  BY <1>19
<1> HIDE DEF stop, g, h
<1>22. \A i \in 1..high : stop[i] = Walk(l, i, IF i = high THEN Top ELSE stop[i + 1], near)
  BY <1>21
<1> DEFINE J == {k \in Nat : k \in 1..high => stop[high - k + 1] = f[k]}
<1>23. 0 \in J
  OBVIOUS
<1>24. ASSUME NEW k \in Nat, k \in J PROVE k + 1 \in J
  <2> SUFFICES ASSUME k + 1 \in 1..high PROVE stop[high - (k + 1) + 1] = f[k + 1]
    OBVIOUS
  <2> DEFINE i == high - (k + 1) + 1
  <2>1. /\ i \in 1..high /\ high - i + 1 = k + 1
        /\ (i # high => k \in 1..high /\ i + 1 = high - k + 1 /\ high - (i + 1) + 1 = k)
    BY <1>0
  <2>2. stop[i] = Walk(l, i, IF i = high THEN Top ELSE stop[i + 1], near)
    BY <1>22, <2>1
  <2>3. f[high - i + 1] = Walk(l, i, IF i = high THEN Top ELSE f[high - (i + 1) + 1], near)
    BY <1>15, <2>1
  <2>4. i # high => stop[i + 1] = f[high - (i + 1) + 1]
    BY <1>24, <2>1
  <2> QED
    BY <2>1, <2>2, <2>3, <2>4
<1> HIDE DEF J
<1>25. Nat \subseteq J
  BY ONLY <1>23, <1>24, Induction
<1>26. ASSUME NEW i \in 1..high
       PROVE  \E y : LastBy(l, P, i, c, y) /\ stop[i] = PlaceOf(P, y)
  <2>1. high - i + 1 \in 1..high /\ high - i + 1 \in Nat /\ high - (high - i + 1) + 1 = i
    BY <1>0
  <2>2. stop[i] = f[high - i + 1]
    BY <1>25, <2>1 DEF J
  <2>3. Ends(i, f[high - i + 1])
    BY <1>14, <2>1
  <2> QED
    BY <2>2, <2>3
<1> QED
  BY <1>20, <1>26

\* The order of compareNodes is total.
LEMMA PrecedesOrder ==
  /\ \A s, t \in Int, m, n \in Int :
       /\ ~(Precedes(s, m, t, n) /\ Precedes(t, n, s, m))
       /\ ~Precedes(s, m, s, m)
       /\ Precedes(s, m, t, n) \/ Precedes(t, n, s, m) \/ (s = t /\ m = n)
  /\ \A s, t, u \in Int, m, n, o \in Int :
       Precedes(s, m, t, n) /\ Precedes(t, n, u, o) => Precedes(s, m, u, o)
BY DEF Precedes

\* A set of nodes that holds all before each of its own is the nodes up to a position.
LEMMA CutAt ==
  ASSUME NEW l, NEW P, Numbered(l, P), l.length \in Nat, NEW S \in SUBSET DOMAIN l.score,
         \A m \in S, n \in DOMAIN l.score : P[n] < P[m] => n \in S
  PROVE  \E c \in 0..l.length : \A n \in DOMAIN l.score : n \in S <=> P[n] <= c
<1> DEFINE N == l.length
           T == {k \in 0..N : \A n \in S : P[n] <= k}
<1>1. \A n \in DOMAIN l.score : P[n] \in 1..N
  BY DEF Numbered
<1>2. N \in T
  BY <1>1
<1>3. PICK c \in T : \A k \in T : c <= k
  <2>1. T \subseteq Nat /\ T # {}
    BY <1>2
  <2> HIDE DEF T
  <2> QED
    BY <2>1, LeastNumber
<1>4. c \in 0..N /\ \A n \in S : P[n] <= c
  BY <1>3
<1>5. ASSUME NEW n \in DOMAIN l.score, P[n] <= c PROVE n \in S
  <2>1. c # 0 /\ c - 1 \in 0..N /\ ~(c <= c - 1)
    BY <1>1, <1>4, <1>5
  <2>2. c - 1 \notin T
    BY <1>3, <2>1
  <2>3. PICK m \in S : ~(P[m] <= c - 1)
    BY <2>1, <2>2
  <2>4. P[m] = c
    BY <1>1, <1>4, <2>1, <2>3
  <2>5. P[n] = P[m] => n = m
    BY DEF Numbered
  <2> QED
    BY <1>1, <1>4, <1>5, <2>4, <2>5
<1> QED
  BY <1>4, <1>5

\* What a Sound list says of its nodes, as numbers.
LEMMA NodesIn ==
  ASSUME NEW l, NEW P, Sound(l, P)
  PROVE  /\ l.length \in Nat /\ l.level \in Nat \ {0} /\ l.level <= MaxLevel /\ MaxLevel \in Nat
         /\ P[Header] = 0 /\ Header \notin DOMAIN l.score /\ Nil \notin DOMAIN l.score
         /\ Header # Nil
         /\ \A n \in DOMAIN l.score :
              /\ n \in Member /\ n \in Int /\ l.score[n] \in Score /\ l.score[n] \in Int
              /\ P[n] \in 1..l.length /\ 1 \in DOMAIN l.forward[n]
<1>1. /\ l.length \in Nat /\ l.level \in 1..MaxLevel /\ MaxLevel \in Nat \ {0}
      /\ DOMAIN l.score \subseteq Member /\ \A n \in DOMAIN l.score : l.score[n] \in Score
      /\ Member \subseteq Int /\ Score \subseteq Int
      /\ Header \notin Member /\ Nil \notin Member /\ Header # Nil
  BY ZsetAssumption DEF Sound, Shape
<1>2. P[Header] = 0 /\ \A n \in DOMAIN l.score : P[n] \in 1..l.length
  BY DEF Sound, Numbered
<1>3. ASSUME NEW n \in DOMAIN l.score PROVE 1 \in DOMAIN l.forward[n]
  <2>1. PICK h \in 1..l.level : DOMAIN l.forward[n] = 1..h
    BY DEF Sound, Shape
  <2> QED
    BY <1>1, <2>1
<1>4. \A n \in DOMAIN l.score :
        n \in Member /\ n \in Int /\ l.score[n] \in Score /\ l.score[n] \in Int
  BY <1>1
<1>5. /\ l.level \in Nat \ {0} /\ l.level <= MaxLevel /\ MaxLevel \in Nat
      /\ Header \notin DOMAIN l.score /\ Nil \notin DOMAIN l.score
  BY <1>1
<1> QED
  BY <1>1, <1>2, <1>3, <1>4, <1>5

\* The nodes before (s, m) are those up to a position.
LEMMA BeforeIs ==
  ASSUME NEW l, NEW P, Sound(l, P), NEW s \in Score, NEW m \in Member
  PROVE  \E c \in 0..l.length :
           /\ NearBy(l, P, PlacesBefore(l, s, m), c)
           /\ \A n \in DOMAIN l.score : P[n] <= c <=> Precedes(l.score[n], n, s, m)
<1> DEFINE S == {n \in DOMAIN l.score : Precedes(l.score[n], n, s, m)}
<1>0. s \in Int /\ m \in Int
  BY ZsetAssumption
<1>1. ASSUME NEW k \in S, NEW n \in DOMAIN l.score, P[n] < P[k] PROVE n \in S
  <2>1. Precedes(l.score[n], n, l.score[k], k)
    BY <1>1 DEF Sound, Numbered
  <2>2. n \in Int /\ k \in Int /\ l.score[n] \in Int /\ l.score[k] \in Int
    BY NodesIn
  <2> QED
    BY <1>0, <2>1, <2>2, PrecedesOrder
<1>2. PICK c \in 0..l.length : \A n \in DOMAIN l.score : n \in S <=> P[n] <= c
  <2>1. Numbered(l, P) /\ l.length \in Nat /\ S \in SUBSET DOMAIN l.score
    BY NodesIn DEF Sound
  <2> HIDE DEF S
  <2> QED
    BY <1>1, <2>1, CutAt
<1>3. ASSUME NEW n \in DOMAIN l.score
      PROVE  PlaceOf(P, n) \in PlacesBefore(l, s, m) <=> n \in S
  <2>1. P[n] \in Int
    BY NodesIn
  <2> QED
    BY <2>1 DEF PlacesBefore, Place, PlaceOf
<1>4. NearBy(l, P, PlacesBefore(l, s, m), c)
  BY <1>2, <1>3 DEF NearBy, PlacesBefore, Place
<1> QED
  BY <1>2, <1>4

\* On the first level a walk ends exactly at the position.
LEMMA LastOnFirst ==
  ASSUME NEW l, NEW P, Sound(l, P), NEW c \in 0..l.length, NEW y, LastBy(l, P, 1, c, y)
  PROVE  P[y] = c
<1>1. y \in DOMAIN l.score \cup {Header} /\ P[y] <= c
  BY DEF LastBy, Linked, On
<1>2. P[y] \in Nat
  BY <1>1, NodesIn
<1>3. CASE c = 0
  BY <1>1, <1>2, <1>3
<1>4. CASE c # 0
  <2>1. PICK n \in DOMAIN l.score : P[n] = c
    BY <1>4, NodesIn DEF Sound, Numbered
  <2>2. n \in On(l, 1)
    BY NodesIn DEF On
  <2> QED
    BY <1>1, <1>2, <2>1, <2>2 DEF LastBy
<1> QED
  BY <1>3, <1>4

\* Two walks of a level that end by the same position end at the same node.
LEMMA LastIsOne ==
  ASSUME NEW l, NEW P, Sound(l, P), NEW i, NEW c \in Nat,
         NEW y, NEW z, LastBy(l, P, i, c, y), LastBy(l, P, i, c, z)
  PROVE  y = z
<1>1. /\ y \in DOMAIN l.score \cup {Header} /\ z \in DOMAIN l.score \cup {Header}
      /\ P[y] <= c /\ P[z] <= c
      /\ y # Header => P[y] <= P[z]
      /\ z # Header => P[z] <= P[y]
  BY DEF LastBy, Linked, On
<1>2. P[y] \in Nat /\ P[z] \in Nat /\ (P[y] = 0 <=> y = Header) /\ (P[z] = 0 <=> z = Header)
  BY <1>1, NodesIn
<1>3. P[y] = P[z] /\ y # Header => y = z
  BY <1>1, <1>2 DEF Sound, Numbered
<1> QED
  BY <1>1, <1>2, <1>3

LEMMA MaxOfTwo ==
  ASSUME NEW a \in Int, NEW b \in Int
  PROVE  Max({a, b}) = IF a >= b THEN a ELSE b
<1> DEFINE m == IF a >= b THEN a ELSE b
<1>1. m \in {a, b} /\ \A y \in {a, b} : m >= y
  OBVIOUS
<1>2. \A x \in {a, b} : (\A y \in {a, b} : x >= y) => x = m
  OBVIOUS
<1> QED
  BY <1>1, <1>2 DEF Max

\* The towers of a node: its links and its spans, from level 1 up.
LEMMA TowersIn ==
  ASSUME NEW l, NEW P, Sound(l, P), NEW n \in DOMAIN l.score \cup {Header}
  PROVE  /\ n \in DOMAIN l.forward /\ n \in DOMAIN l.span
         /\ DOMAIN l.forward[n] = DOMAIN l.span[n]
         /\ \A i \in DOMAIN l.forward[n] : i \in 1..MaxLevel /\ i \in Int /\ 1 <= i
         /\ n # Header => \A i \in DOMAIN l.forward[n] : i \in 1..l.level
<1>0. MaxLevel \in Nat /\ l.level \in Nat /\ l.level <= MaxLevel
  BY NodesIn
<1>1. CASE n = Header
  BY <1>0, <1>1 DEF Sound, Shape
<1>2. CASE n \in DOMAIN l.score
  <2>1. PICK h \in 1..l.level : DOMAIN l.forward[n] = 1..h /\ DOMAIN l.span[n] = 1..h
    BY <1>2 DEF Sound, Shape
  <2> QED
    BY <1>0, <1>2, <2>1 DEF Sound, Shape
<1> QED
  BY <1>1, <1>2

\* The list after an insertion, field by field: u[i] is the node the walk of level i
\* ends at, c the position of the last node before the new one.
Inserted(l, P, s, m, newLevel, k, u, c) ==
  /\ k.score = [n \in DOMAIN l.score \cup {m} |-> IF n = m THEN s ELSE l.score[n]]
  /\ k.level = (IF l.level >= newLevel THEN l.level ELSE newLevel)
  /\ k.length = l.length + 1
  /\ DOMAIN k.forward = DOMAIN l.forward \cup {m} /\ DOMAIN k.span = DOMAIN l.span \cup {m}
  /\ DOMAIN k.backward = DOMAIN l.backward \cup {m}
  /\ \A i \in 1..k.level : LastBy(l, P, i, c, u[i])
  /\ \A n \in DOMAIN l.forward :
       /\ DOMAIN k.forward[n] = DOMAIN l.forward[n]
       /\ \A i \in DOMAIN l.forward[n] :
            k.forward[n][i] = IF i <= newLevel /\ u[i] = n THEN m ELSE l.forward[n][i]
  /\ \A n \in DOMAIN l.span :
       /\ DOMAIN k.span[n] = DOMAIN l.span[n]
       /\ \A i \in DOMAIN l.span[n] :
            k.span[n][i] = IF i <= k.level /\ u[i] = n
                           THEN IF i <= newLevel THEN c - P[n] + 1 ELSE l.span[n][i] + 1
                           ELSE l.span[n][i]
  /\ DOMAIN k.forward[m] = 1..newLevel /\ DOMAIN k.span[m] = 1..newLevel
  /\ \A i \in 1..newLevel :
       /\ k.forward[m][i] = l.forward[u[i]][i]
       /\ k.span[m][i] = (IF i <= l.level THEN l.span[u[i]][i] ELSE l.length) - (c - P[u[i]])
  /\ \A n \in DOMAIN l.backward :
       k.backward[n] = IF n = l.forward[u[1]][1] THEN m ELSE l.backward[n]
  /\ k.backward[m] = IF u[1] = Header THEN Nil ELSE u[1]
  /\ k.tail = IF l.forward[u[1]][1] = Nil THEN m ELSE l.tail

\* insert, told by positions: u[i] is the last node of level i before the new one.
LEMMA InsertIs ==
  ASSUME NEW l, NEW P, Sound(l, P), NEW s \in Score, NEW m \in Member, m \notin DOMAIN l.score,
         NEW newLevel \in 1..MaxLevel
  PROVE  \E c \in 0..l.length : \E u :
           /\ Inserted(l, P, s, m, newLevel, Insert(l, s, m, newLevel), u, c)
           /\ \A n \in DOMAIN l.score : P[n] <= c <=> Precedes(l.score[n], n, s, m)
<1> DEFINE k == Insert(l, s, m, newLevel)
           high == Max({l.level, newLevel})
           path == Descent(l, PlacesBefore(l, s, m))
           at == [i \in 1..high |-> IF i <= l.level THEN path[i] ELSE Top]
           u == [i \in 1..high |-> at[i].node]
<1>0. /\ high = (IF l.level >= newLevel THEN l.level ELSE newLevel)
      /\ high \in Nat /\ 1 <= high /\ l.level <= high /\ newLevel <= high /\ newLevel \in Nat
      /\ high <= MaxLevel /\ l.level \in Nat
  BY NodesIn, MaxOfTwo
<1>1. PICK c \in 0..l.length :
        /\ NearBy(l, P, PlacesBefore(l, s, m), c)
        /\ \A n \in DOMAIN l.score : P[n] <= c <=> Precedes(l.score[n], n, s, m)
  BY BeforeIs
<1>2. ASSUME NEW i \in 1..high PROVE LastBy(l, P, i, c, u[i]) /\ at[i] = PlaceOf(P, u[i])
  <2>1. CASE i <= l.level
    <3>1. i \in 1..l.level /\ c \in Nat /\ at[i] = path[i] /\ u[i] = at[i].node
      BY <1>0, <2>1, NodesIn
    <3>2. PICK y : LastBy(l, P, i, c, y) /\ path[i] = PlaceOf(P, y)
      BY <1>1, <3>1, DescentIs
    <3>3. u[i] = y
      BY <3>1, <3>2 DEF PlaceOf
    <3> QED
      BY <3>1, <3>2, <3>3
  <2>2. CASE ~(i <= l.level)
    <3>1. at[i] = Top /\ u[i] = Header
      BY <2>2 DEF Top
    <3>2. Top = PlaceOf(P, Header) /\ P[Header] <= c /\ Header \in Linked(l, i)
      BY <1>1, NodesIn DEF Top, PlaceOf, Linked
    <3>3. On(l, i) = {}
      <4>1. ASSUME NEW n \in DOMAIN l.score PROVE i \notin DOMAIN l.forward[n]
        <5>1. PICK h \in 1..l.level : DOMAIN l.forward[n] = 1..h
          BY DEF Sound, Shape
        <5> QED
          BY <1>0, <2>2, <5>1
      <4> QED
        BY <4>1 DEF On
    <3> QED
      BY <3>1, <3>2, <3>3 DEF LastBy
  <2> QED
    BY <2>1, <2>2
<1>3. ASSUME NEW i \in 1..high PROVE at[i].node = u[i] /\ at[i].rank = P[u[i]]
  <2>1. at[i] = PlaceOf(P, u[i])
    BY <1>2
  <2> HIDE DEF at, u
  <2> QED
    BY <2>1 DEF PlaceOf
<1>4. 1 \in 1..high /\ P[u[1]] = c /\ \A i \in 1..newLevel : i \in 1..high
  BY <1>0, <1>2, LastOnFirst
<1> DEFINE span(i) == IF i <= l.level THEN l.span[at[i].node][i] ELSE l.length
           behind(i) == at[1].rank - at[i].rank
           after == l.forward[at[1].node][1]
           Redirected(n, i) == IF i <= newLevel /\ at[i].node = n THEN m ELSE l.forward[n][i]
           Respanned(n, i) ==
             IF i > high \/ at[i].node # n THEN l.span[n][i]
             ELSE IF i <= newLevel THEN behind(i) + 1 ELSE l.span[n][i] + 1
           forward == [n \in DOMAIN l.forward |-> [i \in DOMAIN l.forward[n] |-> Redirected(n, i)]]
           spans == [n \in DOMAIN l.span |-> [i \in DOMAIN l.span[n] |-> Respanned(n, i)]]
           backward == [n \in DOMAIN l.backward |-> IF n = after THEN m ELSE l.backward[n]]
<1>5. /\ k.forward = Extended(forward, m, [i \in 1..newLevel |-> l.forward[at[i].node][i]])
      /\ k.span = Extended(spans, m, [i \in 1..newLevel |-> span(i) - behind(i)])
      /\ k.backward = Extended(backward, m, IF at[1].node = Header THEN Nil ELSE at[1].node)
      /\ k.score = Extended(l.score, m, s)
      /\ k.tail = (IF after = Nil THEN m ELSE l.tail)
      /\ k.level = high /\ k.length = l.length + 1
  BY DEF Insert
<1> HIDE DEF k, at, u, high
<1>6. k.level = (IF l.level >= newLevel THEN l.level ELSE newLevel) /\ k.length = l.length + 1
  BY <1>0, <1>5
<1>7. k.score = [n \in DOMAIN l.score \cup {m} |-> IF n = m THEN s ELSE l.score[n]]
  BY <1>5 DEF Extended
<1>8. m # Header /\ m \notin DOMAIN l.forward /\ m \notin DOMAIN l.span /\ m \notin DOMAIN l.backward
  BY ZsetAssumption DEF Sound, Shape
<1>9. /\ DOMAIN k.forward = DOMAIN l.forward \cup {m}
      /\ k.forward[m] = [i \in 1..newLevel |-> l.forward[at[i].node][i]]
      /\ \A n \in DOMAIN l.forward :
           k.forward[n] = [i \in DOMAIN l.forward[n] |-> Redirected(n, i)]
  <2> DEFINE f == [n \in DOMAIN l.forward |-> [i \in DOMAIN l.forward[n] |-> Redirected(n, i)]]
             v == [i \in 1..newLevel |-> l.forward[at[i].node][i]]
  <2>1. DOMAIN f = DOMAIN l.forward /\ m \notin DOMAIN f
    BY <1>8
  <2>2. \A n \in DOMAIN f : f[n] = [i \in DOMAIN l.forward[n] |-> Redirected(n, i)]
    OBVIOUS
  <2>3. k.forward = Extended(f, m, v)
    BY <1>5
  <2> HIDE DEF f, v
  <2>4. DOMAIN k.forward = DOMAIN f \cup {m} /\ k.forward[m] = v
        /\ \A n \in DOMAIN f : k.forward[n] = f[n]
    BY <2>1, <2>3 DEF Extended
  <2> QED
    BY <2>1, <2>2, <2>4 DEF v
<1>10. /\ DOMAIN k.span = DOMAIN l.span \cup {m}
       /\ k.span[m] = [i \in 1..newLevel |-> span(i) - behind(i)]
       /\ \A n \in DOMAIN l.span : k.span[n] = [i \in DOMAIN l.span[n] |-> Respanned(n, i)]
  <2> DEFINE f == [n \in DOMAIN l.span |-> [i \in DOMAIN l.span[n] |-> Respanned(n, i)]]
             v == [i \in 1..newLevel |-> span(i) - behind(i)]
  <2>1. DOMAIN f = DOMAIN l.span /\ m \notin DOMAIN f
    BY <1>8
  <2>2. \A n \in DOMAIN f : f[n] = [i \in DOMAIN l.span[n] |-> Respanned(n, i)]
    OBVIOUS
  <2>3. k.span = Extended(f, m, v)
    BY <1>5
  <2> HIDE DEF f, v
  <2>4. DOMAIN k.span = DOMAIN f \cup {m} /\ k.span[m] = v
        /\ \A n \in DOMAIN f : k.span[n] = f[n]
    BY <2>1, <2>3 DEF Extended
  <2> QED
    BY <2>1, <2>2, <2>4 DEF v
<1>11. /\ DOMAIN k.backward = DOMAIN l.backward \cup {m}
       /\ k.backward[m] = IF at[1].node = Header THEN Nil ELSE at[1].node
       /\ \A n \in DOMAIN l.backward :
            k.backward[n] = IF n = after THEN m ELSE l.backward[n]
  <2> DEFINE f == [n \in DOMAIN l.backward |-> IF n = after THEN m ELSE l.backward[n]]
             v == IF at[1].node = Header THEN Nil ELSE at[1].node
  <2>1. DOMAIN f = DOMAIN l.backward /\ m \notin DOMAIN f
    BY <1>8
  <2>2. \A n \in DOMAIN f : f[n] = IF n = after THEN m ELSE l.backward[n]
    OBVIOUS
  <2>3. k.backward = Extended(f, m, v)
    BY <1>5
  <2> HIDE DEF f, v
  <2>4. DOMAIN k.backward = DOMAIN f \cup {m} /\ k.backward[m] = v
        /\ \A n \in DOMAIN f : k.backward[n] = f[n]
    BY <2>1, <2>3 DEF Extended
  <2> QED
    BY <2>1, <2>2, <2>4 DEF v
<1>12. after = l.forward[u[1]][1] /\ at[1].node = u[1]
  BY <1>3, <1>4
<1>13. ASSUME NEW n \in DOMAIN l.forward
       PROVE  /\ DOMAIN k.forward[n] = DOMAIN l.forward[n]
              /\ \A i \in DOMAIN l.forward[n] :
                   k.forward[n][i] = IF i <= newLevel /\ u[i] = n THEN m ELSE l.forward[n][i]
  <2>1. k.forward[n] = [i \in DOMAIN l.forward[n] |-> Redirected(n, i)]
    BY <1>9
  <2>0. n \in DOMAIN l.score \cup {Header}
    BY DEF Sound, Shape
  <2>2. \A i \in DOMAIN l.forward[n] : i \in Int /\ 1 <= i
    BY <2>0, TowersIn
  <2>3. \A i \in DOMAIN l.forward[n] : i <= newLevel => at[i].node = u[i]
    BY <1>3, <1>4, <1>0, <2>2
  <2> QED
    BY <2>1, <2>3
<1>14. ASSUME NEW n \in DOMAIN l.span
       PROVE  /\ DOMAIN k.span[n] = DOMAIN l.span[n]
              /\ \A i \in DOMAIN l.span[n] :
                   k.span[n][i] = IF i <= k.level /\ u[i] = n
                                  THEN IF i <= newLevel THEN c - P[n] + 1 ELSE l.span[n][i] + 1
                                  ELSE l.span[n][i]
  <2>1. k.span[n] = [i \in DOMAIN l.span[n] |-> Respanned(n, i)]
    BY <1>10
  <2>0. n \in DOMAIN l.score \cup {Header}
    BY DEF Sound, Shape
  <2>2. \A i \in DOMAIN l.span[n] : i \in Int /\ 1 <= i
    BY <2>0, TowersIn
  <2>3. \A i \in DOMAIN l.span[n] :
          i <= high => at[i].node = u[i] /\ behind(i) = c - P[u[i]]
    BY <1>3, <1>4, <1>0, <2>2
  <2>4. k.level = high
    BY <1>5
  <2>5. ASSUME NEW i \in DOMAIN l.span[n]
        PROVE  Respanned(n, i) = IF i <= k.level /\ u[i] = n
                                 THEN IF i <= newLevel THEN c - P[n] + 1 ELSE l.span[n][i] + 1
                                 ELSE l.span[n][i]
    BY <1>0, <2>2, <2>3, <2>4
  <2> HIDE DEF Respanned
  <2> QED
    BY <2>1, <2>5
<1>15. /\ DOMAIN k.forward[m] = 1..newLevel /\ DOMAIN k.span[m] = 1..newLevel
       /\ \A i \in 1..newLevel :
            /\ k.forward[m][i] = l.forward[u[i]][i]
            /\ k.span[m][i] = (IF i <= l.level THEN l.span[u[i]][i] ELSE l.length) - (c - P[u[i]])
  BY <1>3, <1>4, <1>9, <1>10
<1>16. \A i \in 1..k.level : LastBy(l, P, i, c, u[i])
  BY <1>2, <1>5
<1>17. Inserted(l, P, s, m, newLevel, k, u, c)
  <2> HIDE DEF after, span, behind, Redirected, Respanned
  <2>1. k.tail = IF l.forward[u[1]][1] = Nil THEN m ELSE l.tail
    BY <1>5, <1>12
  <2> QED
    BY <1>6, <1>7, <1>9, <1>10, <1>11, <1>12, <1>13, <1>14, <1>15, <1>16, <2>1 DEF Inserted
<1> QED
  BY <1>1, <1>17 DEF k

\* The positions after an insertion at c + 1.
Moved(l, P, m, c) ==
  [n \in DOMAIN l.score \cup {m, Header} |->
     IF n = m THEN c + 1 ELSE IF P[n] <= c THEN P[n] ELSE P[n] + 1]

\* The new node takes position c + 1 and moves those behind it on.
LEMMA InsertNumbers ==
  ASSUME NEW l, NEW P, Sound(l, P), NEW s \in Score, NEW m \in Member, m \notin DOMAIN l.score,
         NEW newLevel \in 1..MaxLevel, NEW k, NEW c \in 0..l.length, NEW u,
         Inserted(l, P, s, m, newLevel, k, u, c),
         \A n \in DOMAIN l.score : P[n] <= c <=> Precedes(l.score[n], n, s, m)
  PROVE  Numbered(k, Moved(l, P, m, c))
<1> DEFINE Q == Moved(l, P, m, c)
<1>0. /\ DOMAIN k.score = DOMAIN l.score \cup {m} /\ k.length = l.length + 1 /\ k.score[m] = s
      /\ \A n \in DOMAIN l.score : k.score[n] = l.score[n]
  BY DEF Inserted
<1>1. /\ m # Header /\ l.length \in Nat /\ c \in Nat /\ c <= l.length /\ P[Header] = 0
      /\ m \in Int /\ s \in Int
      /\ \A n \in DOMAIN l.score : /\ P[n] \in 1..l.length /\ n # Header /\ n # m
                                   /\ n \in Int /\ l.score[n] \in Int
  BY ZsetAssumption, NodesIn
<1>2. /\ DOMAIN Q = DOMAIN k.score \cup {Header}
      /\ Q[m] = c + 1 /\ Q[Header] = 0
      /\ \A n \in DOMAIN l.score : Q[n] = IF P[n] <= c THEN P[n] ELSE P[n] + 1
  BY <1>0, <1>1 DEF Moved
<1> HIDE DEF Q
<1>3. \A n \in DOMAIN k.score : Q[n] \in 1..k.length
  BY <1>0, <1>1, <1>2
<1>4. ASSUME NEW j \in 1..k.length PROVE \E n \in DOMAIN k.score : Q[n] = j
  <2>1. CASE j <= c
    <3>1. j \in 1..l.length
      BY <1>1, <2>1
    <3>2. PICK n \in DOMAIN l.score : P[n] = j
      BY <3>1 DEF Sound, Numbered
    <3> QED
      BY <1>0, <1>2, <2>1, <3>2
  <2>2. CASE j = c + 1
    BY <1>0, <1>2, <2>2
  <2>3. CASE j > c + 1
    <3>1. j - 1 \in 1..l.length /\ ~(j - 1 <= c) /\ (j - 1) + 1 = j
      BY <1>0, <1>1, <2>3
    <3>2. PICK n \in DOMAIN l.score : P[n] = j - 1
      BY <3>1 DEF Sound, Numbered
    <3> QED
      BY <1>0, <1>2, <3>1, <3>2
  <2> QED
    BY <1>0, <1>1, <2>1, <2>2, <2>3
<1>5. ASSUME NEW a \in DOMAIN k.score, NEW b \in DOMAIN k.score
      PROVE  /\ Q[a] = Q[b] => a = b
             /\ Q[a] < Q[b] <=> Precedes(k.score[a], a, k.score[b], b)
  <2>1. CASE a \in DOMAIN l.score /\ b \in DOMAIN l.score
    <3>1. /\ P[a] = P[b] => a = b
          /\ P[a] < P[b] <=> Precedes(l.score[a], a, l.score[b], b)
      BY <2>1 DEF Sound, Numbered
    <3>2. (Q[a] = Q[b] <=> P[a] = P[b]) /\ (Q[a] < Q[b] <=> P[a] < P[b])
      BY <1>1, <1>2, <2>1
    <3> QED
      BY <1>0, <2>1, <3>1, <3>2
  <2>2. CASE a = m /\ b \in DOMAIN l.score
    <3>1. Precedes(s, m, l.score[b], b) <=> ~(P[b] <= c)
      BY <1>1, <2>2, PrecedesOrder
    <3>2. Q[a] # Q[b] /\ (Q[a] < Q[b] <=> ~(P[b] <= c))
      BY <1>1, <1>2, <2>2
    <3> QED
      BY <1>0, <2>2, <3>1, <3>2
  <2>3. CASE b = m /\ a \in DOMAIN l.score
    <3>1. Q[a] # Q[b] /\ (Q[a] < Q[b] <=> P[a] <= c)
      BY <1>1, <1>2, <2>3
    <3> QED
      BY <1>0, <2>3, <3>1
  <2>4. CASE a = m /\ b = m
    <3>1. ~Precedes(s, m, s, m) /\ ~(Q[a] < Q[b])
      BY <1>1, <1>2, <2>4, PrecedesOrder
    <3> QED
      BY <1>0, <2>4, <3>1
  <2> QED
    BY <1>0, <2>1, <2>2, <2>3, <2>4
<1> QED
  BY <1>2, <1>3, <1>4, <1>5 DEF Numbered, Q

\* The level of the list is that of its highest tower.
LEMMA InsertShape ==
  ASSUME NEW l, NEW P, Sound(l, P), NEW s \in Score, NEW m \in Member, m \notin DOMAIN l.score,
         NEW newLevel \in 1..MaxLevel, NEW k, NEW c \in 0..l.length, NEW u,
         Inserted(l, P, s, m, newLevel, k, u, c)
  PROVE  /\ Shape(k)
         /\ \A i : On(k, i) = On(l, i) \cup (IF i \in 1..newLevel THEN {m} ELSE {})
<1>0. /\ m # Header /\ l.length \in Nat /\ l.level \in Nat \ {0} /\ l.level <= MaxLevel
      /\ MaxLevel \in Nat
      /\ DOMAIN l.forward = DOMAIN l.score \cup {Header} /\ DOMAIN l.span = DOMAIN l.score \cup {Header}
      /\ DOMAIN l.backward = DOMAIN l.score
      /\ DOMAIN l.score \subseteq Member /\ \A n \in DOMAIN l.score : l.score[n] \in Score
      /\ DOMAIN l.forward[Header] = 1..MaxLevel /\ DOMAIN l.span[Header] = 1..MaxLevel
  BY ZsetAssumption, NodesIn DEF Sound, Shape
<1>1. /\ DOMAIN k.score = DOMAIN l.score \cup {m}
      /\ \A n \in DOMAIN k.score : k.score[n] \in Score
      /\ k.level = (IF l.level >= newLevel THEN l.level ELSE newLevel) /\ k.length = l.length + 1
      /\ DOMAIN k.forward = DOMAIN l.forward \cup {m} /\ DOMAIN k.span = DOMAIN l.span \cup {m}
      /\ DOMAIN k.backward = DOMAIN l.backward \cup {m}
      /\ DOMAIN k.forward[m] = 1..newLevel /\ DOMAIN k.span[m] = 1..newLevel
      /\ \A n \in DOMAIN l.forward : DOMAIN k.forward[n] = DOMAIN l.forward[n]
      /\ \A n \in DOMAIN l.span : DOMAIN k.span[n] = DOMAIN l.span[n]
  BY <1>0 DEF Inserted
<1>2. k.level \in 1..MaxLevel /\ k.length \in Nat /\ l.level <= k.level /\ newLevel <= k.level
  BY <1>0, <1>1
<1>3. ASSUME NEW n \in DOMAIN k.score
      PROVE  \E h \in 1..k.level : DOMAIN k.forward[n] = 1..h /\ DOMAIN k.span[n] = 1..h
  <2>1. CASE n = m
    <3>1. newLevel \in 1..k.level
      BY <1>0, <1>2
    <3> QED
      BY <1>1, <2>1, <3>1
  <2>2. CASE n \in DOMAIN l.score
    <3>1. PICK h \in 1..l.level : DOMAIN l.forward[n] = 1..h /\ DOMAIN l.span[n] = 1..h
      BY <2>2 DEF Sound, Shape
    <3>2. h \in 1..k.level
      BY <1>0, <1>2
    <3>3. DOMAIN k.forward[n] = 1..h /\ DOMAIN k.span[n] = 1..h
      BY <1>0, <1>1, <2>2, <3>1
    <3> QED
      BY <3>2, <3>3
  <2> QED
    BY <1>1, <2>1, <2>2
<1>4. Shape(k)
  <2>1. DOMAIN k.score \subseteq Member
    BY <1>0, <1>1
  <2>2. /\ DOMAIN k.forward = DOMAIN k.score \cup {Header}
        /\ DOMAIN k.span = DOMAIN k.score \cup {Header}
        /\ DOMAIN k.backward = DOMAIN k.score
    BY <1>0, <1>1
  <2>3. DOMAIN k.forward[Header] = 1..MaxLevel /\ DOMAIN k.span[Header] = 1..MaxLevel
    BY <1>0, <1>1
  <2> QED
    BY <1>1, <1>2, <1>3, <2>1, <2>2, <2>3 DEF Shape
<1>5. ASSUME NEW i
      PROVE  On(k, i) = On(l, i) \cup (IF i \in 1..newLevel THEN {m} ELSE {})
  BY <1>0, <1>1 DEF On
<1> QED
  BY <1>4, <1>5

\* After an insertion every link leads to the next node of its level, and the spans
\* are the distances.
LEMMA InsertLinks ==
  ASSUME NEW l, NEW P, Sound(l, P), NEW s \in Score, NEW m \in Member, m \notin DOMAIN l.score,
         NEW newLevel \in 1..MaxLevel, NEW k, NEW c \in 0..l.length, NEW u,
         Inserted(l, P, s, m, newLevel, k, u, c)
  PROVE  LinksExact(k, Moved(l, P, m, c))
<1> DEFINE Q == Moved(l, P, m, c)
<1>0. /\ m # Header /\ m # Nil /\ l.length \in Nat /\ c \in Nat /\ c <= l.length /\ P[Header] = 0
      /\ Header # Nil /\ Nil \notin DOMAIN l.score /\ MaxLevel \in Nat /\ newLevel \in Nat
      /\ l.level \in Nat /\ l.level <= MaxLevel /\ newLevel <= MaxLevel
      /\ \A n \in DOMAIN l.score : P[n] \in 1..l.length /\ n # Header /\ n # m
  BY ZsetAssumption, NodesIn
<1>1. /\ Q[m] = c + 1 /\ Q[Header] = 0
      /\ \A n \in DOMAIN l.score \cup {Header} : Q[n] = IF P[n] <= c THEN P[n] ELSE P[n] + 1
  BY <1>0 DEF Moved
<1> HIDE DEF Q
<1>2. \A i : On(k, i) = On(l, i) \cup (IF i \in 1..newLevel THEN {m} ELSE {})
  BY InsertShape
<1>3. k.length = l.length + 1 /\ k.level = (IF l.level >= newLevel THEN l.level ELSE newLevel)
  BY DEF Inserted
<1>4. SUFFICES ASSUME NEW i \in 1..MaxLevel, NEW n \in Linked(k, i)
      PROVE  /\ FirstPast(k, Q, i, Q[n], k.forward[n][i])
             /\ i <= k.level => k.span[n][i] = Reach(k, Q, k.forward[n][i]) - Q[n]
  BY DEF LinksExact, Q
<1>5. \A y \in On(l, i) : y \in DOMAIN l.score /\ P[y] \in 1..l.length /\ y # m
  BY <1>0 DEF On
<1>6. ASSUME NEW x \in Linked(l, i)
      PROVE  /\ P[x] \in 0..l.length
             /\ FirstPast(l, P, i, P[x], l.forward[x][i])
             /\ i <= l.level => l.span[x][i] = Reach(l, P, l.forward[x][i]) - P[x]
             /\ i \in DOMAIN l.forward[x] /\ i \in DOMAIN l.span[x]
             /\ x \in DOMAIN l.forward /\ x \in DOMAIN l.span /\ x # m
             /\ x \in DOMAIN l.score \cup {Header}
  <2>1. /\ FirstPast(l, P, i, P[x], l.forward[x][i])
        /\ i <= l.level => l.span[x][i] = Reach(l, P, l.forward[x][i]) - P[x]
    BY DEF Sound, LinksExact
  <2>2. x \in DOMAIN l.score \cup {Header} /\ (x # Header => i \in DOMAIN l.forward[x])
    BY DEF Linked, On
  <2>3. DOMAIN l.forward[Header] = 1..MaxLevel
    BY DEF Sound, Shape
  <2>4. /\ x \in DOMAIN l.forward /\ x \in DOMAIN l.span /\ DOMAIN l.forward[x] = DOMAIN l.span[x]
    BY <2>2, TowersIn
  <2> QED
    BY <1>0, <2>1, <2>2, <2>3, <2>4
<1>7. i > l.level => On(l, i) = {}
  <2>1. ASSUME i > l.level, NEW y \in DOMAIN l.score PROVE i \notin DOMAIN l.forward[y]
    <3>1. PICK h \in 1..l.level : DOMAIN l.forward[y] = 1..h
      BY DEF Sound, Shape
    <3> QED
      BY <1>0, <2>1, <3>1
  <2> QED
    BY <2>1 DEF On
<1>8. ASSUME NEW x \in Linked(l, i)
      PROVE  /\ k.forward[x][i] = IF i <= newLevel /\ u[i] = x THEN m ELSE l.forward[x][i]
             /\ k.span[x][i] = IF i <= k.level /\ u[i] = x
                               THEN IF i <= newLevel THEN c - P[x] + 1 ELSE l.span[x][i] + 1
                               ELSE l.span[x][i]
  BY <1>6 DEF Inserted
<1>9. i <= k.level => LastBy(l, P, i, c, u[i])
  BY DEF Inserted
<1>10. i <= newLevel => i <= k.level /\ i \in 1..newLevel
  BY <1>0, <1>3
\* From the new node on.
<1>11. CASE n = m
  <2>1. i \in 1..newLevel /\ i <= k.level
    BY <1>0, <1>2, <1>5, <1>10, <1>11 DEF Linked
  <2>2. LastBy(l, P, i, c, u[i]) /\ u[i] \in Linked(l, i)
    BY <1>9, <2>1 DEF LastBy
  <2> DEFINE x == l.forward[u[i]][i]
  <2>3. /\ k.forward[m][i] = x
        /\ k.span[m][i] = (IF i <= l.level THEN l.span[u[i]][i] ELSE l.length) - (c - P[u[i]])
    BY <2>1 DEF Inserted
  <2>4. /\ P[u[i]] \in 0..l.length /\ P[u[i]] <= c /\ FirstPast(l, P, i, P[u[i]], x)
        /\ i <= l.level => l.span[u[i]][i] = Reach(l, P, x) - P[u[i]]
        /\ \A z \in On(l, i) : P[z] <= c => P[z] <= P[u[i]]
    BY <1>6, <2>2 DEF LastBy
  <2>5. i > l.level => x = Nil /\ P[u[i]] = 0
    BY <1>0, <1>7, <2>2, <2>4 DEF FirstPast, Linked
  <2> HIDE DEF x
  <2>6. CASE x \in On(l, i)
    <3>1. P[u[i]] < P[x] /\ ~(P[x] <= c) /\ P[x] \in 1..l.length /\ x # Nil
      BY <1>0, <1>5, <2>4, <2>6 DEF FirstPast
    <3>2. Q[x] = P[x] + 1 /\ Q[m] < Q[x]
      BY <1>0, <1>1, <1>5, <2>6, <3>1
    <3>3. ASSUME NEW y \in On(k, i), Q[m] < Q[y] PROVE Q[x] <= Q[y]
      <4>1. y \in On(l, i) /\ y \in DOMAIN l.score /\ P[y] \in 1..l.length
        BY <1>1, <1>2, <1>5, <3>3
      <4>2. ~(P[y] <= c) /\ Q[y] = P[y] + 1
        BY <1>0, <1>1, <3>3, <4>1
      <4>3. P[u[i]] < P[y]
        BY <1>0, <2>4, <4>1, <4>2
      <4>4. P[x] <= P[y]
        BY <1>0, <2>4, <2>6, <3>1, <4>1, <4>3 DEF FirstPast
      <4> QED
        BY <3>1, <3>2, <4>1, <4>2, <4>4
    <3>4. FirstPast(k, Q, i, Q[m], x)
      BY <1>2, <2>6, <3>2, <3>3 DEF FirstPast
    <3>5. i <= l.level
      BY <1>0, <1>7, <2>6
    <3>6. k.span[m][i] = Reach(k, Q, x) - Q[m]
      BY <1>0, <1>1, <2>3, <2>4, <3>1, <3>2, <3>5 DEF Reach
    <3> QED
      BY <1>11, <2>3, <3>4, <3>6
  <2>7. CASE x \notin On(l, i)
    <3>1. x = Nil /\ \A y \in On(l, i) : P[y] <= P[u[i]]
      BY <2>4, <2>7 DEF FirstPast
    <3>2. \A y \in On(k, i) : Q[y] <= Q[m]
      BY <1>0, <1>1, <1>2, <1>5, <2>4, <3>1
    <3>3. k.span[m][i] = k.length - Q[m]
      BY <1>0, <1>1, <1>3, <2>3, <2>4, <2>5, <3>1 DEF Reach
    <3> QED
      BY <1>11, <2>3, <3>1, <3>2, <3>3 DEF FirstPast, Reach
  <2> QED
    BY <2>6, <2>7
<1>12. CASE n # m
  <2>1. n \in Linked(l, i)
    BY <1>2, <1>12 DEF Linked
  <2> DEFINE x == l.forward[n][i]
  <2>2. /\ P[n] \in 0..l.length /\ FirstPast(l, P, i, P[n], x)
        /\ i <= l.level => l.span[n][i] = Reach(l, P, x) - P[n]
        /\ n \in DOMAIN l.score \cup {Header}
    BY <1>6, <2>1
  <2>3. /\ k.forward[n][i] = IF i <= newLevel /\ u[i] = n THEN m ELSE x
        /\ k.span[n][i] = IF i <= k.level /\ u[i] = n
                          THEN IF i <= newLevel THEN c - P[n] + 1 ELSE l.span[n][i] + 1
                          ELSE l.span[n][i]
    BY <1>8, <2>1
  <2>4. Q[n] = IF P[n] <= c THEN P[n] ELSE P[n] + 1
    BY <1>1, <2>2
  <2>5. \A y \in On(l, i) : Q[y] = IF P[y] <= c THEN P[y] ELSE P[y] + 1
    BY <1>1, <1>5
  <2> HIDE DEF x
  \* The new node comes right after n.
  <2>6. CASE i <= newLevel /\ u[i] = n
    <3>1. P[n] <= c /\ \A z \in On(l, i) : P[z] <= c => P[z] <= P[n]
      BY <1>9, <1>10, <2>6 DEF LastBy
    <3>2. ASSUME NEW y \in On(k, i), Q[n] < Q[y] PROVE Q[m] <= Q[y]
      <4>1. CASE y = m
        BY <1>0, <1>1, <4>1
      <4>2. CASE y \in On(l, i)
        BY <1>0, <1>1, <1>5, <2>2, <2>4, <2>5, <3>1, <3>2, <4>2
      <4> QED
        BY <1>2, <4>1, <4>2
    <3>3. Q[n] < Q[m] /\ m \in On(k, i)
      BY <1>0, <1>1, <1>2, <1>10, <2>2, <2>4, <2>6, <3>1
    <3>4. FirstPast(k, Q, i, Q[n], m)
      BY <3>2, <3>3 DEF FirstPast
    <3>5. k.span[n][i] = Q[m] - Q[n] /\ k.forward[n][i] = m
      BY <1>0, <1>1, <1>10, <2>2, <2>3, <2>4, <2>6, <3>1
    <3> QED
      BY <1>0, <3>4, <3>5 DEF Reach
  \* The link of n stays; it may lead over the new node.
  <2>7. CASE ~(i <= newLevel /\ u[i] = n)
    <3>1. k.forward[n][i] = x
      BY <2>3, <2>7
    <3>2. u[i] = n => m \notin On(k, i)
      BY <1>2, <1>5, <2>7
    <3>3. i <= k.level /\ u[i] # n =>
            \/ P[n] > c
            \/ x \in On(l, i) /\ P[x] <= c
      <4>1. ASSUME i <= k.level, u[i] # n, P[n] <= c PROVE x \in On(l, i) /\ P[x] <= c
        <5>1. /\ u[i] \in Linked(l, i) /\ P[u[i]] <= c
              /\ n # Header => P[n] <= P[u[i]]
          BY <1>9, <2>1, <4>1 DEF LastBy, Linked
        <5>2. u[i] \in DOMAIN l.score \cup {Header} /\ P[u[i]] \in 0..l.length
          BY <1>6, <5>1
        <5>3. n # Header /\ u[i] # Header => P[n] # P[u[i]]
          BY <2>2, <4>1, <5>2 DEF Sound, Numbered
        <5>4. u[i] # Header /\ P[n] < P[u[i]]
          BY <1>0, <2>2, <4>1, <5>1, <5>2, <5>3
        <5>5. u[i] \in On(l, i)
          BY <5>1, <5>4 DEF Linked
        <5>6. x \in On(l, i) /\ P[x] <= P[u[i]]
          BY <1>0, <2>2, <5>2, <5>4, <5>5 DEF FirstPast
        <5> QED
          BY <1>0, <1>5, <5>1, <5>2, <5>6
      <4> QED
        BY <1>0, <2>2, <4>1
    <3>4. CASE x \in On(l, i)
      <4>1. P[n] < P[x] /\ P[x] \in 1..l.length /\ x # Nil
            /\ \A y \in On(l, i) : P[n] < P[y] => P[x] <= P[y]
        BY <1>0, <1>5, <2>2, <3>4 DEF FirstPast
      <4>2. Q[n] < Q[x]
        BY <1>0, <2>2, <2>4, <2>5, <3>4, <4>1
      <4>3. i <= l.level /\ i <= k.level
        BY <1>0, <1>3, <1>7, <3>4
      <4>4. ASSUME NEW y \in On(k, i), Q[n] < Q[y] PROVE Q[x] <= Q[y]
        <5>1. CASE y = m
          <6>1. u[i] # n
            BY <3>2, <4>4, <5>1
          <6>2. P[n] > c \/ P[x] <= c
            BY <3>3, <4>3, <6>1
          <6> QED
            BY <1>0, <1>1, <2>2, <2>4, <2>5, <3>4, <4>1, <4>4, <5>1, <6>2
        <5>2. CASE y \in On(l, i)
          BY <1>0, <1>5, <2>2, <2>4, <2>5, <3>4, <4>1, <4>4, <5>2
        <5> QED
          BY <1>2, <5>1, <5>2
      <4>5. FirstPast(k, Q, i, Q[n], x)
        BY <1>2, <3>4, <4>2, <4>4 DEF FirstPast
      <4>6. k.span[n][i] = Q[x] - Q[n]
        <5>1. l.span[n][i] = P[x] - P[n]
          BY <2>2, <4>1, <4>3 DEF Reach
        <5>2. CASE u[i] = n
          <6>1. P[n] <= c /\ ~(P[x] <= c)
            BY <1>0, <1>9, <2>2, <3>4, <4>1, <4>3, <5>2 DEF LastBy
          <6>2. k.span[n][i] = l.span[n][i] + 1
            BY <2>3, <2>7, <4>3, <5>2
          <6> QED
            BY <1>0, <2>2, <2>4, <2>5, <3>4, <4>1, <5>1, <6>1, <6>2
        <5>3. CASE u[i] # n
          <6>1. P[n] > c \/ P[x] <= c
            BY <3>3, <4>3, <5>3
          <6>2. k.span[n][i] = l.span[n][i]
            BY <2>3, <5>3
          <6> QED
            BY <1>0, <2>2, <2>4, <2>5, <3>4, <4>1, <5>1, <6>1, <6>2
        <5> QED
          BY <5>2, <5>3
      <4> QED
        BY <3>1, <4>1, <4>5, <4>6 DEF Reach
    <3>5. CASE x \notin On(l, i)
      <4>1. x = Nil /\ \A y \in On(l, i) : P[y] <= P[n]
        BY <2>2, <3>5 DEF FirstPast
      <4>2. i <= k.level /\ u[i] # n => P[n] > c
        BY <3>3, <3>5
      <4>3. ASSUME NEW y \in On(k, i) PROVE Q[y] <= Q[n]
        <5>1. CASE y = m
          <6>1. i <= k.level /\ u[i] # n
            BY <1>0, <1>2, <1>5, <1>10, <3>2, <4>3, <5>1
          <6> QED
            BY <1>0, <1>1, <2>2, <2>4, <4>2, <5>1, <6>1
        <5>2. CASE y \in On(l, i)
          BY <1>0, <1>5, <2>2, <2>4, <2>5, <4>1, <5>2
        <5> QED
          BY <1>2, <5>1, <5>2
      <4>4. ASSUME i <= k.level PROVE k.span[n][i] = k.length - Q[n]
        <5>1. CASE u[i] = n
          <6>1. P[n] <= c /\ k.span[n][i] = l.span[n][i] + 1 /\ ~(i <= newLevel)
            BY <1>9, <2>3, <2>7, <4>4, <5>1 DEF LastBy
          <6>2. i <= l.level
            BY <1>0, <1>3, <4>4, <6>1
          <6>3. l.span[n][i] = l.length - P[n]
            BY <2>2, <4>1, <6>2 DEF Reach
          <6> QED
            BY <1>0, <1>3, <2>2, <2>4, <6>1, <6>3
        <5>2. CASE u[i] # n
          <6>1. P[n] > c /\ k.span[n][i] = l.span[n][i]
            BY <2>3, <4>2, <4>4, <5>2
          <6>2. n \in On(l, i)
            BY <1>0, <2>1, <6>1 DEF Linked
          <6>3. i <= l.level
            BY <1>0, <1>7, <6>2
          <6>4. l.span[n][i] = l.length - P[n]
            BY <2>2, <4>1, <6>3 DEF Reach
          <6> QED
            BY <1>0, <1>3, <2>2, <2>4, <6>1, <6>4
        <5> QED
          BY <5>1, <5>2
      <4> QED
        BY <3>1, <4>1, <4>3, <4>4 DEF FirstPast, Reach
    <3> QED
      BY <3>4, <3>5
  <2> QED
    BY <2>6, <2>7
<1> QED
  BY <1>11, <1>12

\* The first level links every node to the next.
LEMMA NextIs ==
  ASSUME NEW l, NEW P, Sound(l, P), NEW y \in DOMAIN l.score \cup {Header}
  PROVE  LET x == l.forward[y][1]
         IN IF P[y] = l.length THEN x = Nil
            ELSE x # Nil /\ x \in DOMAIN l.score /\ P[x] = P[y] + 1
<1> DEFINE x == l.forward[y][1]
<1>0. l.level \in Nat \ {0} /\ \A z : z \in On(l, 1) <=> z \in DOMAIN l.score
  BY NodesIn DEF On
<1>1. 1 \in 1..l.level /\ y \in Linked(l, 1)
  BY <1>0 DEF Linked
<1>2. /\ P[y] \in 0..l.length /\ l.length \in Nat
      /\ \A z \in DOMAIN l.score : P[z] \in 1..l.length
      /\ IF x = Nil THEN \A z \in DOMAIN l.score : P[z] <= P[y]
         ELSE /\ x \in DOMAIN l.score /\ P[y] < P[x]
              /\ \A z \in DOMAIN l.score : P[y] < P[z] => P[x] <= P[z]
  BY <1>0, <1>1, LinkIs
<1>3. P[y] # l.length => P[y] + 1 \in 1..l.length
  BY <1>2
<1>4. P[y] # l.length => \E z \in DOMAIN l.score : P[z] = P[y] + 1
  BY <1>3 DEF Sound, Numbered
<1>5. CASE P[y] = l.length
  BY <1>2, <1>5
<1>6. CASE P[y] # l.length
  <2>1. PICK z \in DOMAIN l.score : P[z] = P[y] + 1
    BY <1>4, <1>6
  <2>2. x # Nil
    BY <1>2, <2>1
  <2>3. P[x] <= P[z] /\ x \in DOMAIN l.score /\ P[y] < P[x]
    BY <1>2, <2>1, <2>2
  <2>4. P[x] = P[y] + 1
    BY <1>2, <2>1, <2>3
  <2> QED
    BY <1>6, <2>2, <2>3, <2>4
<1> QED
  BY <1>5, <1>6

\* The backward links and the tail after an insert.
LEMMA InsertBack ==
  ASSUME NEW l, NEW P, Sound(l, P), NEW s \in Score, NEW m \in Member, m \notin DOMAIN l.score,
         NEW newLevel \in 1..MaxLevel, NEW k, NEW c \in 0..l.length, NEW u,
         Inserted(l, P, s, m, newLevel, k, u, c)
  PROVE  BackExact(k, Moved(l, P, m, c))
<1> DEFINE Q == Moved(l, P, m, c)
           after == l.forward[u[1]][1]
<1>0. /\ m # Header /\ m # Nil /\ l.length \in Nat /\ c \in Nat /\ c <= l.length /\ P[Header] = 0
      /\ l.level \in Nat \ {0} /\ newLevel \in Nat
      /\ \A n \in DOMAIN l.score : P[n] \in 1..l.length /\ n # Header /\ n # m
  BY ZsetAssumption, NodesIn
<1>1. /\ Q[m] = c + 1
      /\ \A n \in DOMAIN l.score \cup {Header} : Q[n] = IF P[n] <= c THEN P[n] ELSE P[n] + 1
  BY <1>0 DEF Moved
<1>2. /\ DOMAIN k.score = DOMAIN l.score \cup {m} /\ k.length = l.length + 1
      /\ k.level = (IF l.level >= newLevel THEN l.level ELSE newLevel)
      /\ \A n \in DOMAIN l.backward : k.backward[n] = IF n = after THEN m ELSE l.backward[n]
      /\ k.backward[m] = IF u[1] = Header THEN Nil ELSE u[1]
      /\ k.tail = IF after = Nil THEN m ELSE l.tail
      /\ \A i \in 1..k.level : LastBy(l, P, i, c, u[i])
  BY DEF Inserted
<1>3. LastBy(l, P, 1, c, u[1]) /\ 1 \in 1..k.level
  BY <1>0, <1>2
<1>4. P[u[1]] = c /\ u[1] \in DOMAIN l.score \cup {Header}
  BY <1>3, LastOnFirst DEF LastBy, Linked, On
<1>5. IF c = l.length THEN after = Nil
      ELSE after # Nil /\ after \in DOMAIN l.score /\ P[after] = c + 1
  BY <1>4, NextIs
<1>6. /\ DOMAIN l.backward = DOMAIN l.score
      /\ \A n \in DOMAIN l.score :
           \/ P[n] = 1 /\ l.backward[n] = Nil
           \/ l.backward[n] \in DOMAIN l.score /\ P[l.backward[n]] = P[n] - 1
      /\ \/ l.length = 0 /\ l.tail = Nil
         \/ l.tail \in DOMAIN l.score /\ P[l.tail] = l.length
      /\ \A a, b \in DOMAIN l.score : P[a] = P[b] => a = b
  BY DEF Sound, Shape, BackExact, Numbered
<1> HIDE DEF Q, after
<1>7. ASSUME NEW n \in DOMAIN k.score
      PROVE  \/ Q[n] = 1 /\ k.backward[n] = Nil
             \/ k.backward[n] \in DOMAIN k.score /\ Q[k.backward[n]] = Q[n] - 1
  <2>1. CASE n = m
    BY <1>0, <1>1, <1>2, <1>4, <2>1
  <2>2. CASE n \in DOMAIN l.score /\ n = after
    <3>1. k.backward[n] = m /\ P[n] = c + 1
      BY <1>0, <1>2, <1>5, <1>6, <2>2, NodesIn
    <3>2. Q[n] = c + 2
      BY <1>0, <1>1, <2>2, <3>1
    <3> QED
      BY <1>0, <1>1, <1>2, <3>1, <3>2
  <2>3. CASE n \in DOMAIN l.score /\ n # after
    <3>1. k.backward[n] = l.backward[n]
      BY <1>2, <1>6, <2>3
    <3>2. P[n] # c + 1
      <4>1. ASSUME P[n] = c + 1 PROVE FALSE
        <5>1. c # l.length
          BY <1>0, <2>3, <4>1
        <5>2. n = after
          BY <1>5, <1>6, <2>3, <4>1, <5>1
        <5> QED
          BY <2>3, <5>2
      <4> QED
        BY <4>1
    <3>3. CASE P[n] = 1 /\ l.backward[n] = Nil
      BY <1>0, <1>1, <2>3, <3>1, <3>2, <3>3
    <3>4. CASE l.backward[n] \in DOMAIN l.score /\ P[l.backward[n]] = P[n] - 1
      BY <1>0, <1>1, <1>2, <2>3, <3>1, <3>2, <3>4
    <3> QED
      BY <1>6, <2>3, <3>3, <3>4
  <2> QED
    BY <1>2, <2>1, <2>2, <2>3
<1>8. k.tail \in DOMAIN k.score /\ Q[k.tail] = k.length
  <2>1. CASE c = l.length
    BY <1>1, <1>2, <1>5, <2>1
  <2>2. CASE c # l.length
    <3>1. k.tail = l.tail /\ ~(l.length <= c) /\ l.length # 0
      BY <1>0, <1>2, <1>5, <2>2
    <3> QED
      BY <1>0, <1>1, <1>2, <1>6, <3>1
  <2> QED
    BY <2>1, <2>2
<1> QED
  BY <1>7, <1>8 DEF BackExact, Q

\* insert keeps a list Sound, whatever the level of the new node.
LEMMA InsertSound ==
  ASSUME NEW l, NEW P, Sound(l, P), NEW s \in Score, NEW m \in Member, m \notin DOMAIN l.score,
         NEW newLevel \in 1..MaxLevel
  PROVE  LET k == Insert(l, s, m, newLevel)
         IN /\ \E Q : Sound(k, Q)
            /\ k.score = [n \in DOMAIN l.score \cup {m} |-> IF n = m THEN s ELSE l.score[n]]
<1> DEFINE k == Insert(l, s, m, newLevel)
<1>1. PICK c \in 0..l.length : \E u :
        /\ Inserted(l, P, s, m, newLevel, k, u, c)
        /\ \A n \in DOMAIN l.score : P[n] <= c <=> Precedes(l.score[n], n, s, m)
  BY InsertIs
<1>2. PICK u :
        /\ Inserted(l, P, s, m, newLevel, k, u, c)
        /\ \A n \in DOMAIN l.score : P[n] <= c <=> Precedes(l.score[n], n, s, m)
  BY <1>1
<1> HIDE DEF k
<1>3. Sound(k, Moved(l, P, m, c))
  BY <1>2, InsertShape, InsertNumbers, InsertLinks, InsertBack DEF Sound
<1>4. k.score = [n \in DOMAIN l.score \cup {m} |-> IF n = m THEN s ELSE l.score[n]]
  BY <1>2 DEF Inserted
<1> QED
  BY <1>3, <1>4 DEF k

\* Max, of numbers from 1 to n.
LEMMA MaxIn ==
  ASSUME NEW n \in Nat, NEW S \in SUBSET (1..n), S # {}
  PROVE  Max(S) \in S /\ \A x \in S : x <= Max(S)
<1> DEFINE T == {j \in Nat : n - j \in S}
<1>1. PICK x \in S : TRUE
  OBVIOUS
<1>2. n - x \in T
  <2>1. n - x \in Nat /\ n - (n - x) = x
    BY <1>1
  <2> QED
    BY <2>1
<1>3. PICK j \in T : \A i \in T : j <= i
  <2>1. T \subseteq Nat /\ T # {}
    BY <1>2
  <2> HIDE DEF T
  <2> QED
    BY <2>1, LeastNumber
<1>4. n - j \in S
  BY <1>3
<1>5. ASSUME NEW y \in S PROVE n - j >= y
  <2>1. n - y \in Nat /\ n - (n - y) = y /\ y \in Nat
    OBVIOUS
  <2>2. n - y \in T
    BY <2>1
  <2>3. j \in Nat /\ j <= n - y
    BY <1>3, <2>2
  <2> HIDE DEF T
  <2> QED
    BY <2>1, <2>3
<1>6. \E m \in S : \A y \in S : m >= y
  BY <1>4, <1>5
<1>7. Max(S) \in S /\ \A y \in S : Max(S) >= y
  BY <1>6 DEF Max
<1>8. \A y \in S : y \in Int
  OBVIOUS
<1> QED
  BY <1>7, <1>8

\* The list after a deletion, field by field.
Deleted(l, P, m, k, u) ==
  /\ k.score = [n \in DOMAIN l.score \ {m} |-> l.score[n]]
  /\ k.length = l.length - 1
  /\ DOMAIN k.forward = DOMAIN l.forward \ {m} /\ DOMAIN k.span = DOMAIN l.span \ {m}
  /\ DOMAIN k.backward = DOMAIN l.backward \ {m}
  /\ \A i \in 1..l.level : LastBy(l, P, i, P[m] - 1, u[i])
  /\ \A n \in DOMAIN l.forward \ {m} :
       /\ DOMAIN k.forward[n] = DOMAIN l.forward[n]
       /\ \A i \in DOMAIN l.forward[n] :
            k.forward[n][i] = IF i <= l.level /\ u[i] = n /\ l.forward[n][i] = m
                              THEN l.forward[m][i] ELSE l.forward[n][i]
  /\ \A n \in DOMAIN l.span \ {m} :
       /\ DOMAIN k.span[n] = DOMAIN l.span[n]
       /\ \A i \in DOMAIN l.span[n] :
            k.span[n][i] = IF i > l.level \/ u[i] # n THEN l.span[n][i]
                           ELSE IF l.forward[n][i] = m THEN l.span[n][i] + l.span[m][i] - 1
                           ELSE l.span[n][i] - 1
  /\ \A n \in DOMAIN l.backward \ {m} :
       k.backward[n] = IF n = l.forward[m][1] THEN l.backward[m] ELSE l.backward[n]
  /\ k.tail = IF l.forward[m][1] = Nil THEN l.backward[m] ELSE l.tail
  /\ k.level = Max({i \in 2..l.level : k.forward[Header][i] # Nil} \cup {1})

\* delete and _deleteNode, told by positions.
LEMMA DeleteIs ==
  ASSUME NEW l, NEW P, Sound(l, P), NEW m \in DOMAIN l.score
  PROVE  \E u : Deleted(l, P, m, Delete(l, l.score[m], m), u)
<1> DEFINE s == l.score[m]
           k == Delete(l, s, m)
           at == Descent(l, PlacesBefore(l, s, m))
           u == [i \in 1..l.level |-> at[i].node]
           c == P[m] - 1
<1>0. /\ l.length \in Nat /\ P[m] \in 1..l.length /\ c \in Nat /\ c \in 0..l.length
      /\ m # Header /\ Header \notin DOMAIN l.score
      /\ \A n \in DOMAIN l.score : P[n] \in 1..l.length
      /\ DOMAIN l.forward = DOMAIN l.score \cup {Header}
  <2>1. /\ l.length \in Nat /\ Header \notin DOMAIN l.score
        /\ \A n \in DOMAIN l.score : P[n] \in 1..l.length
    BY NodesIn
  <2>2. DOMAIN l.forward = DOMAIN l.score \cup {Header}
    BY DEF Sound, Shape
  <2> QED
    BY <2>1, <2>2
<1>1. NearBy(l, P, PlacesBefore(l, s, m), c)
  <2>1. ASSUME NEW n \in DOMAIN l.score
        PROVE  PlaceOf(P, n) \in PlacesBefore(l, s, m) <=> P[n] <= c
    <3>1. P[n] < P[m] <=> Precedes(l.score[n], n, s, m)
      BY DEF Sound, Numbered
    <3>2. PlaceOf(P, n) \in PlacesBefore(l, s, m) <=> Precedes(l.score[n], n, s, m)
      <4>1. P[n] \in Int
        BY <1>0
      <4> HIDE DEF s
      <4> QED
        BY <4>1 DEF PlacesBefore, Place, PlaceOf
    <3> QED
      BY <1>0, <3>1, <3>2
  <2> QED
    BY <2>1 DEF NearBy, PlacesBefore, Place
<1>2. ASSUME NEW i \in 1..l.level PROVE LastBy(l, P, i, c, u[i]) /\ at[i].node = u[i]
  <2>1. PICK y : LastBy(l, P, i, c, y) /\ at[i] = PlaceOf(P, y)
    BY <1>0, <1>1, DescentIs
  <2>2. u[i] = at[i].node
    OBVIOUS
  <2>3. at[i].node = y
    BY <2>1 DEF PlaceOf
  <2> QED
    BY <2>1, <2>2, <2>3
<1> DEFINE forward == [n \in DOMAIN l.forward \ {m} |-> [i \in DOMAIN l.forward[n] |->
                        IF i <= l.level /\ at[i].node = n /\ l.forward[n][i] = m
                        THEN l.forward[m][i] ELSE l.forward[n][i]]]
           after == l.forward[m][1]
<1>3. /\ k.forward = forward
      /\ k.span = ShrunkSpans(l, at, m)
      /\ k.backward = [n \in DOMAIN l.backward \ {m} |->
                        IF n = after THEN l.backward[m] ELSE l.backward[n]]
      /\ k.score = [n \in DOMAIN l.score \ {m} |-> l.score[n]]
      /\ k.tail = (IF after = Nil THEN l.backward[m] ELSE l.tail)
      /\ k.level = Max({i \in 2..l.level : forward[Header][i] # Nil} \cup {1})
      /\ k.length = l.length - 1
  BY DEF Delete
<1> HIDE DEF k, at, u
<1>4. ASSUME NEW n \in DOMAIN l.forward \ {m}
      PROVE  /\ DOMAIN k.forward[n] = DOMAIN l.forward[n]
             /\ \A i \in DOMAIN l.forward[n] :
                  k.forward[n][i] = IF i <= l.level /\ u[i] = n /\ l.forward[n][i] = m
                                    THEN l.forward[m][i] ELSE l.forward[n][i]
  <2>1. k.forward[n] = [i \in DOMAIN l.forward[n] |->
                          IF i <= l.level /\ at[i].node = n /\ l.forward[n][i] = m
                          THEN l.forward[m][i] ELSE l.forward[n][i]]
    BY <1>3
  <2>2. ASSUME NEW i \in DOMAIN l.forward[n], i <= l.level PROVE at[i].node = u[i]
    <3>1. i \in 1..l.level
      BY <1>0, <2>2, TowersIn, NodesIn
    <3> QED
      BY <1>2, <3>1
  <2> QED
    BY <2>1, <2>2
<1>5. ASSUME NEW n \in DOMAIN l.span \ {m}
      PROVE  /\ DOMAIN k.span[n] = DOMAIN l.span[n]
             /\ \A i \in DOMAIN l.span[n] :
                  k.span[n][i] = IF i > l.level \/ u[i] # n THEN l.span[n][i]
                                 ELSE IF l.forward[n][i] = m THEN l.span[n][i] + l.span[m][i] - 1
                                 ELSE l.span[n][i] - 1
  <2>1. k.span[n] = [i \in DOMAIN l.span[n] |->
                       IF i > l.level \/ at[i].node # n THEN l.span[n][i]
                       ELSE IF l.forward[n][i] = m THEN l.span[n][i] + l.span[m][i] - 1
                       ELSE l.span[n][i] - 1]
    BY <1>3 DEF ShrunkSpans
  <2>2. ASSUME NEW i \in DOMAIN l.span[n], ~(i > l.level) PROVE at[i].node = u[i]
    <3>1. n \in DOMAIN l.score \cup {Header}
      BY DEF Sound, Shape
    <3>2. i \in 1..l.level
      BY <2>2, <3>1, TowersIn, NodesIn
    <3> QED
      BY <1>2, <3>2
  <2> QED
    BY <2>1, <2>2
<1>6. DOMAIN k.span = DOMAIN l.span \ {m}
  BY <1>3 DEF ShrunkSpans
<1>7. \A i \in 1..l.level : LastBy(l, P, i, P[m] - 1, u[i])
  BY <1>2
<1>8. Deleted(l, P, m, k, u)
  <2>1. DOMAIN k.forward = DOMAIN l.forward \ {m}
    BY <1>3
  <2>2. /\ DOMAIN k.backward = DOMAIN l.backward \ {m}
        /\ \A n \in DOMAIN l.backward \ {m} :
             k.backward[n] = IF n = l.forward[m][1] THEN l.backward[m] ELSE l.backward[n]
    BY <1>3
  <2>3. /\ k.tail = IF l.forward[m][1] = Nil THEN l.backward[m] ELSE l.tail
        /\ k.level = Max({i \in 2..l.level : k.forward[Header][i] # Nil} \cup {1})
        /\ k.score = [n \in DOMAIN l.score \ {m} |-> l.score[n]]
        /\ k.length = l.length - 1
    BY <1>3
  <2> QED
    BY <1>4, <1>5, <1>6, <1>7, <2>1, <2>2, <2>3 DEF Deleted
<1> QED
  BY <1>8 DEF k

\* The positions after m has left.
Closed(l, P, m) ==
  [n \in (DOMAIN l.score \ {m}) \cup {Header} |-> IF P[n] < P[m] THEN P[n] ELSE P[n] - 1]

\* Those behind the node that goes move one back.
LEMMA DeleteNumbers ==
  ASSUME NEW l, NEW P, Sound(l, P), NEW m \in DOMAIN l.score, NEW k, NEW u,
         Deleted(l, P, m, k, u)
  PROVE  Numbered(k, Closed(l, P, m))
<1> DEFINE Q == Closed(l, P, m)
<1>0. /\ DOMAIN k.score = DOMAIN l.score \ {m} /\ k.length = l.length - 1
      /\ \A n \in DOMAIN k.score : k.score[n] = l.score[n]
  BY DEF Deleted
<1>1. /\ m # Header /\ l.length \in Nat /\ P[Header] = 0 /\ P[m] \in 1..l.length
      /\ \A n \in DOMAIN l.score : P[n] \in 1..l.length /\ n # Header /\ (P[n] = P[m] => n = m)
  <2>1. /\ l.length \in Nat /\ P[Header] = 0 /\ Header \notin DOMAIN l.score
        /\ \A n \in DOMAIN l.score : P[n] \in 1..l.length
    BY NodesIn
  <2>2. \A n \in DOMAIN l.score : P[n] = P[m] => n = m
    BY DEF Sound, Numbered
  <2> QED
    BY <2>1, <2>2
<1>2. /\ DOMAIN Q = DOMAIN k.score \cup {Header} /\ Q[Header] = 0
      /\ \A n \in DOMAIN k.score : Q[n] = IF P[n] < P[m] THEN P[n] ELSE P[n] - 1
  BY <1>0, <1>1 DEF Closed
<1> HIDE DEF Q
<1>3. \A n \in DOMAIN k.score : Q[n] \in 1..k.length
  BY <1>0, <1>1, <1>2
<1>4. ASSUME NEW j \in 1..k.length PROVE \E n \in DOMAIN k.score : Q[n] = j
  <2>1. CASE j < P[m]
    <3>1. j \in 1..l.length
      BY <1>0, <1>1
    <3>2. PICK n \in DOMAIN l.score : P[n] = j
      BY <3>1 DEF Sound, Numbered
    <3> QED
      BY <1>0, <1>1, <1>2, <2>1, <3>2
  <2>2. CASE ~(j < P[m])
    <3>1. j + 1 \in 1..l.length /\ ~(j + 1 < P[m]) /\ j + 1 # P[m] /\ (j + 1) - 1 = j
      BY <1>0, <1>1, <2>2
    <3>2. PICK n \in DOMAIN l.score : P[n] = j + 1
      BY <3>1 DEF Sound, Numbered
    <3>3. n \in DOMAIN k.score
      BY <1>0, <3>1, <3>2
    <3> QED
      BY <1>2, <3>1, <3>2, <3>3
  <2> QED
    BY <2>1, <2>2
<1>5. ASSUME NEW a \in DOMAIN k.score, NEW b \in DOMAIN k.score
      PROVE  /\ Q[a] = Q[b] => a = b
             /\ Q[a] < Q[b] <=> Precedes(k.score[a], a, k.score[b], b)
  <2>1. /\ P[a] = P[b] => a = b
        /\ P[a] < P[b] <=> Precedes(l.score[a], a, l.score[b], b)
    BY <1>0 DEF Sound, Numbered
  <2>2. (Q[a] = Q[b] <=> P[a] = P[b]) /\ (Q[a] < Q[b] <=> P[a] < P[b])
    BY <1>0, <1>1, <1>2
  <2> QED
    BY <1>0, <2>1, <2>2
<1> QED
  BY <1>2, <1>3, <1>4, <1>5 DEF Numbered, Q

\* The nodes of a level are those before, without m, and every link leads to the next
\* of them.
LEMMA DeleteLinks ==
  ASSUME NEW l, NEW P, Sound(l, P), NEW m \in DOMAIN l.score, NEW k, NEW u,
         Deleted(l, P, m, k, u), NEW i \in 1..MaxLevel, NEW n \in Linked(l, i), n # m
  PROVE  /\ On(k, i) = On(l, i) \ {m}
         /\ FirstPast(k, Closed(l, P, m), i, Closed(l, P, m)[n], k.forward[n][i])
         /\ i <= l.level =>
              k.span[n][i] = Reach(k, Closed(l, P, m), k.forward[n][i]) - Closed(l, P, m)[n]
<1> DEFINE Q == Closed(l, P, m)
           x == l.forward[n][i]
           y == l.forward[m][i]
<1>0. /\ m # Header /\ l.length \in Nat /\ P[Header] = 0 /\ P[m] \in 1..l.length
      /\ Header # Nil /\ Nil \notin DOMAIN l.score /\ MaxLevel \in Nat
      /\ l.level \in Nat /\ l.level <= MaxLevel
      /\ \A z \in DOMAIN l.score : P[z] \in 1..l.length /\ z # Header
  <2>1. Header \notin DOMAIN l.score /\ \A z \in DOMAIN l.score : P[z] \in 1..l.length
    BY NodesIn
  <2> QED
    BY <2>1, NodesIn
<1>1. \A z \in DOMAIN l.score : P[z] = P[m] => z = m
  BY DEF Sound, Numbered
<1>2. \A z \in (DOMAIN l.score \ {m}) \cup {Header} : Q[z] = IF P[z] < P[m] THEN P[z] ELSE P[z] - 1
  BY DEF Closed
<1> HIDE DEF Q
<1>3. On(k, i) = On(l, i) \ {m}
  <2>1. DOMAIN k.score = DOMAIN l.score \ {m} /\ DOMAIN l.score \subseteq DOMAIN l.forward
        /\ \A z \in DOMAIN l.forward \ {m} : DOMAIN k.forward[z] = DOMAIN l.forward[z]
    BY DEF Deleted, Sound, Shape
  <2> QED
    BY <2>1 DEF On
<1>4. \A z \in On(l, i) : z \in DOMAIN l.score /\ P[z] \in 1..l.length
  BY <1>0 DEF On
<1>5. ASSUME NEW z \in Linked(l, i)
      PROVE  /\ P[z] \in 0..l.length /\ z \in DOMAIN l.score \cup {Header}
             /\ FirstPast(l, P, i, P[z], l.forward[z][i])
             /\ i <= l.level => l.span[z][i] = Reach(l, P, l.forward[z][i]) - P[z]
             /\ i \in DOMAIN l.forward[z] /\ i \in DOMAIN l.span[z]
             /\ z \in DOMAIN l.forward /\ z \in DOMAIN l.span
  <2>1. /\ FirstPast(l, P, i, P[z], l.forward[z][i])
        /\ i <= l.level => l.span[z][i] = Reach(l, P, l.forward[z][i]) - P[z]
    BY DEF Sound, LinksExact
  <2>2. z \in DOMAIN l.score \cup {Header} /\ (z # Header => i \in DOMAIN l.forward[z])
    BY DEF Linked, On
  <2>3. DOMAIN l.forward[Header] = 1..MaxLevel
    BY DEF Sound, Shape
  <2>4. /\ z \in DOMAIN l.forward /\ z \in DOMAIN l.span /\ DOMAIN l.forward[z] = DOMAIN l.span[z]
    BY <2>2, TowersIn
  <2> QED
    BY <1>0, <2>1, <2>2, <2>3, <2>4
<1>6. /\ k.forward[n][i] = IF i <= l.level /\ u[i] = n /\ x = m THEN y ELSE x
      /\ k.span[n][i] = IF i > l.level \/ u[i] # n THEN l.span[n][i]
                        ELSE IF x = m THEN l.span[n][i] + l.span[m][i] - 1
                        ELSE l.span[n][i] - 1
  BY <1>5 DEF Deleted
<1>7. ASSUME i > l.level PROVE On(l, i) = {} /\ n = Header /\ P[n] = 0 /\ x = Nil
  <2>1. ASSUME NEW z \in DOMAIN l.score PROVE i \notin DOMAIN l.forward[z]
    <3>1. PICK h \in 1..l.level : DOMAIN l.forward[z] = 1..h
      BY DEF Sound, Shape
    <3> QED
      BY <1>0, <1>7, <3>1
  <2>2. On(l, i) = {}
    BY <2>1 DEF On
  <2> QED
    BY <1>0, <1>5, <2>2 DEF Linked, FirstPast
<1>8. ASSUME i <= l.level
      PROVE  /\ u[i] \in Linked(l, i) /\ P[u[i]] < P[m] /\ P[u[i]] \in 0..l.length
             /\ u[i] \in DOMAIN l.score \cup {Header}
             /\ \A z \in On(l, i) : P[z] < P[m] => P[z] <= P[u[i]]
  <2>1. i \in 1..l.level
    BY <1>0, <1>8
  <2>2. LastBy(l, P, i, P[m] - 1, u[i])
    BY <2>1 DEF Deleted
  <2>3. u[i] \in Linked(l, i) /\ P[u[i]] <= P[m] - 1
        /\ \A z \in On(l, i) : P[z] <= P[m] - 1 => P[z] <= P[u[i]]
    BY <2>2 DEF LastBy
  <2>4. P[u[i]] \in 0..l.length /\ u[i] \in DOMAIN l.score \cup {Header}
    BY <1>5, <2>3
  <2> QED
    BY <1>0, <1>4, <2>3, <2>4
<1>9. /\ P[n] \in 0..l.length /\ n \in (DOMAIN l.score \ {m}) \cup {Header} /\ P[n] # P[m]
      /\ Q[n] = IF P[n] < P[m] THEN P[n] ELSE P[n] - 1
  BY <1>0, <1>1, <1>2, <1>5
<1>10. \A z \in On(l, i) \ {m} : P[z] # P[m] /\ Q[z] = IF P[z] < P[m] THEN P[z] ELSE P[z] - 1
  BY <1>1, <1>2, <1>4
\* PlacesBefore m, the walk of the level stops at n, or n's link ends before m too.
<1>11. ASSUME i <= l.level, P[n] < P[m], u[i] # n PROVE x \in On(l, i) /\ P[x] < P[m]
  <2>1. n # Header => n \in On(l, i) /\ P[n] <= P[u[i]]
    BY <1>8, <1>11 DEF Linked
  <2>2. n # Header /\ u[i] # Header => P[n] # P[u[i]]
    BY <1>8, <1>9, <1>11 DEF Sound, Numbered
  <2>3. u[i] # Header /\ P[n] < P[u[i]]
    BY <1>0, <1>8, <1>9, <1>11, <2>1, <2>2
  <2>4. u[i] \in On(l, i)
    BY <1>8, <1>11, <2>3 DEF Linked
  <2>5. x \in On(l, i) /\ P[x] <= P[u[i]]
    BY <1>0, <1>5, <1>8, <1>11, <2>3, <2>4 DEF FirstPast
  <2> QED
    BY <1>0, <1>4, <1>8, <1>11, <2>5
<1>12. FirstPast(l, P, i, P[n], x) /\ (i <= l.level => l.span[n][i] = Reach(l, P, x) - P[n])
  BY <1>5
<1>13. k.length = l.length - 1
  BY DEF Deleted
<1> HIDE DEF x, y
\* The link leads to m.
<1>14. CASE x = m
  <2>1. i <= l.level
    BY <1>0, <1>7, <1>14
  <2>2. m \in On(l, i) /\ P[n] < P[m]
    BY <1>0, <1>12, <1>14 DEF FirstPast
  <2>3. u[i] = n
    BY <1>0, <1>11, <1>14, <2>1, <2>2
  <2>4. k.forward[n][i] = y /\ k.span[n][i] = l.span[n][i] + l.span[m][i] - 1
    BY <1>0, <1>6, <1>14, <2>1, <2>3
  <2>5. /\ FirstPast(l, P, i, P[m], y) /\ l.span[m][i] = Reach(l, P, y) - P[m]
        /\ l.span[n][i] = P[m] - P[n]
    BY <1>0, <1>5, <1>12, <1>14, <2>1, <2>2 DEF y, Linked, Reach
  <2>6. \A z \in On(l, i) : P[n] < P[z] => P[m] <= P[z]
    BY <1>0, <1>12, <1>14 DEF FirstPast
  <2>7. CASE y \in On(l, i)
    <3>1. P[m] < P[y] /\ y # m /\ y # Nil /\ P[y] \in 1..l.length
          /\ \A z \in On(l, i) : P[m] < P[z] => P[y] <= P[z]
      BY <1>0, <1>4, <2>5, <2>7 DEF FirstPast
    <3>2. Q[y] = P[y] - 1 /\ Q[n] = P[n] /\ Q[n] < Q[y]
      BY <1>0, <1>9, <1>10, <2>2, <2>7, <3>1
    <3>3. ASSUME NEW z \in On(k, i), Q[n] < Q[z] PROVE Q[y] <= Q[z]
      <4>1. z \in On(l, i) \ {m} /\ P[z] \in 1..l.length
        BY <1>3, <1>4
      <4>2. P[n] < P[z]
        BY <1>0, <1>9, <1>10, <2>2, <3>3, <4>1
      <4>3. P[m] < P[z]
        BY <1>0, <1>10, <2>6, <4>1, <4>2
      <4> QED
        BY <1>0, <1>10, <3>1, <3>2, <4>1, <4>3
    <3>4. FirstPast(k, Q, i, Q[n], y)
      BY <1>3, <2>7, <3>1, <3>2, <3>3 DEF FirstPast
    <3>5. k.span[n][i] = Reach(k, Q, y) - Q[n]
      BY <1>0, <1>9, <2>2, <2>4, <2>5, <3>1, <3>2 DEF Reach
    <3> QED
      BY <1>3, <2>4, <3>4, <3>5 DEF Q
  <2>8. CASE y \notin On(l, i)
    <3>1. y = Nil /\ \A z \in On(l, i) : P[z] <= P[m]
      BY <2>5, <2>8 DEF FirstPast
    <3>2. ASSUME NEW z \in On(k, i) PROVE Q[z] <= Q[n]
      <4>1. z \in On(l, i) \ {m} /\ P[z] \in 1..l.length
        BY <1>3, <1>4
      <4>2. P[z] < P[m]
        BY <1>0, <1>10, <3>1, <4>1
      <4>3. ~(P[n] < P[z])
        BY <1>0, <2>6, <4>1, <4>2
      <4> QED
        BY <1>0, <1>9, <1>10, <2>2, <4>1, <4>2, <4>3
    <3>3. k.span[n][i] = k.length - Q[n]
      BY <1>0, <1>9, <1>13, <2>2, <2>4, <2>5, <3>1 DEF Reach
    <3> QED
      BY <1>3, <2>4, <3>1, <3>2, <3>3 DEF FirstPast, Reach, Q
  <2> QED
    BY <2>7, <2>8
\* The link stays; it may lead over m.
<1>15. CASE x # m
  <2>1. k.forward[n][i] = x
    BY <1>6, <1>15
  <2>2. i <= l.level => k.span[n][i] = IF u[i] # n THEN l.span[n][i] ELSE l.span[n][i] - 1
    BY <1>0, <1>6, <1>15
  <2>3. i <= l.level /\ u[i] = n =>
          P[n] < P[m] /\ \A z \in On(l, i) : P[z] < P[m] => P[z] <= P[n]
    BY <1>8
  <2>4. CASE x \in On(l, i)
    <3>1. P[n] < P[x] /\ x # Nil /\ P[x] \in 1..l.length /\ P[x] # P[m]
          /\ \A z \in On(l, i) : P[n] < P[z] => P[x] <= P[z]
      BY <1>0, <1>4, <1>10, <1>12, <1>15, <2>4 DEF FirstPast
    <3>2. Q[x] = (IF P[x] < P[m] THEN P[x] ELSE P[x] - 1) /\ Q[n] < Q[x]
      BY <1>0, <1>9, <1>10, <1>15, <2>4, <3>1
    <3>3. ASSUME NEW z \in On(k, i), Q[n] < Q[z] PROVE Q[x] <= Q[z]
      <4>1. z \in On(l, i) \ {m} /\ P[z] \in 1..l.length
        BY <1>3, <1>4
      <4>2. P[n] < P[z]
        BY <1>0, <1>9, <1>10, <3>3, <4>1
      <4> QED
        BY <1>0, <1>10, <3>1, <3>2, <4>1, <4>2
    <3>4. FirstPast(k, Q, i, Q[n], x)
      BY <1>3, <1>15, <2>4, <3>2, <3>3 DEF FirstPast
    <3>5. ASSUME i <= l.level PROVE k.span[n][i] = Q[x] - Q[n]
      <4>1. l.span[n][i] = P[x] - P[n]
        BY <1>12, <3>1, <3>5 DEF Reach
      <4>2. CASE u[i] = n
        <5>1. P[n] < P[m] /\ ~(P[x] < P[m])
          BY <1>0, <1>9, <2>3, <2>4, <3>1, <3>5, <4>2
        <5> QED
          BY <1>0, <1>9, <2>2, <3>1, <3>2, <3>5, <4>1, <4>2, <5>1
      <4>3. CASE u[i] # n
        <5>1. P[n] < P[m] => P[x] < P[m]
          BY <1>11, <3>5, <4>3
        <5>2. ~(P[n] < P[m]) => ~(P[x] < P[m])
          BY <1>0, <1>9, <3>1
        <5> QED
          BY <1>0, <1>9, <2>2, <3>1, <3>2, <3>5, <4>1, <4>3, <5>1, <5>2
      <4> QED
        BY <4>2, <4>3
    <3> QED
      BY <1>3, <2>1, <3>1, <3>4, <3>5 DEF Reach, Q
  <2>5. CASE x \notin On(l, i)
    <3>1. x = Nil /\ \A z \in On(l, i) : P[z] <= P[n]
      BY <1>12, <2>5 DEF FirstPast
    <3>2. ASSUME NEW z \in On(k, i) PROVE Q[z] <= Q[n]
      <4>1. z \in On(l, i) \ {m} /\ P[z] \in 1..l.length /\ P[z] <= P[n]
        BY <1>3, <1>4, <3>1
      <4> QED
        BY <1>0, <1>9, <1>10, <4>1
    <3>3. ASSUME i <= l.level PROVE k.span[n][i] = k.length - Q[n]
      <4>1. l.span[n][i] = l.length - P[n]
        BY <1>12, <3>1, <3>3 DEF Reach
      <4>2. CASE u[i] = n
        BY <1>0, <1>9, <1>13, <2>2, <2>3, <3>3, <4>1, <4>2
      <4>3. CASE u[i] # n
        <5>1. ~(P[n] < P[m])
          BY <1>11, <2>5, <3>3, <4>3
        <5> QED
          BY <1>0, <1>9, <1>13, <2>2, <3>3, <4>1, <4>3, <5>1
      <4> QED
        BY <4>2, <4>3
    <3> QED
      BY <1>3, <2>1, <3>1, <3>2, <3>3 DEF FirstPast, Reach, Q
  <2> QED
    BY <2>4, <2>5
<1> QED
  BY <1>14, <1>15

\* The level drops to the highest that still has a node.
LEMMA DeleteShape ==
  ASSUME NEW l, NEW P, Sound(l, P), NEW m \in DOMAIN l.score, NEW k, NEW u,
         Deleted(l, P, m, k, u)
  PROVE  Shape(k) /\ k.level <= l.level
<1> DEFINE used == {i \in 2..l.level : k.forward[Header][i] # Nil}
<1>0. /\ m # Header /\ l.length \in Nat /\ l.level \in Nat \ {0} /\ l.level <= MaxLevel
      /\ MaxLevel \in Nat /\ P[m] \in 1..l.length /\ Header \notin DOMAIN l.score
      /\ Nil \notin DOMAIN l.score /\ P[Header] = 0
  <2>1. Header \notin DOMAIN l.score /\ P[m] \in 1..l.length
    BY NodesIn
  <2> QED
    BY <2>1, NodesIn
<1>1. /\ DOMAIN l.forward = DOMAIN l.score \cup {Header} /\ DOMAIN l.span = DOMAIN l.score \cup {Header}
      /\ DOMAIN l.backward = DOMAIN l.score
      /\ DOMAIN l.score \subseteq Member /\ \A n \in DOMAIN l.score : l.score[n] \in Score
      /\ DOMAIN l.forward[Header] = 1..MaxLevel /\ DOMAIN l.span[Header] = 1..MaxLevel
  BY DEF Sound, Shape
<1>2. /\ DOMAIN k.score = DOMAIN l.score \ {m}
      /\ \A n \in DOMAIN k.score : k.score[n] = l.score[n]
      /\ k.length = l.length - 1
      /\ DOMAIN k.forward = DOMAIN l.forward \ {m} /\ DOMAIN k.span = DOMAIN l.span \ {m}
      /\ DOMAIN k.backward = DOMAIN l.backward \ {m}
      /\ \A n \in DOMAIN l.forward \ {m} : DOMAIN k.forward[n] = DOMAIN l.forward[n]
      /\ \A n \in DOMAIN l.span \ {m} : DOMAIN k.span[n] = DOMAIN l.span[n]
      /\ k.level = Max(used \cup {1})
  BY DEF Deleted
<1> HIDE DEF used
<1>3. used \subseteq 2..l.level
  BY DEF used
<1>4. k.level \in used \cup {1} /\ \A i \in used \cup {1} : i <= k.level
  <2> DEFINE S == used \cup {1}
  <2>1. S \in SUBSET (1..l.level) /\ S # {}
    BY <1>0, <1>3
  <2>2. l.level \in Nat
    BY <1>0
  <2> HIDE DEF S
  <2>3. Max(S) \in S /\ \A i \in S : i <= Max(S)
    BY ONLY <2>1, <2>2, MaxIn
  <2> QED
    BY <1>2, <2>3 DEF S
<1>5. k.level \in 1..l.level /\ k.level \in 1..MaxLevel /\ k.level <= l.level
  <2>1. k.level = 1 \/ k.level \in 2..l.level
    BY <1>3, <1>4
  <2>2. CASE k.level = 1
    BY <1>0, <2>2
  <2>3. CASE k.level \in 2..l.level
    BY <1>0, <2>3
  <2> QED
    BY <2>1, <2>2, <2>3
<1>6. ASSUME NEW n \in DOMAIN k.score
      PROVE  \E h \in 1..k.level : DOMAIN k.forward[n] = 1..h /\ DOMAIN k.span[n] = 1..h
  <2>1. PICK h \in 1..l.level : DOMAIN l.forward[n] = 1..h /\ DOMAIN l.span[n] = 1..h
    BY <1>2 DEF Sound, Shape
  <2>2. DOMAIN k.forward[n] = 1..h /\ DOMAIN k.span[n] = 1..h
    BY <1>0, <1>1, <1>2, <2>1
  <2>3. h <= k.level
    <3>1. CASE h = 1
      BY <1>4, <3>1
    <3>2. CASE h # 1
      <4>1. h \in 1..MaxLevel /\ h \in 2..l.level /\ h \in 1..h
        BY <1>0, <3>2
      <4>2. n \in On(k, h) /\ n \in On(l, h)
        BY <1>2, <2>1, <2>2, <4>1 DEF On
      <4>3. FirstPast(k, Closed(l, P, m), h, Closed(l, P, m)[Header], k.forward[Header][h])
        <5>1. Header \in Linked(l, h) /\ Header # m
          BY <1>0 DEF Linked
        <5> QED
          BY <4>1, <5>1, DeleteLinks
      <4>4. Closed(l, P, m)[Header] = 0 /\ Closed(l, P, m)[n] \in 1..k.length
        <5>1. Numbered(k, Closed(l, P, m))
          BY DeleteNumbers
        <5> QED
          BY <5>1 DEF Numbered
      <4>5. k.length \in Int
        BY <1>0, <1>2
      <4>6. ~(Closed(l, P, m)[n] <= Closed(l, P, m)[Header])
        BY <4>4, <4>5
      <4>7. Nil \notin On(k, h)
        BY <1>0, <1>2 DEF On
      <4>8. k.forward[Header][h] # Nil
        BY <4>2, <4>3, <4>6, <4>7 DEF FirstPast
      <4>9. h \in used
        BY <4>1, <4>8 DEF used
      <4> QED
        BY <1>4, <4>9
    <3> QED
      BY <3>1, <3>2
  <2>4. h \in 1..k.level
    BY <1>0, <1>5, <2>3
  <2> QED
    BY <2>2, <2>4
<1>7. Shape(k)
  <2>1. k.length \in Nat
    BY <1>0, <1>2
  <2>2. /\ DOMAIN k.forward = DOMAIN k.score \cup {Header}
        /\ DOMAIN k.span = DOMAIN k.score \cup {Header}
        /\ DOMAIN k.backward = DOMAIN k.score
    BY <1>0, <1>1, <1>2
  <2>3. DOMAIN k.forward[Header] = 1..MaxLevel /\ DOMAIN k.span[Header] = 1..MaxLevel
    BY <1>0, <1>1, <1>2
  <2>4. DOMAIN k.score \subseteq Member /\ \A n \in DOMAIN k.score : k.score[n] \in Score
    BY <1>1, <1>2
  <2> QED
    BY <1>5, <1>6, <2>1, <2>2, <2>3, <2>4 DEF Shape
<1> QED
  BY <1>5, <1>7

\* The backward links and the tail after a delete.
LEMMA DeleteBack ==
  ASSUME NEW l, NEW P, Sound(l, P), NEW m \in DOMAIN l.score, NEW k, NEW u,
         Deleted(l, P, m, k, u)
  PROVE  BackExact(k, Closed(l, P, m))
<1> DEFINE Q == Closed(l, P, m)
           after == l.forward[m][1]
           before == l.backward[m]
<1>0. /\ m # Header /\ l.length \in Nat /\ P[m] \in 1..l.length /\ Nil \notin DOMAIN l.score
      /\ \A n \in DOMAIN l.score : P[n] \in 1..l.length
  BY NodesIn
<1>1. /\ DOMAIN l.backward = DOMAIN l.score
      /\ \A n \in DOMAIN l.score :
           \/ P[n] = 1 /\ l.backward[n] = Nil
           \/ l.backward[n] \in DOMAIN l.score /\ P[l.backward[n]] = P[n] - 1
      /\ \/ l.length = 0 /\ l.tail = Nil
         \/ l.tail \in DOMAIN l.score /\ P[l.tail] = l.length
      /\ \A a, b \in DOMAIN l.score : P[a] = P[b] => a = b
  BY DEF Sound, Shape, BackExact, Numbered
<1>2. /\ DOMAIN k.score = DOMAIN l.score \ {m} /\ k.length = l.length - 1
      /\ \A n \in DOMAIN l.backward \ {m} :
           k.backward[n] = IF n = after THEN before ELSE l.backward[n]
      /\ k.tail = IF after = Nil THEN before ELSE l.tail
  BY DEF Deleted
<1>3. \A n \in DOMAIN k.score : Q[n] = IF P[n] < P[m] THEN P[n] ELSE P[n] - 1
  BY <1>2 DEF Closed
<1>4. IF P[m] = l.length THEN after = Nil
      ELSE after # Nil /\ after \in DOMAIN l.score /\ P[after] = P[m] + 1
  BY NextIs
<1>5. \/ P[m] = 1 /\ before = Nil
      \/ before \in DOMAIN l.score /\ P[before] = P[m] - 1
  BY <1>1
<1> HIDE DEF Q, after, before
<1>6. before \in DOMAIN l.score => before \in DOMAIN k.score /\ Q[before] = P[m] - 1
  BY <1>0, <1>2, <1>3, <1>5
<1>7. ASSUME NEW n \in DOMAIN k.score
      PROVE  \/ Q[n] = 1 /\ k.backward[n] = Nil
             \/ k.backward[n] \in DOMAIN k.score /\ Q[k.backward[n]] = Q[n] - 1
  <2>0. n \in DOMAIN l.score /\ n # m /\ P[n] # P[m] /\ P[n] \in 1..l.length
    BY <1>0, <1>1, <1>2
  <2>1. CASE n = after
    <3>1. P[n] = P[m] + 1 /\ k.backward[n] = before
      BY <1>0, <1>1, <1>2, <1>4, <2>0, <2>1
    <3>2. Q[n] = P[m]
      BY <1>0, <1>3, <3>1
    <3> QED
      BY <1>0, <1>5, <1>6, <3>1, <3>2
  <2>2. CASE n # after
    <3>1. k.backward[n] = l.backward[n]
      BY <1>1, <1>2, <2>0, <2>2
    <3>2. P[n] # P[m] + 1
      <4>1. ASSUME P[n] = P[m] + 1 PROVE FALSE
        <5>1. P[m] # l.length
          BY <1>0, <2>0, <4>1
        <5>2. n = after
          BY <1>1, <1>4, <2>0, <4>1, <5>1
        <5> QED
          BY <2>2, <5>2
      <4> QED
        BY <4>1
    <3>3. CASE P[n] = 1 /\ l.backward[n] = Nil
      BY <1>0, <1>3, <2>0, <3>1, <3>3
    <3>4. CASE l.backward[n] \in DOMAIN l.score /\ P[l.backward[n]] = P[n] - 1
      <4>1. P[l.backward[n]] # P[m] /\ P[l.backward[n]] \in 1..l.length
        BY <1>0, <2>0, <3>2, <3>4
      <4>2. l.backward[n] \in DOMAIN k.score
        BY <1>2, <3>4, <4>1
      <4> QED
        BY <1>0, <1>3, <2>0, <3>1, <3>4, <4>1, <4>2
    <3> QED
      BY <1>1, <2>0, <3>3, <3>4
  <2> QED
    BY <2>1, <2>2
<1>8. \/ k.length = 0 /\ k.tail = Nil
      \/ k.tail \in DOMAIN k.score /\ Q[k.tail] = k.length
  <2>1. CASE P[m] = l.length
    BY <1>0, <1>2, <1>4, <1>5, <1>6, <2>1
  <2>2. CASE P[m] # l.length
    <3>1. k.tail = l.tail /\ l.tail \in DOMAIN l.score /\ P[l.tail] = l.length /\ l.tail # m
      BY <1>0, <1>1, <1>2, <1>4, <2>2
    <3> QED
      BY <1>0, <1>2, <1>3, <2>2, <3>1
  <2> QED
    BY <2>1, <2>2
<1> QED
  BY <1>7, <1>8 DEF BackExact, Q

\* delete keeps a list Sound: the spans that jumped over the node shrink by one.
LEMMA DeleteSound ==
  ASSUME NEW l, NEW P, Sound(l, P), NEW m \in DOMAIN l.score
  PROVE  LET k == Delete(l, l.score[m], m)
         IN (\E Q : Sound(k, Q)) /\ k.score = [n \in DOMAIN l.score \ {m} |-> l.score[n]]
<1> DEFINE k == Delete(l, l.score[m], m)
<1>1. PICK u : Deleted(l, P, m, k, u)
  BY DeleteIs
<1> HIDE DEF k
<1>2. Shape(k) /\ k.level <= l.level
  BY <1>1, DeleteShape
<1>3. Numbered(k, Closed(l, P, m)) /\ BackExact(k, Closed(l, P, m))
  BY <1>1, DeleteNumbers, DeleteBack
<1>4. LinksExact(k, Closed(l, P, m))
  <2> SUFFICES ASSUME NEW i \in 1..MaxLevel, NEW n \in Linked(k, i)
               PROVE  /\ FirstPast(k, Closed(l, P, m), i, Closed(l, P, m)[n], k.forward[n][i])
                      /\ i <= k.level => k.span[n][i] = Reach(k, Closed(l, P, m), k.forward[n][i])
                                                        - Closed(l, P, m)[n]
    BY DEF LinksExact
  <2>1. DOMAIN k.score = DOMAIN l.score \ {m} /\ m # Header
        /\ DOMAIN k.forward = DOMAIN l.forward \ {m}
        /\ DOMAIN l.score \subseteq DOMAIN l.forward
        /\ \A y \in DOMAIN l.forward \ {m} : DOMAIN k.forward[y] = DOMAIN l.forward[y]
    BY <1>1, NodesIn DEF Deleted, Sound, Shape
  <2>2. n \in Linked(l, i) /\ n # m
    BY <2>1 DEF Linked, On
  <2>3. k.level \in Nat /\ l.level \in Nat /\ i \in Nat
    BY <1>2, NodesIn, ZsetAssumption DEF Shape
  <2>4. i <= k.level => i <= l.level
    BY <1>2, <2>3
  <2> QED
    BY <1>1, <2>2, <2>4, DeleteLinks
<1>5. Sound(k, Closed(l, P, m))
  BY <1>2, <1>3, <1>4 DEF Sound
<1>6. k.score = [n \in DOMAIN l.score \ {m} |-> l.score[n]]
  BY <1>1 DEF Deleted
<1> QED
  BY <1>5, <1>6 DEF k

-----------------------------------------------------------------------------
\* A Map beside a list that is Sound and holds the same scores.
InStep(z) == (\E P : Sound(z.sl, P)) /\ z.sl.score = z.dict
ZsetInv == InStep([dict |-> dict, sl |-> sl])

\* A new sorted set is in step.
LEMMA NewIsInStep == InStep([dict |-> NoMember, sl |-> NewList])
<1> DEFINE P == [n \in {Header} |-> 0]
<1>0. MaxLevel \in Nat \ {0} /\ Header # Nil
  BY ZsetAssumption
<1>1. /\ DOMAIN NewList.score = {} /\ NewList.length = 0 /\ NewList.level = 1 /\ NewList.tail = Nil
      /\ DOMAIN NewList.backward = {}
      /\ DOMAIN NewList.forward = {Header} /\ DOMAIN NewList.span = {Header}
      /\ DOMAIN NewList.forward[Header] = 1..MaxLevel /\ DOMAIN NewList.span[Header] = 1..MaxLevel
      /\ \A i \in 1..MaxLevel : NewList.forward[Header][i] = Nil /\ NewList.span[Header][i] = 0
  BY DEF NewList
<1>2. NewList.score = NoMember
  BY DEF NewList, NoMember
<1> HIDE DEF P
<1>3. DOMAIN P = {Header} /\ P[Header] = 0
  BY DEF P
<1>4. Shape(NewList)
  BY <1>0, <1>1 DEF Shape
<1>5. Numbered(NewList, P)
  BY <1>1, <1>3 DEF Numbered
<1>6. LinksExact(NewList, P)
  <2>1. \A i \in 1..MaxLevel : On(NewList, i) = {} /\ Linked(NewList, i) = {Header}
    BY <1>1 DEF On, Linked
  <2>2. \A i \in 1..MaxLevel : \A n \in Linked(NewList, i) :
          /\ FirstPast(NewList, P, i, P[n], NewList.forward[n][i])
          /\ NewList.span[n][i] = Reach(NewList, P, NewList.forward[n][i]) - P[n]
    BY <1>1, <1>3, <2>1 DEF FirstPast, Reach
  <2> QED
    BY <2>2 DEF LinksExact
<1>7. BackExact(NewList, P)
  BY <1>1 DEF BackExact
<1>8. Sound(NewList, P)
  BY <1>4, <1>5, <1>6, <1>7 DEF Sound
<1> QED
  BY <1>2, <1>8 DEF InStep

\* SortedSet.remove.
LEMMA RemovedKeeps ==
  ASSUME NEW z, InStep(z), NEW m
  PROVE  InStep(Removed(z, m))
<1>1. CASE m \in DOMAIN z.dict
  <2>1. PICK P : Sound(z.sl, P)
    BY DEF InStep
  <2>2. z.sl.score = z.dict /\ m \in DOMAIN z.sl.score
    BY <1>1 DEF InStep
  <2> DEFINE k == Delete(z.sl, z.sl.score[m], m)
  <2>3. (\E Q : Sound(k, Q)) /\ k.score = [n \in DOMAIN z.sl.score \ {m} |-> z.sl.score[n]]
    BY <2>1, <2>2, DeleteSound
  <2>4. Removed(z, m) = [dict |-> [n \in DOMAIN z.dict \ {m} |-> z.dict[n]], sl |-> k]
    BY <1>1, <2>2 DEF Removed
  <2> HIDE DEF k
  <2> QED
    BY <2>2, <2>3, <2>4 DEF InStep
<1>2. CASE m \notin DOMAIN z.dict
  BY <1>2 DEF Removed
<1> QED
  BY <1>1, <1>2

\* SortedSet.add, of a new member or of a new score, refused or not.
LEMMA AddKeeps ==
  ASSUME NEW z, InStep(z), NEW item \in Item, NEW flags
  PROVE  InStep(Add(z, item, flags))
<1> DEFINE m == item.member
           s == item.score
           from == IF m \in DOMAIN z.dict THEN Delete(z.sl, z.dict[m], m) ELSE z.sl
           k == Insert(from, s, m, item.level)
<1>0. m \in Member /\ s \in Score /\ item.level \in 1..MaxLevel
  BY DEF Item
<1>1. PICK P : Sound(z.sl, P)
  BY DEF InStep
<1>2. z.sl.score = z.dict
  BY DEF InStep
<1>3. /\ \E Q : Sound(from, Q)
      /\ m \notin DOMAIN from.score
      /\ DOMAIN from.score \cup {m} = DOMAIN z.dict \cup {m}
      /\ \A n \in DOMAIN from.score : from.score[n] = z.dict[n]
  <2>1. CASE m \in DOMAIN z.dict
    <3>1. from = Delete(z.sl, z.sl.score[m], m) /\ m \in DOMAIN z.sl.score
      BY <1>2, <2>1
    <3> HIDE DEF from
    <3>2. (\E Q : Sound(from, Q)) /\ from.score = [n \in DOMAIN z.sl.score \ {m} |-> z.sl.score[n]]
      BY <1>1, <3>1, DeleteSound
    <3> QED
      BY <1>2, <3>2
  <2>2. CASE m \notin DOMAIN z.dict
    BY <1>1, <1>2, <2>2
  <2> QED
    BY <2>1, <2>2
<1>4. Add(z, item, flags) = z \/ Add(z, item, flags) = [dict |-> Extended(z.dict, m, s), sl |-> k]
  BY DEF Add
<1> HIDE DEF from
<1>5. /\ \E Q : Sound(k, Q)
      /\ k.score = [n \in DOMAIN from.score \cup {m} |-> IF n = m THEN s ELSE from.score[n]]
  <2>1. PICK Q : Sound(from, Q)
    BY <1>3
  <2> HIDE DEF m, s
  <2> QED
    BY <1>0, <1>3, <2>1, InsertSound
<1>6. k.score = Extended(z.dict, m, s)
  <2> HIDE DEF k, m, s
  <2> QED
    BY <1>3, <1>5 DEF Extended
<1> HIDE DEF k
<1> QED
  BY <1>4, <1>5, <1>6 DEF InStep

\* The loops of ZADD and of ZREM over their arguments, as functions.
Adds(f, n, from, items, flags) ==
  f = [k \in 0..n |-> IF k = 0 THEN from ELSE Add(f[k - 1], items[k], flags)]
Removes(f, n, from, members) ==
  f = [k \in 0..n |-> IF k = 0 THEN from ELSE Removed(f[k - 1], members[k])]

LEMMA AddsExist ==
  ASSUME NEW n \in Nat, NEW from, NEW items, NEW flags
  PROVE  \E f : Adds(f, n, from, items, flags)
<1> DEFINE I == {j \in Nat : \E f : Adds(f, j, from, items, flags)}
<1>1. 0 \in I
  <2> DEFINE f == [k \in 0..0 |-> from]
             g == [k \in 0..0 |-> IF k = 0 THEN from ELSE Add(f[k - 1], items[k], flags)]
  <2>1. \A k \in 0..0 : f[k] = g[k]
    OBVIOUS
  <2>2. Adds(f, 0, from, items, flags)
    BY <2>1 DEF Adds
  <2> HIDE DEF f
  <2> QED
    BY <2>2
<1>2. ASSUME NEW j \in Nat, j \in I PROVE j + 1 \in I
  <2>1. PICK f : f = [k \in 0..j |-> IF k = 0 THEN from ELSE Add(f[k - 1], items[k], flags)]
    BY <1>2 DEF Adds
  <2> DEFINE g == [k \in 0..(j + 1) |-> IF k = j + 1 THEN Add(f[j], items[j + 1], flags) ELSE f[k]]
             h == [k \in 0..(j + 1) |-> IF k = 0 THEN from ELSE Add(g[k - 1], items[k], flags)]
  <2>2. ASSUME NEW k \in 0..(j + 1) PROVE g[k] = h[k]
    <3>1. CASE k = j + 1
      <4>1. k - 1 = j /\ j \in 0..(j + 1) /\ j # j + 1 /\ k # 0
        BY <3>1
      <4> QED
        BY <3>1, <4>1
    <3>2. CASE k # j + 1
      <4>1. k \in 0..j
        BY <3>2
      <4>2. f[k] = IF k = 0 THEN from ELSE Add(f[k - 1], items[k], flags)
        BY <2>1, <4>1
      <4>3. k # 0 => k - 1 \in 0..(j + 1) /\ k - 1 # j + 1
        BY <4>1
      <4>4. k # 0 => g[k - 1] = f[k - 1]
        BY <4>3
      <4> QED
        BY <3>2, <4>1, <4>2, <4>4
    <3> QED
      BY <3>1, <3>2
  <2>3. g = h
    BY <2>2
  <2>4. Adds(g, j + 1, from, items, flags)
    BY <2>3 DEF Adds
  <2> HIDE DEF g
  <2> QED
    BY <2>4
<1> HIDE DEF I
<1>3. Nat \subseteq I
  BY ONLY <1>1, <1>2, Induction
<1> QED
  BY <1>3 DEF I

LEMMA RemovesExist ==
  ASSUME NEW n \in Nat, NEW from, NEW members
  PROVE  \E f : Removes(f, n, from, members)
<1> DEFINE I == {j \in Nat : \E f : Removes(f, j, from, members)}
<1>1. 0 \in I
  <2> DEFINE f == [k \in 0..0 |-> from]
             g == [k \in 0..0 |-> IF k = 0 THEN from ELSE Removed(f[k - 1], members[k])]
  <2>1. \A k \in 0..0 : f[k] = g[k]
    OBVIOUS
  <2>2. Removes(f, 0, from, members)
    BY <2>1 DEF Removes
  <2> HIDE DEF f
  <2> QED
    BY <2>2
<1>2. ASSUME NEW j \in Nat, j \in I PROVE j + 1 \in I
  <2>1. PICK f : f = [k \in 0..j |-> IF k = 0 THEN from ELSE Removed(f[k - 1], members[k])]
    BY <1>2 DEF Removes
  <2> DEFINE g == [k \in 0..(j + 1) |-> IF k = j + 1 THEN Removed(f[j], members[j + 1]) ELSE f[k]]
             h == [k \in 0..(j + 1) |-> IF k = 0 THEN from ELSE Removed(g[k - 1], members[k])]
  <2>2. ASSUME NEW k \in 0..(j + 1) PROVE g[k] = h[k]
    <3>1. CASE k = j + 1
      <4>1. k - 1 = j /\ j \in 0..(j + 1) /\ j # j + 1 /\ k # 0
        BY <3>1
      <4> QED
        BY <3>1, <4>1
    <3>2. CASE k # j + 1
      <4>1. k \in 0..j
        BY <3>2
      <4>2. f[k] = IF k = 0 THEN from ELSE Removed(f[k - 1], members[k])
        BY <2>1, <4>1
      <4>3. k # 0 => k - 1 \in 0..(j + 1) /\ k - 1 # j + 1
        BY <4>1
      <4>4. k # 0 => g[k - 1] = f[k - 1]
        BY <4>3
      <4> QED
        BY <3>2, <4>1, <4>2, <4>4
    <3> QED
      BY <3>1, <3>2
  <2>3. g = h
    BY <2>2
  <2>4. Removes(g, j + 1, from, members)
    BY <2>3 DEF Removes
  <2> HIDE DEF g
  <2> QED
    BY <2>4
<1> HIDE DEF I
<1>3. Nat \subseteq I
  BY ONLY <1>1, <1>2, Induction
<1> QED
  BY <1>3 DEF I


\* ZADD and ZREM keep the Map and the list in step, item by item.
LEMMA ZaddKeeps ==
  ASSUME ZsetInv, NEW n \in Nat, NEW items, DOMAIN items = 1..n, Len(items) = n,
         \A k \in 1..n : items[k] \in Item, NEW flags, Zadd(items, flags)
  PROVE  ZsetInv'
<1> DEFINE from == [dict |-> dict, sl |-> sl]
           z == CHOOSE f : f = [k \in 0..n |-> IF k = 0 THEN from ELSE Add(f[k - 1], items[k], flags)]
           I == {k \in Nat : k \in 0..n => InStep(z[k])}
<1>1. SetZset(z[n])
  BY DEF Zadd
<1>2. z = [k \in 0..n |-> IF k = 0 THEN from ELSE Add(z[k - 1], items[k], flags)]
  <2> HIDE DEF from
  <2>1. \E f : f = [k \in 0..n |-> IF k = 0 THEN from ELSE Add(f[k - 1], items[k], flags)]
    <3>1. PICK f : Adds(f, n, from, items, flags)
      BY AddsExist
    <3> QED
      BY <3>1 DEF Adds
  <2> QED
    BY <2>1
<1> HIDE DEF z, from
<1>3. 0 \in I
  BY <1>2 DEF from, ZsetInv
<1>4. ASSUME NEW k \in Nat, k \in I PROVE k + 1 \in I
  <2> SUFFICES ASSUME k + 1 \in 0..n PROVE InStep(z[k + 1])
    OBVIOUS
  <2>1. k \in 0..n /\ k + 1 \in 1..n /\ (k + 1) - 1 = k
    OBVIOUS
  <2>2. z[k + 1] = Add(z[k], items[k + 1], flags)
    BY <1>2, <2>1
  <2>3. InStep(z[k]) /\ items[k + 1] \in Item
    BY <1>4, <2>1
  <2> QED
    BY <2>2, <2>3, AddKeeps
<1> HIDE DEF I
<1>5. Nat \subseteq I
  BY ONLY <1>3, <1>4, Induction
<1>6. InStep(z[n])
  BY <1>5 DEF I
<1> QED
  BY <1>1, <1>6 DEF SetZset, InStep, ZsetInv

\* ZREM, which leaves a new list when it takes the last member.
LEMMA ZremKeeps ==
  ASSUME ZsetInv, NEW n \in Nat, NEW members, DOMAIN members = 1..n, Len(members) = n, Zrem(members)
  PROVE  ZsetInv'
<1> DEFINE from == [dict |-> dict, sl |-> sl]
           z == CHOOSE f : f = [k \in 0..n |-> IF k = 0 THEN from ELSE Removed(f[k - 1], members[k])]
           I == {k \in Nat : k \in 0..n => InStep(z[k])}
<1>1. SetZset(IF DOMAIN z[n].dict = {} THEN [dict |-> NoMember, sl |-> NewList] ELSE z[n])
  BY DEF Zrem
<1>2. z = [k \in 0..n |-> IF k = 0 THEN from ELSE Removed(z[k - 1], members[k])]
  <2> HIDE DEF from
  <2>1. \E f : f = [k \in 0..n |-> IF k = 0 THEN from ELSE Removed(f[k - 1], members[k])]
    <3>1. PICK f : Removes(f, n, from, members)
      BY RemovesExist
    <3> QED
      BY <3>1 DEF Removes
  <2> QED
    BY <2>1
<1> HIDE DEF z, from
<1>3. 0 \in I
  BY <1>2 DEF from, ZsetInv
<1>4. ASSUME NEW k \in Nat, k \in I PROVE k + 1 \in I
  <2> SUFFICES ASSUME k + 1 \in 0..n PROVE InStep(z[k + 1])
    OBVIOUS
  <2>1. k \in 0..n /\ k + 1 \in 1..n /\ (k + 1) - 1 = k
    OBVIOUS
  <2>2. z[k + 1] = Removed(z[k], members[k + 1])
    BY <1>2, <2>1
  <2>3. InStep(z[k])
    BY <1>4, <2>1
  <2> QED
    BY <2>2, <2>3, RemovedKeeps
<1> HIDE DEF I
<1>5. Nat \subseteq I
  BY ONLY <1>3, <1>4, Induction
<1>6. InStep(z[n])
  BY <1>5 DEF I
<1>7. InStep([dict |-> dict', sl |-> sl'])
  BY <1>1, <1>6, NewIsInStep DEF SetZset, InStep
<1> QED
  BY <1>7 DEF ZsetInv, InStep

\* Every command keeps the Map and the list in step.
LEMMA ZsetStep == ZsetInv /\ [ZsetNext]_zsetVars => ZsetInv'
<1> SUFFICES ASSUME ZsetInv, [ZsetNext]_zsetVars PROVE ZsetInv'
  OBVIOUS
<1>1. CASE \E item \in Item, flags \in SUBSET {"nx", "xx", "gt", "lt"} : Zadd(<<item>>, flags)
  <2>1. PICK item \in Item, flags \in SUBSET {"nx", "xx", "gt", "lt"} : Zadd(<<item>>, flags)
    BY <1>1
  <2> DEFINE items == <<item>>
  <2>2. DOMAIN items = 1..1 /\ Len(items) = 1 /\ \A k \in 1..1 : items[k] \in Item
    OBVIOUS
  <2> HIDE DEF items
  <2>3. Zadd(items, flags)
    BY <2>1 DEF items
  <2> QED
    BY <2>2, <2>3, ZaddKeeps
<1>2. CASE \E i, j \in Item : Zadd(<<i, j>>, {})
  <2>1. PICK i \in Item, j \in Item : Zadd(<<i, j>>, {})
    BY <1>2
  <2> DEFINE items == <<i, j>>
  <2>2. DOMAIN items = 1..2 /\ Len(items) = 2 /\ \A k \in 1..2 : items[k] \in Item
    OBVIOUS
  <2> HIDE DEF items
  <2>3. Zadd(items, {})
    BY <2>1 DEF items
  <2> QED
    BY <2>2, <2>3, ZaddKeeps
<1>3. CASE \E m \in Member, by \in {-1, 1}, level \in 1..MaxLevel : Zincrby(m, by, level)
  <2>1. PICK m \in Member, by \in {-1, 1}, level \in 1..MaxLevel : Zincrby(m, by, level)
    BY <1>3
  <2> DEFINE sum == by + (IF m \in DOMAIN dict THEN dict[m] ELSE 0)
             item == [member |-> m, score |-> sum, level |-> level]
             items == <<item>>
  <2>2. sum \in Score /\ Zadd(items, {})
    BY <2>1 DEF Zincrby
  <2> HIDE DEF sum
  <2>3. item \in Item
    BY <2>2 DEF Item
  <2> HIDE DEF item
  <2>4. DOMAIN items = 1..1 /\ Len(items) = 1 /\ \A k \in 1..1 : items[k] \in Item
    BY <2>3
  <2> HIDE DEF items
  <2> QED
    BY <2>2, <2>4, ZaddKeeps
<1>4. CASE \E n \in 1..Cardinality(Member) : \E members \in [1..n -> Member] : Zrem(members)
  <2>1. PICK n \in 1..Cardinality(Member) : \E members \in [1..n -> Member] : Zrem(members)
    BY <1>4
  <2>2. PICK members \in [1..n -> Member] : Zrem(members)
    BY <2>1
  <2>3. n \in Nat
    BY ZsetAssumption, FS_CardinalityType
  <2>4. DOMAIN members = 1..n /\ Len(members) = n
    BY <2>3
  <2> QED
    BY <2>2, <2>3, <2>4, ZremKeeps
<1>5. CASE UNCHANGED zsetVars
  BY <1>5 DEF zsetVars, ZsetInv, InStep
<1> QED
  BY <1>1, <1>2, <1>3, <1>4, <1>5 DEF ZsetNext

\* At every time the list is Sound and holds the scores of the Map.
THEOREM ListInStep == ZsetSpec => []ZsetInv
<1>1. ZsetInit => ZsetInv
  BY NewIsInStep DEF ZsetInit, ZsetInv, InStep
<1> QED
  BY <1>1, ZsetStep, PTL DEF ZsetSpec

-----------------------------------------------------------------------------
\* The node at a position, and the nodes after position a up to position b, in order.
NodeAt(l, P, k) == CHOOSE n \in DOMAIN l.score : P[n] = k
Segment(l, P, a, b) == {n \in DOMAIN l.score : a < P[n] /\ P[n] <= b}
InLine(l, P, a, b) == [k \in 1..(b - a) |-> NodeAt(l, P, a + k)]

\* Positions and nodes are one to one.
LEMMA NodeAtIs ==
  ASSUME NEW l, NEW P, Sound(l, P)
  PROVE  /\ \A k \in 1..l.length : NodeAt(l, P, k) \in DOMAIN l.score /\ P[NodeAt(l, P, k)] = k
         /\ \A n \in DOMAIN l.score : P[n] \in 1..l.length /\ NodeAt(l, P, P[n]) = n
<1>1. /\ \A k \in 1..l.length : \E n \in DOMAIN l.score : P[n] = k
      /\ \A m, n \in DOMAIN l.score : P[m] = P[n] => m = n
      /\ \A n \in DOMAIN l.score : P[n] \in 1..l.length
  BY DEF Sound, Numbered
<1> QED
  BY <1>1 DEF NodeAt

\* A stretch has as many nodes as positions.
LEMMA SegmentCounts ==
  ASSUME NEW l, NEW P, Sound(l, P), NEW a \in 0..l.length, NEW b \in 0..l.length, a <= b
  PROVE  IsFiniteSet(Segment(l, P, a, b)) /\ Cardinality(Segment(l, P, a, b)) = b - a
<1> DEFINE S == Segment(l, P, a, b)
           f == [k \in (a + 1)..b |-> NodeAt(l, P, k)]
<1>0. l.length \in Nat
  BY NodesIn
<1>1. \A k \in (a + 1)..b : k \in 1..l.length /\ a < k /\ k <= b
  BY <1>0
<1>2. \A k \in (a + 1)..b : f[k] \in S /\ P[f[k]] = k
  BY <1>1, NodeAtIs DEF Segment
<1>3. \A n \in S : P[n] \in (a + 1)..b /\ f[P[n]] = n
  <2>1. \A n \in S : P[n] \in 1..l.length /\ NodeAt(l, P, P[n]) = n /\ a < P[n] /\ P[n] <= b
    BY NodeAtIs DEF Segment
  <2> QED
    BY <1>0, <2>1
<1>4. f \in Bijection((a + 1)..b, S)
  <2>1. f \in [(a + 1)..b -> S] /\ \A n \in S : \E k \in (a + 1)..b : f[k] = n
    BY <1>2, <1>3
  <2>2. \A j, k \in (a + 1)..b : f[j] = f[k] => j = k
    BY <1>2
  <2> HIDE DEF f, S
  <2> QED BY <2>1, <2>2, Fun_IsBij
<1> HIDE DEF f, S
<1>5. a + 1 \in Int /\ b \in Int
  BY <1>0
<1>6. /\ IsFiniteSet((a + 1)..b)
      /\ Cardinality((a + 1)..b) = IF a + 1 > b THEN 0 ELSE b - (a + 1) + 1
  BY <1>5, FS_Interval
<1>7. Cardinality((a + 1)..b) = b - a
  BY <1>0, <1>6
<1>8. IsFiniteSet(S) /\ Cardinality(S) = Cardinality((a + 1)..b)
  BY <1>4, <1>6, FS_Bijection DEF ExistsBijection
<1> QED
  BY <1>7, <1>8 DEF S

\* Sorted by the order of the Map, a stretch is its nodes in their positions.
LEMMA SortedIs ==
  ASSUME NEW P, Sound(sl, P), sl.score = dict, NEW a \in 0..sl.length, NEW b \in 0..sl.length, a <= b
  PROVE  Sorted(Segment(sl, P, a, b)) = InLine(sl, P, a, b)
<1> DEFINE S == Segment(sl, P, a, b)
<1>0. sl.length \in Nat /\ a \in Nat /\ b \in Nat /\ b - a \in Nat
  BY NodesIn
<1>1. Cardinality(S) = b - a
  BY SegmentCounts
<1>2. ASSUME NEW m \in S PROVE Cardinality(Preceding(m, S)) = P[m] - 1 - a
  <2>1. m \in DOMAIN sl.score /\ P[m] \in 1..sl.length /\ a < P[m] /\ P[m] <= b
    BY NodeAtIs DEF Segment
  <2>2. \A n \in S : n \in DOMAIN sl.score /\ P[n] \in 1..sl.length
    BY NodeAtIs DEF Segment
  <2>3. \A n \in S : Precedes(dict[n], n, dict[m], m) <=> P[n] < P[m]
    BY <2>1, <2>2 DEF Sound, Numbered
  <2>4. \A n \in S : P[n] < P[m] <=> P[n] <= P[m] - 1
    BY <1>0, <2>1, <2>2
  <2>5. \A n \in DOMAIN sl.score : P[n] \in 1..sl.length /\ (P[n] <= P[m] - 1 => P[n] <= b)
    BY <1>0, <2>1, NodeAtIs
  <2>6. Preceding(m, S) = Segment(sl, P, a, P[m] - 1)
    BY <2>3, <2>4, <2>5 DEF Preceding, Segment
  <2>7. P[m] - 1 \in 0..sl.length /\ a <= P[m] - 1
    BY <1>0, <2>1
  <2> QED
    BY <1>0, <2>1, <2>6, <2>7, SegmentCounts
<1>3. ASSUME NEW k \in 1..(b - a)
      PROVE  (CHOOSE m \in S : Cardinality(Preceding(m, S)) = k - 1) = NodeAt(sl, P, a + k)
  <2> DEFINE n == NodeAt(sl, P, a + k)
  <2>1. a + k \in 1..sl.length /\ a < a + k /\ a + k <= b
    BY <1>0
  <2>2. n \in S /\ P[n] = a + k
    BY <2>1, NodeAtIs DEF Segment
  <2>3. Cardinality(Preceding(n, S)) = k - 1
    BY <1>0, <1>2, <2>2
  <2>4. ASSUME NEW m \in S, Cardinality(Preceding(m, S)) = k - 1 PROVE m = n
    <3>1. m \in DOMAIN sl.score /\ P[m] \in 1..sl.length /\ NodeAt(sl, P, P[m]) = m
      BY NodeAtIs DEF Segment
    <3>2. P[m] = a + k
      BY <1>0, <1>2, <2>4, <3>1
    <3> QED
      BY <3>1, <3>2
  <2> HIDE DEF n, S
  <2> QED
    BY <2>2, <2>3, <2>4 DEF n
<1> QED
  BY <1>1, <1>3 DEF Sorted, InLine

\* getRank answers the position of a member.
LEMMA RankIs ==
  ASSUME NEW P, Sound(sl, P), sl.score = dict, NEW m \in DOMAIN dict
  PROVE  GetRank(dict[m], m) = P[m]
<1> DEFINE c == P[m]
           near == UpTo(dict[m], m)
           stop == Descent(sl, near)
           hits == {i \in 1..sl.level : stop[i].node = m /\ sl.score[m] = dict[m]}
<1>0. c \in 1..sl.length /\ sl.length \in Nat /\ sl.level \in Nat \ {0} /\ P[Header] = 0
  BY NodesIn
<1>1. \A n \in DOMAIN sl.score : PlaceOf(P, n) \in near <=> P[n] <= c
  <2> SUFFICES ASSUME NEW n \in DOMAIN sl.score PROVE PlaceOf(P, n) \in near <=> P[n] <= c
    OBVIOUS
  <2>1. P[n] \in Int /\ c \in Int
    BY <1>0, NodesIn
  <2>2. P[m] < P[n] <=> Precedes(sl.score[m], m, sl.score[n], n)
    BY DEF Sound, Numbered
  <2>3. PlaceOf(P, n) \in near <=> ~Precedes(dict[m], m, sl.score[n], n)
    BY <2>1 DEF UpTo, Place, PlaceOf
  <2> QED
    BY <2>1, <2>2, <2>3
<1>2. NearBy(sl, P, near, c)
  BY <1>1 DEF NearBy, UpTo, Place
<1>3. c \in Nat
  BY <1>0
<1>4. \A i \in 1..sl.level : \E y : LastBy(sl, P, i, c, y) /\ stop[i] = PlaceOf(P, y)
  <2> HIDE DEF near, c
  <2> QED
    BY <1>2, <1>3, DescentIs
<1>5. 1 \in hits
  <2>1. 1 \in 1..sl.level
    BY <1>0
  <2>2. PICK y : LastBy(sl, P, 1, c, y) /\ stop[1] = PlaceOf(P, y)
    BY <1>4, <2>1
  <2>3. P[y] = c
    <3>1. c \in 0..sl.length
      BY <1>0
    <3> HIDE DEF c
    <3> QED
      BY <2>2, <3>1, LastOnFirst
  <2>4. y \in DOMAIN sl.score \cup {Header}
    BY <2>2 DEF LastBy, Linked, On
  <2>5. y \in DOMAIN sl.score
    BY <1>0, <2>3, <2>4
  <2>6. y = m
    BY <2>3, <2>5 DEF Sound, Numbered
  <2> HIDE DEF stop
  <2> QED
    BY <2>1, <2>2, <2>6 DEF PlaceOf
<1> HIDE DEF stop
<1>6. Max(hits) \in hits
  <2>1. hits \in SUBSET (1..sl.level) /\ hits # {} /\ sl.level \in Nat
    BY <1>0, <1>5
  <2> HIDE DEF hits
  <2> QED
    BY ONLY <2>1, MaxIn
<1>7. ASSUME NEW i \in hits PROVE stop[i].rank = c
  <2>1. PICK y : stop[i] = PlaceOf(P, y)
    BY <1>4
  <2>2. stop[i].node = y /\ stop[i].rank = P[y]
    BY <2>1 DEF PlaceOf
  <2> QED
    BY <2>2
<1>8. GetRank(dict[m], m) = stop[Max(hits)].rank
  BY <1>5 DEF GetRank, stop
<1> HIDE DEF hits
<1> QED
  BY <1>6, <1>7, <1>8

\* getByRank answers the node at a position.
LEMMA ByRankIs ==
  ASSUME NEW P, Sound(sl, P), NEW k \in 1..sl.length
  PROVE  GetByRank(k) = NodeAt(sl, P, k)
<1> DEFINE near == Within(k)
           stop == Descent(sl, near)
           hits == {i \in 1..sl.level : stop[i].rank = k}
<1>0. k \in Nat /\ k # 0 /\ sl.length \in Nat /\ sl.level \in Nat \ {0} /\ P[Header] = 0
  BY NodesIn
<1>1. \A n \in DOMAIN sl.score : P[n] \in Int
  BY NodesIn
<1>2. NearBy(sl, P, near, k)
  BY <1>1 DEF NearBy, Within, Place, PlaceOf
<1>3. \A i \in 1..sl.level : \E y : LastBy(sl, P, i, k, y) /\ stop[i] = PlaceOf(P, y)
  <2> HIDE DEF near
  <2> QED
    BY <1>0, <1>2, DescentIs
<1> HIDE DEF stop
<1>4. 1 \in hits
  <2>1. 1 \in 1..sl.level /\ k \in 0..sl.length
    BY <1>0
  <2>2. PICK y : LastBy(sl, P, 1, k, y) /\ stop[1] = PlaceOf(P, y)
    BY <1>3, <2>1
  <2>3. P[y] = k
    BY <2>1, <2>2, LastOnFirst
  <2> QED
    BY <2>1, <2>2, <2>3 DEF PlaceOf
<1>5. Max(hits) \in hits
  <2>1. hits \in SUBSET (1..sl.level) /\ hits # {} /\ sl.level \in Nat
    BY <1>0, <1>4
  <2> HIDE DEF hits
  <2> QED
    BY ONLY <2>1, MaxIn
<1>6. ASSUME NEW i \in hits PROVE stop[i].node = NodeAt(sl, P, k)
  <2>1. PICK y : LastBy(sl, P, i, k, y) /\ stop[i] = PlaceOf(P, y)
    BY <1>3
  <2>2. P[y] = k /\ stop[i].node = y
    BY <2>1 DEF PlaceOf
  <2>3. y \in DOMAIN sl.score \cup {Header}
    BY <2>1 DEF LastBy, Linked, On
  <2>4. y \in DOMAIN sl.score
    BY <1>0, <2>2, <2>3
  <2> QED
    BY <2>2, <2>4, NodeAtIs
<1>7. GetByRank(k) = stop[Max(hits)].node
  BY <1>4 DEF GetByRank, stop
<1> HIDE DEF hits
<1> QED
  BY <1>5, <1>6, <1>7

-----------------------------------------------------------------------------
LEMMA MinOfTwo ==
  ASSUME NEW a \in Int, NEW b \in Int
  PROVE  Min({a, b}) = IF a <= b THEN a ELSE b
<1> DEFINE m == IF a <= b THEN a ELSE b
<1>1. m \in {a, b} /\ \A y \in {a, b} : m <= y
  OBVIOUS
<1>2. \A x \in {a, b} : (\A y \in {a, b} : x <= y) => x = m
  OBVIOUS
<1> QED
  BY <1>1, <1>2 DEF Min

LEMMA LeastIs ==
  ASSUME NEW S \in SUBSET Int, NEW x \in S, \A y \in S : x <= y
  PROVE  Min(S) = x
<1>1. \A y \in S : (\A z \in S : y <= z) => y = x
  OBVIOUS
<1> QED
  BY <1>1 DEF Min

\* SubSeq as a function of its places.
LEMMA SubSeqIs ==
  ASSUME NEW N \in Nat, NEW q, DOMAIN q = 1..N, NEW m \in Int, NEW n \in Int, 1 <= m, n <= N
  PROVE  SubSeq(q, m, n) = [i \in 1..(n - m + 1) |-> q[m + i - 1]]
<1> DEFINE S == {q[i] : i \in 1..N}
           s == SubSeq(q, m, n)
           k == IF m <= n THEN n - m + 1 ELSE 0
<1>1. \A i \in m..n : q[i] \in S
  OBVIOUS
<1> HIDE DEF S
<1>2. /\ s \in Seq(S) /\ Len(s) = k
      /\ \A i \in 1..(n - m + 1) : s[i] = q[m + i - 1]
  BY <1>1, SubSeqProperties
<1>3. 1..k = 1..(n - m + 1)
  OBVIOUS
<1> HIDE DEF s, k
<1>4. s = [i \in 1..k |-> s[i]]
  BY <1>2
<1> QED
  BY <1>2, <1>3, <1>4 DEF s

\* The nodes a walk along a link sees: from the a-th of a sequence on.
From(q, a, n) == [k \in 1..n |-> q[a + k - 1]]

\* A link that leads from each element of q to the next, and from the last to Nil.
Chained(q, N, link) ==
  /\ DOMAIN q = 1..N
  /\ \A k \in 1..N : q[k] # Nil /\ link[q[k]] = IF k = N THEN Nil ELSE q[k + 1]

\* n rounds along the link see the n elements from place a on.
LEMMA AlongIs ==
  ASSUME NEW N \in Nat, NEW q, NEW link, Chained(q, N, link),
         NEW a \in 1..(N + 1), NEW node, node = IF a = N + 1 THEN Nil ELSE q[a],
         NEW n \in 0..(N + 1 - a)
  PROVE  Along(link, node, n) = From(q, a, n)
<1> DEFINE S == {q[k] : k \in 1..N}
           V == [next : S \cup {Nil}, seen : Seq(S)]
           from == [next |-> node, seen |-> <<>>]
           step == [k \in 1..n |-> [v \in V |-> Passed(link, v)]]
           Steps(f) == f = [k \in 0..n |-> IF k = 0 THEN from ELSE Passed(link, f[k - 1])]
           To(k) == IF k = N + 1 THEN Nil ELSE q[k]
<1>0. /\ n \in Nat /\ DOMAIN q = 1..N
      /\ \A k \in 1..N : q[k] # Nil /\ link[q[k]] = IF k = N THEN Nil ELSE q[k + 1]
  BY DEF Chained
<1>1. from \in V
  <2>1. node \in S \cup {Nil}
    BY <1>0
  <2> HIDE DEF S
  <2> QED
    BY <2>1
<1>2. ASSUME NEW v \in V PROVE Passed(link, v) \in V
  <2>1. CASE v.next = Nil
    BY <2>1 DEF Passed
  <2>2. CASE v.next # Nil
    <3>1. v.next \in S /\ v.seen \in Seq(S)
      BY <2>2
    <3>2. link[v.next] \in S \cup {Nil}
      <4>1. PICK k \in 1..N : v.next = q[k]
        BY <3>1
      <4>2. k # N => k + 1 \in 1..N
        OBVIOUS
      <4> QED
        BY <1>0, <4>1, <4>2
    <3> HIDE DEF S
    <3>3. Append(v.seen, v.next) \in Seq(S)
      BY <3>1, AppendProperties
    <3> QED
      BY <2>2, <3>2, <3>3 DEF Passed
  <2> QED
    BY <2>1, <2>2
<1>3. \A k \in 1..n : \A v \in V : step[k][v] = Passed(link, v)
  OBVIOUS
<1> HIDE DEF V, step, S
<1>4. \A k \in 1..n : \A v \in V : step[k][v] \in V
  BY <1>2, <1>3
<1>5. PICK f : Iterates(f, n, from, step) /\ \A k \in 0..n : f[k] \in V
  <2> HIDE DEF from
  <2> QED
    BY ONLY <1>0, <1>1, <1>4, Iteration
<1>6. Steps(f)
  <2> DEFINE g == [k \in 0..n |-> IF k = 0 THEN from ELSE Passed(link, f[k - 1])]
  <2>1. \A k \in 0..n : k # 0 => k \in 1..n /\ k - 1 \in 0..n
    BY <1>0
  <2> HIDE DEF from
  <2>2. f = [k \in 0..n |-> IF k = 0 THEN from ELSE step[k][f[k - 1]]]
    BY <1>5 DEF Iterates
  <2>3. \A k \in 0..n : f[k] = g[k]
    BY <1>3, <1>5, <2>1, <2>2
  <2>4. f = g
    BY <2>2, <2>3
  <2> QED
    BY <2>4
<1> DEFINE w == CHOOSE g : Steps(g)
<1>7. Along(link, node, n) = w[n].seen
  BY DEF Along
<1>8. Steps(w)
  BY <1>6
<1> HIDE DEF w
<1>9. w[0] = from /\ \A k \in 1..n : w[k] = Passed(link, w[k - 1])
  BY <1>8
<1> DEFINE Arrived(k) ==
             /\ w[k].next = To(a + k) /\ w[k].seen = From(q, a, k) /\ w[k].seen \in Seq(S)
           I == {k \in Nat : k \in 0..n => Arrived(k)}
<1>10. 0 \in I
  <2>1. a + 0 = a
    OBVIOUS
  <2>2. w[0].next = To(a) /\ w[0].seen = <<>>
    BY <1>9
  <2>3. From(q, a, 0) = <<>>
    BY DEF From
  <2>4. <<>> \in Seq(S)
    OBVIOUS
  <2> QED
    BY <2>1, <2>2, <2>3, <2>4
<1>11. ASSUME NEW k \in Nat, k \in I PROVE k + 1 \in I
  <2> SUFFICES ASSUME k + 1 \in 0..n PROVE Arrived(k + 1)
    OBVIOUS
  <2>1. k \in 0..n /\ k + 1 \in 1..n /\ (k + 1) - 1 = k /\ a + k \in 1..N /\ a + (k + 1) = (a + k) + 1
    OBVIOUS
  <2>2. w[k].next = q[a + k] /\ w[k].seen = From(q, a, k) /\ w[k].seen \in Seq(S)
    BY <1>11, <2>1
  <2>3. q[a + k] # Nil /\ q[a + k] \in S
    BY <1>0, <2>1 DEF S
  <2>4. w[k + 1] = [next |-> link[q[a + k]], seen |-> Append(w[k].seen, q[a + k])]
    BY <1>9, <2>1, <2>2, <2>3 DEF Passed
  <2>5. link[q[a + k]] = To(a + (k + 1))
    BY <1>0, <2>1
  <2>6. Len(From(q, a, k)) = k
    BY <1>11 DEF From
  <2>7. /\ Append(w[k].seen, q[a + k]) \in Seq(S)
        /\ Len(Append(w[k].seen, q[a + k])) = k + 1
        /\ \A j \in 1..k : Append(w[k].seen, q[a + k])[j] = w[k].seen[j]
        /\ Append(w[k].seen, q[a + k])[k + 1] = q[a + k]
    BY ONLY <2>2, <2>3, <2>6, AppendProperties
  <2> DEFINE t == Append(w[k].seen, q[a + k])
  <2>8. t = From(q, a, k + 1)
    <3> HIDE DEF t
    <3>0. t \in Seq(S) /\ Len(t) = k + 1
      BY <2>7 DEF t
    <3>1. t = [j \in 1..(k + 1) |-> t[j]]
      BY <3>0
    <3>2. ASSUME NEW j \in 1..(k + 1) PROVE t[j] = q[a + j - 1]
      <4>1. CASE j = k + 1
        BY <2>7, <4>1 DEF t
      <4>2. CASE j # k + 1
        <5>1. j \in 1..k
          BY <4>2
        <5>2. t[j] = w[k].seen[j]
          BY <2>7, <5>1 DEF t
        <5> QED
          BY <2>2, <5>1, <5>2 DEF From
      <4> QED
        BY <4>1, <4>2
    <3> QED
      BY <3>1, <3>2 DEF From
  <2> QED
    BY <2>4, <2>5, <2>7, <2>8
<1> HIDE DEF I
<1>12. Nat \subseteq I
  BY ONLY <1>10, <1>11, Induction
<1> QED
  BY <1>0, <1>7, <1>12 DEF I

\* The bounds of ZRANGE are places of the sequence, and give the part of it.
LEMMA WindowIs ==
  ASSUME NEW q, sl.length \in Nat \ {0}, DOMAIN q = 1..sl.length, Len(q) = sl.length,
         NEW start \in Int, NEW stop \in Int
  PROVE  LET w == Window(start, stop)
         IN /\ w[1] \in 0..(sl.length - 1) /\ w[2] - w[1] + 1 \in 0..(sl.length - w[1])
            /\ From(q, w[1] + 1, w[2] - w[1] + 1) = PartOf(q, start, stop)
<1> DEFINE N == sl.length
           s == IF start < 0 THEN (IF 0 >= N + start THEN 0 ELSE N + start) ELSE start
           e == IF stop < 0 THEN N + stop ELSE stop
           t == IF e <= N - 1 THEN e ELSE N - 1
           w == Window(start, stop)
           i == IF start < 0 THEN N + start ELSE start
           first == IF 1 >= i + 1 THEN 1 ELSE i + 1
           last == IF N <= e + 1 THEN N ELSE e + 1
<1>0. N \in Nat /\ N # 0 /\ N - 1 \in Int /\ N + start \in Int /\ N + stop \in Int
  OBVIOUS
<1>1. Max({0, N + start}) = IF 0 >= N + start THEN 0 ELSE N + start
  BY <1>0, MaxOfTwo
<1>2. e \in Int /\ Min({e, N - 1}) = t
  <2>1. e \in Int
    OBVIOUS
  <2> HIDE DEF e
  <2> QED
    BY <1>0, <2>1, MinOfTwo
<1>3. w = IF s > e \/ s >= N THEN <<0, -1>> ELSE <<s, t>>
  BY <1>1, <1>2 DEF Window
<1>4. s \in Nat /\ i \in Int /\ first = s + 1
  OBVIOUS
<1>5. Max({1, i + 1}) = first /\ Min({N, e + 1}) = last
  <2>1. i + 1 \in Int /\ e + 1 \in Int /\ N \in Int
    BY <1>2, <1>4
  <2> HIDE DEF i, e, N
  <2> QED
    BY <2>1, MaxOfTwo, MinOfTwo
<1>6. PartOf(q, start, stop) = SubSeq(q, first, last)
  BY <1>5 DEF PartOf
<1> HIDE DEF N, s, e, i
<1>7. last = t + 1 /\ t \in Int
  BY <1>0, <1>2
<1>8. 1 <= first /\ last <= N /\ first \in Int /\ last \in Int
  BY <1>0, <1>2, <1>4
<1> HIDE DEF t, w, first, last
<1>9. SubSeq(q, first, last) = [j \in 1..(last - first + 1) |-> q[first + j - 1]]
  <2>1. DOMAIN q = 1..N
    BY DEF N
  <2> QED
    BY ONLY <1>0, <1>8, <2>1, SubSeqIs
<1>10. CASE s > e \/ s >= N
  <2>1. w = <<0, -1>>
    BY <1>3, <1>10
  <2>2. last - first + 1 <= 0
    BY <1>0, <1>2, <1>4, <1>7, <1>10 DEF t
  <2>3. 1..(last - first + 1) = 1..0
    BY <1>8, <2>2
  <2>4. w[1] = 0 /\ w[2] - w[1] + 1 = 0
    BY <2>1
  <2>5. From(q, w[1] + 1, w[2] - w[1] + 1) = SubSeq(q, first, last)
    <3>1. From(q, w[1] + 1, w[2] - w[1] + 1) = [k \in 1..0 |-> q[(w[1] + 1) + k - 1]]
      BY <2>4 DEF From
    <3>2. SubSeq(q, first, last) = [k \in 1..0 |-> q[first + k - 1]]
      BY <1>9, <2>3
    <3>3. \A k \in 1..0 : q[(w[1] + 1) + k - 1] = q[first + k - 1]
      OBVIOUS
    <3> QED
      BY <3>1, <3>2, <3>3
  <2>6. w[1] \in 0..(N - 1) /\ w[2] - w[1] + 1 \in 0..(N - w[1])
    BY <1>0, <2>4
  <2> QED
    BY <1>6, <2>5, <2>6 DEF w, N
<1>11. CASE ~(s > e \/ s >= N)
  <2>1. w[1] = s /\ w[2] = t
    BY <1>3, <1>11
  <2>2. w[1] + 1 = first /\ w[2] - w[1] + 1 = last - first + 1
    BY <1>4, <1>7, <2>1
  <2>3. From(q, w[1] + 1, w[2] - w[1] + 1) = SubSeq(q, first, last)
    BY <1>9, <2>2 DEF From
  <2>4. w[1] \in 0..(N - 1) /\ w[2] - w[1] + 1 \in 0..(N - w[1])
    BY <1>0, <1>2, <1>4, <1>7, <1>11, <2>1 DEF t
  <2> QED
    BY <1>6, <2>3, <2>4 DEF w, N
<1> QED
  BY <1>10, <1>11 DEF w

\* The near nodes of a sequence are those after place A, the far ones those up to B.
Between(q, N, near, far, A, B) ==
  /\ DOMAIN q = 1..N /\ Len(q) = N /\ A \in 0..N /\ B \in 0..N
  /\ \A i \in 1..N : (q[i] \in near <=> A < i) /\ (q[i] \in far <=> i <= B)
\* The M elements of q after place A.
Piece(all, q, A, M) ==
  DOMAIN all = 1..M /\ Len(all) = M /\ \A k \in 1..M : all[k] = q[A + k]

\* The loop of rangeByScore.
LEMMA ByScoreIs ==
  ASSUME NEW N \in Nat, NEW q, NEW near, NEW far, NEW A, NEW B, Between(q, N, near, far, A, B),
         NEW all, Piece(all, q, A, IF A <= B THEN B - A ELSE 0),
         NEW offset \in Nat, NEW count \in Int
  PROVE  ByScore(q, near, far, offset, count) = Limited(all, offset, count)
<1> DEFINE E == IF A <= B THEN B ELSE A
<1>15. /\ DOMAIN q = 1..N /\ Len(q) = N /\ A \in 0..N /\ B \in 0..N
      /\ \A i \in 1..N : (q[i] \in near <=> A < i) /\ (q[i] \in far <=> i <= B)
  BY DEF Between
<1>16. (IF A <= B THEN B - A ELSE 0) = E - A
  BY <1>15
<1>17. DOMAIN all = 1..(E - A) /\ Len(all) = E - A /\ \A k \in 1..(E - A) : all[k] = q[A + k]
  BY <1>16 DEF Piece
<1>18. E \in 0..N /\ A <= E /\ B <= E /\ (E = A \/ E = B)
  BY <1>15
<1> HIDE DEF E
<1> DEFINE ins == {i \in DOMAIN q : q[i] \in near} \cup {N + 1}
           in == Min(ins)
           outs == {i \in in..N : q[i] \notin far} \cup {N + 1}
           end == Min(outs) - 1
           first == A + 1 + offset
           M == E - A
           last == IF count > 0 THEN (IF E <= first + count - 1 THEN E ELSE first + count - 1) ELSE E
           stop == IF count > 0 THEN (IF M <= offset + count THEN M ELSE offset + count) ELSE M
<1>0. E \in 0..N /\ A <= E /\ B <= E /\ M \in Nat /\ A \in 0..N /\ B \in 0..N
  BY <1>15, <1>18
<1>1. in = A + 1
  <2>1. ins \in SUBSET Int /\ A + 1 \in ins /\ \A y \in ins : A + 1 <= y
    BY <1>15
  <2> HIDE DEF ins
  <2> QED
    BY ONLY <2>1, LeastIs DEF in
<1> HIDE DEF in
<1>2. Min(outs) = E + 1
  <2>1. outs \in SUBSET Int
    BY <1>0, <1>1
  <2>2. E + 1 \in outs
    <3>1. CASE E = N
      BY <3>1
    <3>2. CASE E # N
      <4>1. E + 1 \in 1..N /\ ~(E + 1 <= B) /\ E + 1 \in in..N
        BY <1>0, <1>1, <3>2
      <4> QED
        BY <1>15, <4>1
    <3> QED
      BY <3>1, <3>2
  <2>3. ASSUME NEW y \in outs PROVE E + 1 <= y
    <3>1. CASE y = N + 1
      BY <1>0, <3>1
    <3>2. CASE y \in in..N /\ q[y] \notin far
      <4>1. y \in 1..N /\ ~(y <= B) /\ A + 1 <= y
        BY <1>0, <1>1, <1>15, <3>2
      <4> QED
        BY <1>0, <1>18, <4>1
    <3> QED
      BY <3>1, <3>2
  <2> HIDE DEF outs
  <2> QED
    BY ONLY <2>1, <2>2, <2>3, LeastIs
<1> HIDE DEF outs
<1>3. end = E
  BY <1>0, <1>2
<1> HIDE DEF end
<1>4. first \in Int /\ first + count - 1 \in Int /\ offset + count \in Int /\ M \in Int /\ E \in Int
  BY <1>0
<1>5. Min({E, first + count - 1}) = (IF E <= first + count - 1 THEN E ELSE first + count - 1)
      /\ Min({M, offset + count}) = (IF M <= offset + count THEN M ELSE offset + count)
  <2> HIDE DEF first, M
  <2> QED
    BY <1>4, MinOfTwo
<1>6. ByScore(q, near, far, offset, count)
        = SubSeq(q, in + offset, IF count > 0 THEN Min({end, in + offset + count - 1}) ELSE end)
  <2>1. Len(q) = N
    BY <1>15
  <2> QED
    BY <2>1 DEF ByScore, in, end, outs
<1>7. ByScore(q, near, far, offset, count) = SubSeq(q, first, last)
  BY <1>1, <1>3, <1>5, <1>6
<1>8. Limited(all, offset, count) = SubSeq(all, offset + 1, stop)
  BY <1>5, <1>17 DEF Limited
<1>9. /\ 1 <= first /\ last <= N /\ last \in Int
      /\ 1 <= offset + 1 /\ stop <= M /\ stop \in Int /\ offset + 1 \in Int
      /\ last - first + 1 = stop - (offset + 1) + 1
  BY <1>0, <1>4
<1> HIDE DEF first, last, M, stop
<1>10. SubSeq(q, first, last) = [i \in 1..(last - first + 1) |-> q[first + i - 1]]
  BY <1>15, <1>4, <1>9, SubSeqIs
<1>11. SubSeq(all, offset + 1, stop) = [i \in 1..(stop - (offset + 1) + 1) |-> all[offset + 1 + i - 1]]
  <2>1. DOMAIN all = 1..M
    BY <1>17 DEF M
  <2> QED
    BY ONLY <1>0, <1>9, <2>1, SubSeqIs
<1>12. ASSUME NEW i \in 1..(last - first + 1) PROVE q[first + i - 1] = all[offset + 1 + i - 1]
  <2>1. offset + 1 + i - 1 \in 1..M
    BY <1>0, <1>9
  <2>2. first + i - 1 = A + (offset + 1 + i - 1)
    BY <1>0 DEF first
  <2> QED
    BY <1>17, <2>1, <2>2 DEF M
<1> QED
  BY <1>7, <1>8, <1>9, <1>10, <1>11, <1>12

-----------------------------------------------------------------------------
\* All the nodes in order, and the walks along the links from one of them on.
InOrder(P) == InLine(sl, P, 0, sl.length)

\* The nodes in order, and from the last back.
LEMMA InOrderIs ==
  ASSUME NEW P, Sound(sl, P)
  PROVE  /\ sl.length \in Nat /\ DOMAIN InOrder(P) = 1..sl.length /\ Len(InOrder(P)) = sl.length
         /\ \A k \in 1..sl.length :
              /\ InOrder(P)[k] = NodeAt(sl, P, k)
              /\ InOrder(P)[k] \in DOMAIN sl.score /\ P[InOrder(P)[k]] = k
         /\ DOMAIN Reverse(InOrder(P)) = 1..sl.length /\ Len(Reverse(InOrder(P))) = sl.length
         /\ \A k \in 1..sl.length :
              /\ sl.length - k + 1 \in 1..sl.length
              /\ Reverse(InOrder(P))[k] = NodeAt(sl, P, sl.length - k + 1)
         /\ Nil \notin DOMAIN sl.score
<1> DEFINE N == sl.length
           q == InOrder(P)
<1>0. N \in Nat /\ Nil \notin DOMAIN sl.score
  BY NodesIn
<1>1. N - 0 = N /\ \A k \in 1..N : 0 + k = k
  BY <1>0
<1>2. q = [k \in 1..N |-> NodeAt(sl, P, k)]
  BY <1>1 DEF InOrder, InLine
<1>3. DOMAIN q = 1..N /\ Len(q) = N
  BY <1>0, <1>2
<1>4. \A k \in 1..N : q[k] = NodeAt(sl, P, k) /\ q[k] \in DOMAIN sl.score /\ P[q[k]] = k
  BY <1>2, NodeAtIs
<1>5. \A k \in 1..N : N - k + 1 \in 1..N
  BY <1>0
<1>6. Reverse(q) = [k \in 1..N |-> NodeAt(sl, P, N - k + 1)]
  <2> HIDE DEF q
  <2> QED
    BY <1>3, <1>4, <1>5 DEF Reverse
<1>7. DOMAIN Reverse(q) = 1..N /\ Len(Reverse(q)) = N
      /\ \A k \in 1..N : Reverse(q)[k] = NodeAt(sl, P, N - k + 1)
  <2> HIDE DEF q
  <2> QED
    BY <1>0, <1>6
<1> QED
  BY <1>0, <1>3, <1>4, <1>5, <1>7

\* forward[0] leads along the positions.
LEMMA OnwardIs ==
  ASSUME NEW P, Sound(sl, P), NEW a \in 1..(sl.length + 1), NEW node,
         node = IF a = sl.length + 1 THEN Nil ELSE InOrder(P)[a], NEW n \in 0..(sl.length + 1 - a)
  PROVE  Onward(node, n) = From(InOrder(P), a, n)
<1> DEFINE N == sl.length
           q == InOrder(P)
           link == [x \in DOMAIN sl.score |-> sl.forward[x][1]]
<1>0. /\ N \in Nat /\ DOMAIN q = 1..N /\ Nil \notin DOMAIN sl.score
      /\ \A k \in 1..N : q[k] = NodeAt(sl, P, k) /\ q[k] \in DOMAIN sl.score /\ P[q[k]] = k
  BY InOrderIs
<1>1. \A k \in 1..N : q[k] # Nil
  BY <1>0
<1>2. ASSUME NEW k \in 1..N PROVE link[q[k]] = IF k = N THEN Nil ELSE q[k + 1]
  <2> DEFINE y == q[k]
             x == sl.forward[y][1]
  <2>0. y \in DOMAIN sl.score /\ P[y] = k
    BY <1>0
  <2>1. link[y] = x
    BY <2>0
  <2> HIDE DEF y
  <2>2. IF P[y] = N THEN x = Nil ELSE x # Nil /\ x \in DOMAIN sl.score /\ P[x] = P[y] + 1
    BY <2>0, NextIs
  <2> HIDE DEF x, q
  <2>3. CASE k = N
    BY <2>0, <2>1, <2>2, <2>3 DEF y
  <2>4. CASE k # N
    <3>1. x \in DOMAIN sl.score /\ P[x] = k + 1 /\ k + 1 \in 1..N
      BY <1>0, <2>0, <2>2, <2>4
    <3>2. x = NodeAt(sl, P, k + 1)
      BY <3>1, NodeAtIs
    <3>3. x = q[k + 1]
      BY <1>0, <3>1, <3>2
    <3> QED
      BY <2>1, <2>4, <3>3 DEF y
  <2> QED
    BY <2>3, <2>4
<1>3. Onward(node, n) = Along(link, node, n)
  BY DEF Onward
<1>4. node = (IF a = N + 1 THEN Nil ELSE q[a]) /\ a \in 1..(N + 1) /\ n \in 0..(N + 1 - a)
  OBVIOUS
<1> HIDE DEF q, link, N
<1>5. Along(link, node, n) = From(q, a, n)
  <2>1. N \in Nat
    BY <1>0
  <2>2. Chained(q, N, link)
    BY <1>0, <1>1, <1>2 DEF Chained
  <2> QED
    BY ONLY <2>1, <2>2, <1>4, AlongIs
<1> QED
  BY <1>3, <1>5 DEF q

\* backward leads the other way.
LEMMA BackwardIs ==
  ASSUME NEW P, Sound(sl, P), NEW a \in 1..(sl.length + 1), NEW node,
         node = IF a = sl.length + 1 THEN Nil ELSE Reverse(InOrder(P))[a],
         NEW n \in 0..(sl.length + 1 - a)
  PROVE  Backward(node, n) = From(Reverse(InOrder(P)), a, n)
<1> DEFINE N == sl.length
           q == Reverse(InOrder(P))
<1>0. /\ N \in Nat /\ DOMAIN q = 1..N /\ Nil \notin DOMAIN sl.score
      /\ \A k \in 1..N : N - k + 1 \in 1..N /\ q[k] = NodeAt(sl, P, N - k + 1)
  BY InOrderIs
<1>1. \A k \in 1..N : q[k] \in DOMAIN sl.score /\ P[q[k]] = N - k + 1 /\ q[k] # Nil
  BY <1>0, NodeAtIs
<1>2. ASSUME NEW k \in 1..N PROVE sl.backward[q[k]] = IF k = N THEN Nil ELSE q[k + 1]
  <2> DEFINE y == q[k]
             x == sl.backward[y]
  <2>0. y \in DOMAIN sl.score /\ P[y] = N - k + 1
    BY <1>1
  <2> HIDE DEF y
  <2>2. \/ P[y] = 1 /\ x = Nil
        \/ x \in DOMAIN sl.score /\ P[x] = P[y] - 1
    BY <2>0 DEF Sound, BackExact
  <2> HIDE DEF x, q
  <2>3. x \in DOMAIN sl.score => P[x] \in 1..N /\ NodeAt(sl, P, P[x]) = x
    BY NodeAtIs
  <2>4. CASE k = N
    <3>1. P[y] = 1
      BY <1>0, <2>0, <2>4
    <3> QED
      BY <2>2, <2>3, <2>4, <3>1 DEF x, y
  <2>5. CASE k # N
    <3>1. P[y] # 1 /\ k + 1 \in 1..N /\ N - (k + 1) + 1 = P[y] - 1
      <4>1. N \in Nat /\ P[y] = N - k + 1
        BY <1>0, <2>0
      <4> HIDE DEF N
      <4> QED
        BY ONLY <2>5, <4>1, k \in 1..N
    <3>2. x = q[k + 1]
      BY <1>0, <2>2, <2>3, <3>1
    <3> QED
      BY <2>5, <3>2 DEF x, y
  <2> QED
    BY <2>4, <2>5
<1>3. Backward(node, n) = Along(sl.backward, node, n)
  BY DEF Backward
<1>4. node = (IF a = N + 1 THEN Nil ELSE q[a]) /\ a \in 1..(N + 1) /\ n \in 0..(N + 1 - a)
  OBVIOUS
<1>6. \A k \in 1..N : q[k] # Nil
  BY <1>1
<1> HIDE DEF q, N
<1>5. Along(sl.backward, node, n) = From(q, a, n)
  <2>1. N \in Nat
    BY <1>0
  <2>2. Chained(q, N, sl.backward)
    BY <1>0, <1>2, <1>6 DEF Chained
  <2> QED
    BY ONLY <2>1, <2>2, <1>4, AlongIs
<1> QED
  BY <1>3, <1>5 DEF q

\* The members in the order of the Map are the nodes in their positions.
LEMMA SortedAll ==
  ASSUME NEW P, Sound(sl, P), sl.score = dict
  PROVE  Sorted(DOMAIN dict) = InOrder(P)
<1>1. sl.length \in Nat /\ \A n \in DOMAIN sl.score : P[n] \in 1..sl.length
  BY NodesIn
<1>2. DOMAIN dict = Segment(sl, P, 0, sl.length)
  BY <1>1 DEF Segment
<1>3. 0 \in 0..sl.length /\ sl.length \in 0..sl.length /\ 0 <= sl.length
  BY <1>1
<1> QED
  BY <1>2, <1>3, SortedIs DEF InOrder

\* The set inside two bounds is a stretch: those above the low one are the nodes past
\* a, those below the high one the nodes up to b.
LEMMA BoundsCut ==
  ASSUME NEW P, Sound(sl, P), NEW low \in ScoreBound, NEW high \in ScoreBound
  PROVE  \E a, b \in 0..sl.length :
           /\ \A n \in DOMAIN sl.score : n \in NodesAbove(low) <=> a < P[n]
           /\ \A n \in DOMAIN sl.score : n \in NodesBelow(high) <=> P[n] <= b
<1> DEFINE S == {n \in DOMAIN sl.score : ~OverLow(sl.score[n], low)}
           T == NodesBelow(high)
<1>0. low.val \in Int /\ high.val \in Int
  BY ZsetAssumption DEF ScoreBound
<1>1. Numbered(sl, P) /\ sl.length \in Nat
  BY NodesIn DEF Sound
<1>2. ASSUME NEW m \in DOMAIN sl.score, NEW n \in DOMAIN sl.score, P[n] < P[m]
      PROVE  sl.score[n] \in Int /\ sl.score[m] \in Int /\ sl.score[n] <= sl.score[m]
  <2>1. sl.score[n] \in Int /\ sl.score[m] \in Int
    BY NodesIn
  <2>2. Precedes(sl.score[n], n, sl.score[m], m)
    BY <1>1, <1>2 DEF Numbered
  <2> QED
    BY <2>1, <2>2 DEF Precedes
<1>3. \A m \in S, n \in DOMAIN sl.score : P[n] < P[m] => n \in S
  BY <1>0, <1>2 DEF OverLow
<1>4. \A m \in T, n \in DOMAIN sl.score : P[n] < P[m] => n \in T
  BY <1>0, <1>2 DEF NodesBelow, UnderHigh
<1>5. S \in SUBSET DOMAIN sl.score /\ T \in SUBSET DOMAIN sl.score
  BY DEF NodesBelow
<1>6. \A n \in DOMAIN sl.score : n \in NodesAbove(low) <=> n \notin S
  BY DEF NodesAbove
<1> HIDE DEF S, T
<1>7. PICK a \in 0..sl.length : \A n \in DOMAIN sl.score : n \in S <=> P[n] <= a
  BY <1>1, <1>3, <1>5, CutAt
<1>8. PICK b \in 0..sl.length : \A n \in DOMAIN sl.score : n \in T <=> P[n] <= b
  BY <1>1, <1>4, <1>5, CutAt
<1>9. \A n \in DOMAIN sl.score : n \in NodesAbove(low) <=> a < P[n]
  <2>1. \A n \in DOMAIN sl.score : P[n] \in Int /\ (a < P[n] <=> ~(P[n] <= a))
    BY <1>1, NodesIn
  <2> QED
    BY <1>6, <1>7, <2>1
<1> QED
  BY <1>8, <1>9 DEF T

\* ZRANGE and ZREVRANGE.
LEMMA RangesExact ==
  ASSUME NEW P, Sound(sl, P), sl.length # 0, NEW start \in Int, NEW stop \in Int
  PROVE  /\ Zrange(start, stop) = PartOf(InOrder(P), start, stop)
         /\ Zrevrange(start, stop) = PartOf(Reverse(InOrder(P)), start, stop)
<1> DEFINE N == sl.length
           q == InOrder(P)
           r == Reverse(InOrder(P))
           w == Window(start, stop)
           a == w[1] + 1
           n == w[2] - w[1] + 1
<1>0. /\ N \in Nat /\ N \in Nat \ {0} /\ DOMAIN q = 1..N /\ Len(q) = N /\ DOMAIN r = 1..N /\ Len(r) = N
      /\ \A k \in 1..N : q[k] = NodeAt(sl, P, k)
      /\ \A k \in 1..N : r[k] = NodeAt(sl, P, N - k + 1)
  BY InOrderIs
<1>1. w[1] \in 0..(N - 1) /\ n \in 0..(N - w[1]) /\ From(q, a, n) = PartOf(q, start, stop)
  <2> HIDE DEF q
  <2> QED
    BY <1>0, WindowIs
<1>2. From(r, a, n) = PartOf(r, start, stop)
  <2> HIDE DEF r
  <2> QED
    BY <1>0, WindowIs
<1>3. /\ Zrange(start, stop) = Onward(GetByRank(a), n)
      /\ Zrevrange(start, stop) = Backward(GetByRank(N - w[1]), n)
  BY DEF Zrange, Zrevrange
<1> HIDE DEF w, n
<1>4. /\ a \in 1..N /\ a \in 1..(N + 1) /\ a # N + 1 /\ n \in 0..(N + 1 - a) /\ N - w[1] \in 1..N
      /\ N - a + 1 = N - w[1]
  <2>1. N \in Nat \ {0} /\ w[1] \in 0..(N - 1) /\ n \in 0..(N - w[1])
    BY <1>0, <1>1
  <2> HIDE DEF N
  <2> QED
    BY ONLY <2>1
<1> HIDE DEF a
<1>5. GetByRank(a) = q[a] /\ GetByRank(N - w[1]) = r[a]
  <2>1. GetByRank(a) = NodeAt(sl, P, a) /\ GetByRank(N - w[1]) = NodeAt(sl, P, N - w[1])
    BY <1>4, ByRankIs
  <2> HIDE DEF q, r
  <2> QED
    BY <1>0, <1>4, <2>1
<1>6. Onward(GetByRank(a), n) = From(q, a, n)
  BY <1>4, <1>5, OnwardIs
<1>7. Backward(GetByRank(N - w[1]), n) = From(r, a, n)
  BY <1>4, <1>5, BackwardIs
<1> QED
  BY <1>1, <1>2, <1>3, <1>6, <1>7

\* ZRANK and ZREVRANK.
LEMMA RanksExact ==
  ASSUME NEW P, Sound(sl, P), sl.score = dict, NEW i \in 1..sl.length
  PROVE  Rank(InOrder(P)[i]) = i - 1 /\ Revrank(InOrder(P)[i]) = sl.length - i
<1> DEFINE m == InOrder(P)[i]
<1>1. m \in DOMAIN dict /\ P[m] = i /\ sl.length \in Nat
  BY InOrderIs
<1> HIDE DEF m
<1>2. Rank(m) = i - 1
  BY <1>1, RankIs DEF Rank
<1>3. Revrank(m) = sl.length - i
  BY <1>1, <1>2 DEF Revrank
<1> QED
  BY <1>2, <1>3 DEF m

\* The nodes from the first on, and from the tail back.
LEMMA WholeIs ==
  ASSUME NEW P, Sound(sl, P)
  PROVE  /\ Onward(sl.forward[Header][1], sl.length) = InOrder(P)
         /\ Backward(sl.tail, sl.length) = Reverse(InOrder(P))
<1> DEFINE N == sl.length
           q == InOrder(P)
           r == Reverse(InOrder(P))
           x == sl.forward[Header][1]
<1>0. /\ N \in Nat /\ DOMAIN q = 1..N /\ Len(q) = N /\ DOMAIN r = 1..N /\ Len(r) = N
      /\ \A k \in 1..N : q[k] = NodeAt(sl, P, k)
      /\ \A k \in 1..N : r[k] = NodeAt(sl, P, N - k + 1)
  BY InOrderIs
<1>1. P[Header] = 0
  BY NodesIn
<1>2. IF 0 = N THEN x = Nil ELSE x \in DOMAIN sl.score /\ P[x] = 0 + 1
  BY <1>1, NextIs
<1>3. \/ N = 0 /\ sl.tail = Nil
      \/ sl.tail \in DOMAIN sl.score /\ P[sl.tail] = N
  BY DEF Sound, BackExact
<1> HIDE DEF x
<1>4. x = IF 1 = N + 1 THEN Nil ELSE q[1]
  <2> HIDE DEF q
  <2>1. CASE N = 0
    BY <1>2, <2>1
  <2>2. CASE N # 0
    <3>1. x \in DOMAIN sl.score /\ P[x] = 1 /\ 1 \in 1..N
      BY <1>0, <1>2, <2>2
    <3>2. x = NodeAt(sl, P, 1)
      BY <3>1, NodeAtIs
    <3>3. 1 # N + 1
      BY <2>2, <1>0
    <3> QED
      BY <1>0, <3>1, <3>2, <3>3
  <2> QED
    BY <2>1, <2>2
<1>5. sl.tail = IF 1 = N + 1 THEN Nil ELSE r[1]
  <2> HIDE DEF r
  <2>1. CASE N = 0
    <3>1. sl.tail \in DOMAIN sl.score => P[sl.tail] \in 1..N
      BY NodesIn
    <3> QED
      BY <1>3, <2>1, <3>1
  <2>2. CASE N # 0
    <3>1. sl.tail \in DOMAIN sl.score /\ P[sl.tail] = N /\ 1 \in 1..N /\ N - 1 + 1 = N
      BY <1>0, <1>3, <2>2
    <3>2. sl.tail = NodeAt(sl, P, N)
      BY <3>1, NodeAtIs
    <3>3. 1 # N + 1
      BY <2>2, <1>0
    <3>4. r[1] = NodeAt(sl, P, N - 1 + 1)
      BY <1>0, <3>1
    <3> QED
      BY <3>1, <3>2, <3>3, <3>4
  <2> QED
    BY <2>1, <2>2
<1>6. 1 \in 1..(N + 1) /\ N \in 0..(N + 1 - 1)
  BY <1>0
<1>7. Onward(x, N) = From(q, 1, N)
  BY <1>4, <1>6, OnwardIs
<1>8. Backward(sl.tail, N) = From(r, 1, N)
  BY <1>5, <1>6, BackwardIs
<1>9. \A k \in 1..N : 1 + k - 1 = k
  BY <1>0
<1>10. q = [k \in 1..N |-> q[k]] /\ r = [k \in 1..N |-> r[k]]
  BY <1>0 DEF InOrder, InLine, Reverse
<1> HIDE DEF q, r
<1>11. From(q, 1, N) = q /\ From(r, 1, N) = r
  BY <1>9, <1>10 DEF From
<1> QED
  BY <1>7, <1>8, <1>11 DEF q, r, x

\* ZRANGEBYSCORE, ZREVRANGEBYSCORE and ZCOUNT.
LEMMA ScoreRangesExact ==
  ASSUME NEW P, Sound(sl, P), sl.score = dict, NEW low \in ScoreBound, NEW high \in ScoreBound
  PROVE  LET all == Sorted(Inside(low, high))
         IN /\ Zcount(low, high) = Len(all)
            /\ \A offset \in Nat, count \in Int :
                 /\ Zrangebyscore(low, high, offset, count) = Limited(all, offset, count)
                 /\ RevrangeByScore(high, low, offset, count) = Limited(Reverse(all), offset, count)
<1> DEFINE N == sl.length
           q == InOrder(P)
           r == Reverse(InOrder(P))
           all == Sorted(Inside(low, high))
<1>0. /\ N \in Nat /\ DOMAIN q = 1..N /\ Len(q) = N /\ DOMAIN r = 1..N /\ Len(r) = N
      /\ \A k \in 1..N : q[k] = NodeAt(sl, P, k) /\ q[k] \in DOMAIN sl.score /\ P[q[k]] = k
      /\ \A k \in 1..N : N - k + 1 \in 1..N /\ r[k] = NodeAt(sl, P, N - k + 1)
  BY InOrderIs
<1>1. PICK a \in 0..N, b \in 0..N :
        /\ \A n \in DOMAIN sl.score : n \in NodesAbove(low) <=> a < P[n]
        /\ \A n \in DOMAIN sl.score : n \in NodesBelow(high) <=> P[n] <= b
  BY BoundsCut
<1> DEFINE E == IF a <= b THEN b ELSE a
<1>2. E \in 0..N /\ a <= E /\ E - a \in Nat /\ a \in Nat /\ b \in Nat
  BY <1>0
<1> HIDE DEF N, q, r, all
<1>3. Inside(low, high) = Segment(sl, P, a, E)
  <2>1. \A n \in DOMAIN sl.score : P[n] \in Int
    BY NodesIn
  <2>2. \A n \in DOMAIN sl.score : (a < P[n] /\ P[n] <= b) <=> (a < P[n] /\ P[n] <= E)
    BY <1>2, <2>1
  <2>3. Inside(low, high) = {n \in DOMAIN sl.score : n \in NodesAbove(low) /\ n \in NodesBelow(high)}
    BY DEF Inside, NodesAbove, NodesBelow
  <2> QED
    BY <1>1, <2>2, <2>3 DEF Segment
<1>4. all = InLine(sl, P, a, E)
  BY <1>2, <1>3, SortedIs DEF all, N
<1>5. DOMAIN all = 1..(E - a) /\ Len(all) = E - a
      /\ \A k \in 1..(E - a) : all[k] = NodeAt(sl, P, a + k)
  BY <1>2, <1>4 DEF InLine
<1> DEFINE back == Reverse(all)
<1>6. DOMAIN back = 1..(E - a) /\ Len(back) = E - a
      /\ \A k \in 1..(E - a) : back[k] = NodeAt(sl, P, E - k + 1)
  <2>1. back = [k \in 1..(E - a) |-> all[((E - a) - k) + 1]]
    BY <1>5 DEF Reverse
  <2>2. \A k \in 1..(E - a) : ((E - a) - k) + 1 \in 1..(E - a) /\ a + (((E - a) - k) + 1) = E - k + 1
    BY <1>2
  <2> HIDE DEF back, E
  <2> QED
    BY <1>2, <1>5, <2>1, <2>2
<1> HIDE DEF back
<1>7. Onward(sl.forward[Header][1], N) = q /\ Backward(sl.tail, N) = r
  BY WholeIs DEF N, q, r
<1>8. ASSUME NEW offset \in Nat, NEW count \in Int
      PROVE  Zrangebyscore(low, high, offset, count) = Limited(all, offset, count)
  <2>1. Zrangebyscore(low, high, offset, count)
          = ByScore(q, NodesAbove(low), NodesBelow(high), offset, count)
    BY <1>7 DEF Zrangebyscore, N
  <2>2. \A i \in 1..N : q[i] \in NodesAbove(low) <=> a < i
    BY <1>0, <1>1
  <2>3. \A i \in 1..N : q[i] \in NodesBelow(high) <=> i <= b
    BY <1>0, <1>1
  <2>4. \A k \in 1..(E - a) : all[k] = q[a + k]
    <3>1. \A k \in 1..(E - a) : a + k \in 1..N
      BY <1>0, <1>2
    <3> QED
      BY <1>0, <1>5, <3>1
  <2>5. N \in Nat /\ Between(q, N, NodesAbove(low), NodesBelow(high), a, b)
    BY <1>0, <2>2, <2>3 DEF Between
  <2>6. E - a = IF a <= b THEN b - a ELSE 0
    BY <1>2
  <2>7. Piece(all, q, a, IF a <= b THEN b - a ELSE 0)
    BY <1>5, <2>4, <2>6 DEF Piece
  <2>8. ByScore(q, NodesAbove(low), NodesBelow(high), offset, count) = Limited(all, offset, count)
    BY ONLY <2>5, <2>7, offset \in Nat, count \in Int, ByScoreIs
  <2> QED
    BY <2>1, <2>8
<1>9. ASSUME NEW offset \in Nat, NEW count \in Int
      PROVE  RevrangeByScore(high, low, offset, count) = Limited(back, offset, count)
  <2> DEFINE A == N - b
             B == N - a
             M == IF A <= B THEN B - A ELSE 0
  <2>1. RevrangeByScore(high, low, offset, count)
          = ByScore(r, NodesBelow(high), NodesAbove(low), offset, count)
    BY <1>7 DEF RevrangeByScore, N
  <2>0. A \in 0..N /\ B \in 0..N /\ M = E - a /\ (E - a > 0 => A = N - E)
    BY <1>0, <1>2
  <2>2. \A i \in 1..N : r[i] \in DOMAIN sl.score /\ P[r[i]] = N - i + 1
    BY <1>0, NodeAtIs DEF N
  <2>3. \A i \in 1..N : r[i] \in NodesBelow(high) <=> A < i
    <3>1. \A i \in 1..N : A < i <=> N - i + 1 <= b
      BY <1>0, <1>2
    <3> QED
      BY <1>1, <2>2, <3>1
  <2>4. \A i \in 1..N : r[i] \in NodesAbove(low) <=> i <= B
    <3>1. \A i \in 1..N : i <= B <=> a < N - i + 1
      BY <1>0, <1>2
    <3> QED
      BY <1>1, <2>2, <3>1
  <2>5. \A k \in 1..M : back[k] = r[A + k]
    <3>1. \A k \in 1..(E - a) : A + k \in 1..N /\ N - (A + k) + 1 = E - k + 1
      <4> SUFFICES ASSUME NEW k \in 1..(E - a)
                   PROVE  A + k \in 1..N /\ N - (A + k) + 1 = E - k + 1
        OBVIOUS
      <4>1. N \in Nat /\ E \in 0..N /\ a \in Nat /\ E - a \in Nat /\ k \in 1..(E - a)
        BY <1>0, <1>2
      <4>2. E - a > 0
        BY <4>1
      <4>3. A = N - E
        BY <2>0, <4>2
      <4> HIDE DEF A, E
      <4> QED
        BY ONLY <4>1, <4>3
    <3> QED
      BY <1>0, <1>6, <2>0, <3>1
  <2>6. N \in Nat /\ Between(r, N, NodesBelow(high), NodesAbove(low), A, B)
    BY <1>0, <2>0, <2>3, <2>4 DEF Between
  <2>7. Piece(back, r, A, M)
    BY <1>6, <2>0, <2>5 DEF Piece
  <2> HIDE DEF A, B
  <2>8. ByScore(r, NodesBelow(high), NodesAbove(low), offset, count) = Limited(back, offset, count)
    BY ONLY <2>6, <2>7, offset \in Nat, count \in Int, ByScoreIs
  <2> QED
    BY <2>1, <2>8
<1>10. Zcount(low, high) = Len(all)
  <2> DEFINE nodes == Onward(sl.forward[Header][1], sl.length)
             outs == {i \in DOMAIN nodes : sl.score[nodes[i]] > high.val} \cup {Len(nodes) + 1}
             out == Min(outs)
             hits == {i \in 1..(out - 1) : nodes[i] \in NodesAbove(low) \cap NodesBelow(high)}
  <2>1. Zcount(low, high) = Cardinality(hits)
    BY DEF Zcount
  <2> HIDE DEF nodes
  <2>8. /\ N \in Nat /\ DOMAIN nodes = 1..N /\ Len(nodes) = N
        /\ \A k \in 1..N : nodes[k] \in DOMAIN sl.score /\ P[nodes[k]] = k
    BY <1>0, <1>7 DEF nodes, N
  <2>2. out \in outs /\ \A y \in outs : out <= y
    <3>1. outs \subseteq Nat /\ outs # {}
      BY <2>8
    <3> HIDE DEF outs
    <3>2. PICK o \in outs : \A y \in outs : o <= y
      BY <3>1, LeastNumber
    <3>3. outs \in SUBSET Int
      BY <3>1
    <3>4. out = o
      BY <3>2, <3>3, LeastIs
    <3> QED
      BY <3>2, <3>4
  <2> HIDE DEF out
  <2>3. out \in 1..(N + 1)
    BY <2>8, <2>2
  <2>4. ASSUME NEW i \in (a + 1)..E PROVE i \in 1..(out - 1)
    <3>1. i \in 1..N /\ a <= b /\ i <= b
      BY <2>8, <1>2
    <3>2. CASE out = N + 1
      BY <2>8, <3>1, <3>2
    <3>3. CASE out # N + 1
      <4>1. out \in 1..N /\ sl.score[nodes[out]] > high.val
        BY <2>8, <2>2, <3>3
      <4>2. nodes[out] \in DOMAIN sl.score /\ P[nodes[out]] = out
        BY <2>8, <4>1
      <4>3. sl.score[nodes[out]] \in Int /\ high.val \in Int
        BY <4>2, NodesIn, ZsetAssumption DEF ScoreBound
      <4>4. nodes[out] \notin NodesBelow(high)
        BY <4>1, <4>3 DEF NodesBelow, UnderHigh
      <4>5. ~(out <= b)
        BY <1>1, <4>2, <4>4
      <4> QED
        BY <2>8, <1>2, <3>1, <4>1, <4>5
    <3> QED
      BY <3>2, <3>3
  <2>5. ASSUME NEW i \in 1..N
        PROVE  nodes[i] \in NodesAbove(low) \cap NodesBelow(high) <=> i \in (a + 1)..E
    <3>1. nodes[i] \in NodesAbove(low) \cap NodesBelow(high) <=> a < i /\ i <= b
      BY <2>8, <1>1
    <3> QED
      BY <2>8, <1>2, <3>1
  <2>6. hits = (a + 1)..E
    <3>1. \A i \in 1..(out - 1) : i \in 1..N
      BY <2>8, <2>3
    <3>2. \A i \in (a + 1)..E : i \in 1..N
      BY <2>8, <1>2
    <3>3. \A i \in hits : i \in (a + 1)..E
      BY <2>5, <3>1
    <3>4. \A i \in (a + 1)..E : i \in hits
      BY <2>4, <2>5, <3>2
    <3> QED
      BY <3>3, <3>4
  <2>7. Cardinality((a + 1)..E) = E - a
    <3>1. a + 1 \in Int /\ E \in Int
      BY <1>2
    <3>2. Cardinality((a + 1)..E) = IF a + 1 > E THEN 0 ELSE E - (a + 1) + 1
      BY <3>1, FS_Interval
    <3> QED
      BY <1>2, <3>2
  <2> HIDE DEF hits
  <2> QED
    BY <1>5, <2>1, <2>6, <2>7
<1> QED
  BY <1>8, <1>9, <1>10 DEF all, back

\* ReadsExact: for any members, scores and levels, and after any sequence of commands,
\* every read of the skip list answers what the Map and the order of compareNodes say.
THEOREM ReadsAreExact == ZsetSpec => []ReadsExact
<1>1. ZsetInv => ReadsExact
  <2> SUFFICES ASSUME ZsetInv, DOMAIN dict # {} PROVE ReadsExact
    BY DEF ReadsExact
  <2>1. PICK P : Sound(sl, P)
    BY DEF ZsetInv, InStep
  <2>2. sl.score = dict
    BY DEF ZsetInv, InStep
  <2> DEFINE order == Sorted(DOMAIN dict)
  <2>3. order = InOrder(P)
    BY <2>1, <2>2, SortedAll
  <2> HIDE DEF order
  <2>4. DOMAIN order = 1..sl.length /\ Len(order) = sl.length
    BY <2>1, <2>3, InOrderIs
  <2>5. sl.length # 0
    <3>1. \A n \in DOMAIN sl.score : P[n] \in 1..sl.length
      BY <2>1, NodesIn
    <3> QED
      BY <2>2, <3>1
  <2>6. \A i \in DOMAIN order : Rank(order[i]) = i - 1 /\ Revrank(order[i]) = Len(order) - i
    BY <2>1, <2>2, <2>3, <2>4, RanksExact
  <2>7. \A start, stop \in Int :
          /\ Zrange(start, stop) = PartOf(order, start, stop)
          /\ Zrevrange(start, stop) = PartOf(Reverse(order), start, stop)
    BY <2>1, <2>3, <2>5, RangesExact
  <2>8. \A start, stop \in -Cardinality(Member)..Cardinality(Member) : start \in Int /\ stop \in Int
    OBVIOUS
  <2>9. \A low, high \in ScoreBound :
          LET all == Sorted(Inside(low, high))
          IN /\ Zcount(low, high) = Len(all)
             /\ \A offset \in Nat, count \in Int :
                  /\ Zrangebyscore(low, high, offset, count) = Limited(all, offset, count)
                  /\ RevrangeByScore(high, low, offset, count) = Limited(Reverse(all), offset, count)
    BY <2>1, <2>2, ScoreRangesExact
  <2>10. \A offset \in 0..1, count \in {0, 1} : offset \in Nat /\ count \in Int
    OBVIOUS
  <2> QED
    BY <2>6, <2>7, <2>8, <2>9, <2>10 DEF ReadsExact, order
<1> QED
  BY <1>1, ListInStep, PTL
=============================================================================
