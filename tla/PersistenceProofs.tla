------------------------- MODULE PersistenceProofs -------------------------
(***************************************************************************)
(* Proofs about module Persistence.  The replay of the log is a fold, and  *)
(* every theorem is about logs of any length: the first part computes the  *)
(* fold one record at a time and locates what each prefix of a log does;   *)
(* the second follows the log, the snapshot and the past through every     *)
(* step of the process and of the machine.                                 *)
(***************************************************************************)
EXTENDS Persistence, InductionProofs

-----------------------------------------------------------------------------
(* The replay of the first k records of a log L, at time t.                *)

\* Read, at time t.
ReadAt(s, r, t) ==
  IF s.lost THEN s
  ELSE IF s.cut # <<>>
  THEN IF s.cut[1].cut = "inside" THEN [s EXCEPT !.lost = TRUE]
       ELSE [s EXCEPT !.cut = <<>>,
                      !.mem = IF s.cut[1].op = "SET"
                              THEN [@ EXCEPT ![<<Db0, s.cut[1].key>>] =
                                      [val |-> Garbled, ttl |-> NoTtl]]
                              ELSE @]
  ELSE IF r.cut # "whole" THEN [s EXCEPT !.cut = <<r>>]
  ELSE IF r.op = "SELECT" THEN s
  ELSE [s EXCEPT !.mem[<<Db0, r.key>>] = Replayed(@, r, t), !.n = @ + 1]

\* g maps every set of positions below k to what reading those records makes.
Readings(g, L, t, k) ==
  g = [T \in SUBSET (1..k) |->
         IF T = {} THEN Reader ELSE ReadAt(g[T \ {Max(T)}], L[Max(T)], t)]

\* The state of the reader after the first k records of L, read at time t.
After(t, L, k) == (CHOOSE g : Readings(g, L, t, k))[1..k]

LEMMA ReadIs == \A s, r : Read(s, r) = ReadAt(s, r, now)
BY DEF Read, ReadAt

LEMMA ReplayIs ==
  ASSUME NEW S, file \in Seq(S)
  PROVE  Replay = After(now, file, Len(file))
<1>1. DOMAIN file = 1..Len(file)
  OBVIOUS
<1> QED
  BY <1>1 DEF Replay, After, Readings, FoldLeft, MapThenFoldSet, Read, ReadAt

LEMMA MaxIn ==
  ASSUME NEW k \in Nat, NEW T \in SUBSET (1..k), T # {}
  PROVE  /\ Max(T) \in T
         /\ \A y \in T : Max(T) >= y
<1> DEFINE Q == {U \in SUBSET T : U = {} \/ \E x \in U : \A y \in U : x >= y}
<1>0. IsFiniteSet(T)
  <2>1. IsFiniteSet(1..k)
    BY FS_Interval
  <2> QED
    BY <2>1, FS_Subset
<1>1. ASSUME NEW U \in SUBSET T, \A x \in U : U \ {x} \in Q
      PROVE  U \in Q
  <2>1. CASE U = {}
    BY <2>1
  <2>2. ASSUME NEW y \in U PROVE U \in Q
    <3>1. U \ {y} \in Q
      BY <1>1
    <3>2. CASE U \ {y} = {}
      <4>0. y \in 1..k
        OBVIOUS
      <4>1. U = {y}
        BY <3>2
      <4>2. y >= y
        BY <4>0
      <4> QED
        BY <4>1, <4>2
    <3>3. ASSUME NEW x \in U \ {y}, \A z \in U \ {y} : x >= z PROVE U \in Q
      <4>1. x \in Int /\ y \in Int /\ \A z \in U : z \in Int
        OBVIOUS
      <4>2. CASE x >= y
        BY <3>3, <4>2
      <4>3. CASE ~(x >= y)
        <5>1. \A z \in U : y >= z
          BY <3>3, <4>1, <4>3
        <5> QED
          BY <5>1
      <4> QED
        BY <4>2, <4>3
    <3> QED
      BY <3>1, <3>2, <3>3
  <2> QED
    BY <2>1, <2>2
<1>2. T \in Q
  <2> HIDE DEF Q
  <2> QED
    BY <1>0, <1>1, FiniteInduction
<1> QED
  BY <1>2 DEF Max

\* Two logs have the same first k records.
Agree(L, M, k) == \A x \in 1..k : L[x] = M[x]

\* There is one such table, whatever the length it was built for and whatever
\* the records after those it reads.
LEMMA ReadingsAgree ==
  ASSUME NEW t, NEW L, NEW M, NEW j \in Nat, NEW k \in Nat, NEW g, NEW h,
         Readings(g, L, t, j), Readings(h, M, t, k),
         NEW i \in Nat, i <= j, i <= k, Agree(L, M, i)
  PROVE  \A U \in SUBSET (1..i) : g[U] = h[U]
<1> SUFFICES ASSUME NEW U \in SUBSET (1..i) PROVE g[U] = h[U]
  OBVIOUS
<1> DEFINE Q == {V \in SUBSET U : g[V] = h[V]}
<1>0. IsFiniteSet(U)
  <2>1. IsFiniteSet(1..i)
    BY FS_Interval
  <2> QED
    BY <2>1, FS_Subset
<1>1. ASSUME NEW V \in SUBSET U, \A x \in V : V \ {x} \in Q
      PROVE  V \in Q
  <2>1. V \in SUBSET (1..j) /\ V \in SUBSET (1..k) /\ V \in SUBSET (1..i)
    OBVIOUS
  <2>2. g[V] = IF V = {} THEN Reader ELSE ReadAt(g[V \ {Max(V)}], L[Max(V)], t)
    BY <2>1 DEF Readings
  <2>3. h[V] = IF V = {} THEN Reader ELSE ReadAt(h[V \ {Max(V)}], M[Max(V)], t)
    BY <2>1 DEF Readings
  <2>4. CASE V = {}
    BY <2>2, <2>3, <2>4
  <2>5. CASE V # {}
    <3>1. Max(V) \in V
      BY <2>1, <2>5, MaxIn
    <3>2. g[V \ {Max(V)}] = h[V \ {Max(V)}] /\ L[Max(V)] = M[Max(V)]
      BY <1>1, <3>1 DEF Agree
    <3> QED
      BY <2>2, <2>3, <2>5, <3>2
  <2> QED
    BY <2>4, <2>5
<1>2. U \in Q
  <2> HIDE DEF Q
  <2> QED
    BY <1>0, <1>1, FiniteInduction
<1> QED
  BY <1>2
LEMMA ReadingsExist ==
  ASSUME NEW t, NEW L
  PROVE  \A k \in Nat : \E g : Readings(g, L, t, k)
<1> DEFINE N == {k \in Nat : \E g : Readings(g, L, t, k)}
<1>1. 0 \in N
  <2>1. SUBSET (1..0) = {{}}
    OBVIOUS
  <2>2. Readings([T \in SUBSET (1..0) |-> Reader], L, t, 0)
    BY <2>1 DEF Readings
  <2> QED
    BY <2>2
<1>2. ASSUME NEW k \in Nat, k \in N PROVE k + 1 \in N
  <2>1. PICK g : Readings(g, L, t, k)
    BY <1>2
  <2> DEFINE d == k + 1
             h == [T \in SUBSET (1..d) |->
                     IF d \in T THEN ReadAt(g[T \ {d}], L[d], t) ELSE g[T]]
  <2>0. d \in Nat /\ d \notin 1..k /\ 1..k \subseteq 1..d /\ \A T \in SUBSET (1..d) : T \ {d} \in SUBSET (1..k)
    OBVIOUS
  <2>2. ASSUME NEW T \in SUBSET (1..d)
        PROVE  h[T] = IF T = {} THEN Reader ELSE ReadAt(h[T \ {Max(T)}], L[Max(T)], t)
    <3>1. CASE T = {}
      <4>1. h[T] = g[T]
        BY <3>1
      <4>2. g[T] = Reader
        BY <2>1, <3>1 DEF Readings
      <4> QED
        BY <3>1, <4>1, <4>2
    <3>2. CASE d \in T
      <4>1. Max(T) \in T /\ Max(T) >= d
        BY <2>0, <3>2, MaxIn
      <4>2. Max(T) = d
        <5>1. Max(T) \in 1..d
          BY <4>1
        <5> QED
          BY <2>0, <4>1, <5>1
      <4>3. T \ {d} \in SUBSET (1..d) /\ d \notin T \ {d}
        OBVIOUS
      <4>4. h[T \ {d}] = g[T \ {d}]
        BY <4>3
      <4>5. h[T] = ReadAt(g[T \ {d}], L[d], t)
        BY <3>2
      <4> QED
        BY <3>2, <4>2, <4>4, <4>5
    <3>3. CASE T # {} /\ d \notin T
      <4>1. T \in SUBSET (1..k)
        BY <2>0, <3>3
      <4>2. Max(T) \in T
        BY <3>3, <4>1, MaxIn
      <4>3. g[T] = ReadAt(g[T \ {Max(T)}], L[Max(T)], t)
        BY <2>1, <3>3, <4>1 DEF Readings
      <4>4. h[T] = g[T] /\ h[T \ {Max(T)}] = g[T \ {Max(T)}]
        BY <3>3
      <4> QED
        BY <3>3, <4>3, <4>4
    <3> QED
      BY <3>1, <3>2, <3>3
  <2>3. h = [T \in SUBSET (1..d) |-> h[T]]
    OBVIOUS
  <2> HIDE DEF h, d
  <2>4. Readings(h, L, t, d)
    BY <2>2, <2>3 DEF Readings
  <2>5. d \in N
    BY <2>0, <2>4
  <2> QED
    BY <2>5 DEF d
<1> HIDE DEF N
<1>3. Nat \subseteq N
  BY <1>1, <1>2, Induction
<1> QED
  BY <1>3 DEF N

\* Any table of a log that agrees with L on its first k records tells what
\* they do.
LEMMA AfterIs ==
  ASSUME NEW t, NEW L, NEW M, NEW j \in Nat, NEW k \in Nat, k <= j,
         NEW g, Readings(g, M, t, j), Agree(L, M, k)
  PROVE  After(t, L, k) = g[1..k]
<1> DEFINE h == CHOOSE f : Readings(f, L, t, k)
<1>1. Readings(h, L, t, k)
  BY ReadingsExist
<1>2. After(t, L, k) = h[1..k]
  BY DEF After
<1> HIDE DEF h
<1>3. k <= k /\ 1..k \in SUBSET (1..k)
  OBVIOUS
<1>4. \A U \in SUBSET (1..k) : h[U] = g[U]
  BY <1>1, <1>3, ReadingsAgree
<1> QED
  BY <1>2, <1>3, <1>4

\* The recursion of the replay.
LEMMA AfterNone ==
  ASSUME NEW t, NEW L
  PROVE  After(t, L, 0) = Reader
<1>1. PICK g : Readings(g, L, t, 0)
  BY ReadingsExist
<1>2. After(t, L, 0) = g[1..0]
  <2>1. Agree(L, L, 0)
    BY DEF Agree
  <2> QED
    BY <1>1, <2>1, AfterIs
<1>3. 1..0 = {} /\ {} \in SUBSET (1..0)
  OBVIOUS
<1> QED
  BY <1>1, <1>2, <1>3 DEF Readings

LEMMA AfterNext ==
  ASSUME NEW t, NEW L, NEW k \in Nat
  PROVE  After(t, L, k + 1) = ReadAt(After(t, L, k), L[k + 1], t)
<1> DEFINE d == k + 1
<1>0. d \in Nat /\ k <= d /\ d <= d /\ d \in 1..d /\ 1..d # {} /\ (1..d) \ {d} = 1..k
  OBVIOUS
<1> HIDE DEF d
<1>1. PICK g : Readings(g, L, t, d)
  BY <1>0, ReadingsExist
<1>2. After(t, L, d) = g[1..d] /\ After(t, L, k) = g[1..k]
  <2>0. Agree(L, L, d) /\ Agree(L, L, k)
    BY DEF Agree
  <2>1. After(t, L, d) = g[1..d]
    BY <1>0, <1>1, <2>0, AfterIs
  <2>2. After(t, L, k) = g[1..k]
    BY <1>0, <1>1, <2>0, AfterIs
  <2> QED
    BY <2>1, <2>2
<1>3. Max(1..d) = d
  <2>1. Max(1..d) \in 1..d /\ Max(1..d) >= d
    BY <1>0, MaxIn
  <2> QED
    BY <1>0, <2>1
<1>4. g[1..d] = ReadAt(g[1..k], L[d], t)
  <2>1. 1..d \in SUBSET (1..d)
    OBVIOUS
  <2>2. g[1..d] = ReadAt(g[(1..d) \ {Max(1..d)}], L[Max(1..d)], t)
    BY <1>0, <1>1, <2>1 DEF Readings
  <2> QED
    BY <1>0, <1>3, <2>2
<1> QED
  BY <1>2, <1>4 DEF d

\* A prefix of a log does what it does alone.
LEMMA AfterSame ==
  ASSUME NEW t, NEW L, NEW M, NEW k \in Nat, Agree(L, M, k)
  PROVE  After(t, L, k) = After(t, M, k)
<1>1. PICK g : Readings(g, M, t, k)
  BY ReadingsExist
<1>2. After(t, L, k) = g[1..k]
  BY <1>1, AfterIs
<1>3. After(t, M, k) = g[1..k]
  <2>1. Agree(M, M, k)
    BY DEF Agree
  <2> QED
    BY <1>1, <2>1, AfterIs
<1> QED
  BY <1>2, <1>3

-----------------------------------------------------------------------------
(* What any log does.                                                      *)

\* Entries of which there is nothing when there is no value.
Sound == {e \in Entry : e.val = Absent => e = Gone}

\* The stores a replay builds, the records it may hold that are cut, and the
\* states of its reader.
Store == [Pair -> Sound]
Held == {<<>>} \cup {<<r>> : r \in Record}
Reading == [mem : Store, cut : Held, lost : BOOLEAN, n : Nat]

\* Two readers that differ at most in what they have made of the store.
InStep(s, u) == s.cut = u.cut /\ s.lost = u.lost /\ s.n = u.n

LEMMA GoneSound == Gone \in Sound /\ Gone \in Entry
BY PersistenceAssumption DEF Gone, Sound, Entry, NoTtl

LEMMA ReplayedSound ==
  ASSUME NEW e \in Sound, NEW r \in Record, r.op # "SELECT", NEW t
  PROVE  Replayed(e, r, t) \in Sound
<1>0. r.val \in Val /\ r.val # Absent /\ r.at \in 0..MaxTime + 1 /\ 0 \in 0..MaxTime + 1
  BY PersistenceAssumption DEF Record
<1>1. CASE r.op = "SET"
  BY <1>0, <1>1, PersistenceAssumption DEF Replayed, Sound, Entry, NoTtl
<1>2. CASE r.op = "DEL"
  BY <1>2, GoneSound DEF Replayed
<1>3. CASE r.op = "PEXPIREAT"
  <2>1. CASE e = Gone \/ r.at <= t
    BY <1>3, <2>1, GoneSound DEF Replayed
  <2>2. CASE ~(e = Gone \/ r.at <= t)
    BY <1>0, <1>3, <2>2 DEF Replayed, Sound, Entry
  <2> QED
    BY <2>1, <2>2
<1>4. CASE r.op = "PERSIST"
  BY <1>0, <1>4 DEF Replayed, Sound, Entry, Gone, NoTtl
<1> QED
  BY <1>1, <1>2, <1>3, <1>4 DEF Record

LEMMA ReadingIs ==
  ASSUME NEW s \in Reading
  PROVE  /\ s.mem \in Store /\ s.cut \in Held /\ s.lost \in BOOLEAN /\ s.n \in Nat
         /\ s = [mem |-> s.mem, cut |-> s.cut, lost |-> s.lost, n |-> s.n]
BY DEF Reading

\* The readers a step can make of s.
LEMMA ReadingLost ==
  ASSUME NEW s \in Reading
  PROVE  LET u == [s EXCEPT !.lost = TRUE]
         IN  u \in Reading /\ u.mem = s.mem /\ u.cut = s.cut /\ u.lost /\ u.n = s.n
BY DEF Reading

LEMMA ReadingCut ==
  ASSUME NEW s \in Reading, NEW c \in Held
  PROVE  LET u == [s EXCEPT !.cut = c]
         IN  u \in Reading /\ u.mem = s.mem /\ u.cut = c /\ u.lost = s.lost /\ u.n = s.n
BY DEF Reading

LEMMA ReadingUncut ==
  ASSUME NEW s \in Reading, NEW m \in Store, NEW c \in Held
  PROVE  LET u == [s EXCEPT !.cut = c, !.mem = m]
         IN  u \in Reading /\ u.mem = m /\ u.cut = c /\ u.lost = s.lost /\ u.n = s.n
BY DEF Reading

LEMMA ReadingMore ==
  ASSUME NEW s \in Reading, NEW m \in Store
  PROVE  LET u == [s EXCEPT !.mem = m, !.n = s.n + 1]
         IN  u \in Reading /\ u.mem = m /\ u.cut = s.cut /\ u.lost = s.lost /\ u.n = s.n + 1
<1> DEFINE i == s.n + 1
           u == [s EXCEPT !.mem = m, !.n = i]
<1>1. i \in Nat
  BY ReadingIs
<1> HIDE DEF i
<1>2. u \in Reading
  BY <1>1 DEF Reading
<1>3. u.mem = m /\ u.cut = s.cut /\ u.lost = s.lost /\ u.n = i
  BY DEF Reading
<1> QED
  BY <1>2, <1>3 DEF i

LEMMA ReaderTyped == Reader \in Reading
<1>1. Empty \in Store /\ <<>> \in Held
  BY GoneSound DEF Empty, Store, Held
<1> QED
  BY <1>1 DEF Reader, Reading

LEMMA StoreExcept ==
  ASSUME NEW m \in Store, NEW p \in Pair, NEW w \in Sound
  PROVE  /\ [m EXCEPT ![p] = w] \in Store
         /\ [m EXCEPT ![p] = w][p] = w
         /\ \A q \in Pair \ {p} : [m EXCEPT ![p] = w][q] = m[q]
BY DEF Store

LEMMA ReadTyped ==
  ASSUME NEW s \in Reading, NEW r \in Record, NEW t
  PROVE  /\ ReadAt(s, r, t) \in Reading
         /\ s.n <= ReadAt(s, r, t).n /\ ReadAt(s, r, t).n <= s.n + 1
         /\ r.op = "SELECT" => ReadAt(s, r, t).n = s.n
<1> DEFINE u == ReadAt(s, r, t)
<1>0. s.mem \in Store /\ s.cut \in Held /\ s.lost \in BOOLEAN /\ s.n \in Nat
  BY ReadingIs
<1>x. s.n <= s.n /\ s.n <= s.n + 1 /\ s.n + 1 <= s.n + 1 /\ s.n + 1 \in Nat
  BY <1>0
<1>1. CASE s.lost
  BY <1>1, <1>x DEF ReadAt
<1>2. CASE ~s.lost /\ s.cut # <<>>
  <2>1. PICK c \in Record : s.cut = <<c>>
    BY <1>0, <1>2 DEF Held
  <2>2. s.cut[1] = c
    BY <2>1
  <2>3. CASE c.cut = "inside"
    <3>1. u = [s EXCEPT !.lost = TRUE]
      BY <1>2, <2>2, <2>3 DEF ReadAt
    <3> HIDE DEF u
    <3>2. u \in Reading /\ u.n = s.n
      BY <3>1, ReadingLost
    <3> QED
      BY <1>x, <3>2 DEF u
  <2>4. CASE c.cut # "inside"
    <3> DEFINE w == [val |-> Garbled, ttl |-> NoTtl]
               m == IF c.op = "SET" THEN [s.mem EXCEPT ![<<Db0, c.key>>] = w] ELSE s.mem
    <3>1. w \in Sound /\ <<Db0, c.key>> \in Pair
      BY PersistenceAssumption DEF Sound, Entry, NoTtl, Pair, Record
    <3>2. m \in Store
      BY <1>0, <3>1, StoreExcept
    <3>3. u = [s EXCEPT !.cut = <<>>, !.mem = m]
      BY <1>2, <2>2, <2>4 DEF ReadAt
    <3> HIDE DEF w, m, u
    <3>4. <<>> \in Held
      BY DEF Held
    <3>5. u \in Reading /\ u.n = s.n
      BY <3>2, <3>3, <3>4, ReadingUncut
    <3> QED
      BY <1>x, <3>5 DEF u
  <2> QED
    BY <2>3, <2>4
<1>3. CASE ~s.lost /\ s.cut = <<>> /\ r.cut # "whole"
  <2>1. u = [s EXCEPT !.cut = <<r>>]
    BY <1>3 DEF ReadAt
  <2> HIDE DEF u
  <2>2. <<r>> \in Held
    BY DEF Held
  <2>3. u \in Reading /\ u.n = s.n
    BY <2>1, <2>2, ReadingCut
  <2> QED
    BY <1>x, <2>3 DEF u
<1>4. CASE ~s.lost /\ s.cut = <<>> /\ r.cut = "whole" /\ r.op = "SELECT"
  BY <1>4, <1>x DEF ReadAt
<1>5. CASE ~s.lost /\ s.cut = <<>> /\ r.cut = "whole" /\ r.op # "SELECT"
  <2> DEFINE p == <<Db0, r.key>>
             w == Replayed(s.mem[p], r, t)
             m == [s.mem EXCEPT ![p] = w]
  <2>1. p \in Pair
    BY PersistenceAssumption DEF Pair, Record
  <2>2. w \in Sound
    BY <1>0, <1>5, <2>1, ReplayedSound DEF Store
  <2>3. m \in Store
    BY <1>0, <2>1, <2>2, StoreExcept
  <2>4. u = [s EXCEPT !.mem = m, !.n = s.n + 1]
    BY <1>5 DEF ReadAt
  <2> HIDE DEF u, m, w, p
  <2>5. u \in Reading /\ u.n = s.n + 1
    BY <2>3, <2>4, ReadingMore
  <2> QED
    BY <1>5, <1>x, <2>5 DEF u
<1> QED
  BY <1>1, <1>2, <1>3, <1>4, <1>5

LEMMA ReadInStep ==
  ASSUME NEW s \in Reading, NEW u \in Reading, InStep(s, u), NEW r \in Record, NEW t, NEW v
  PROVE  InStep(ReadAt(s, r, t), ReadAt(u, r, v))
<1>1. CASE s.lost
  BY <1>1 DEF ReadAt, Reading, InStep
<1>2. CASE ~s.lost /\ s.cut # <<>>
  BY <1>2 DEF ReadAt, Reading, InStep
<1>3. CASE ~s.lost /\ s.cut = <<>> /\ r.cut # "whole"
  BY <1>3 DEF ReadAt, Reading, InStep
<1>4. CASE ~s.lost /\ s.cut = <<>> /\ r.cut = "whole" /\ r.op = "SELECT"
  BY <1>4 DEF ReadAt, Reading, InStep
<1>5. CASE ~s.lost /\ s.cut = <<>> /\ r.cut = "whole" /\ r.op # "SELECT"
  BY <1>5 DEF ReadAt, Reading, InStep
<1> QED
  BY <1>1, <1>2, <1>3, <1>4, <1>5

\* A record that is cut counts for nothing.
LEMMA ReadCutCounts ==
  ASSUME NEW s \in Reading, NEW r \in Record, NEW t, r.cut # "whole"
  PROVE  /\ ReadAt(s, r, t).n = s.n
         /\ s.cut = <<>> /\ ~s.lost =>
              /\ ReadAt(s, r, t).cut = <<r>> /\ ~ReadAt(s, r, t).lost
              /\ ReadAt(s, r, t).mem = s.mem
<1>1. CASE s.lost
  BY <1>1 DEF ReadAt
<1>2. CASE ~s.lost /\ s.cut # <<>>
  <2>1. s.mem \in Store /\ s.cut \in Held
    BY ReadingIs
  <2>2. PICK c \in Record : s.cut = <<c>>
    BY <1>2, <2>1 DEF Held
  <2>3. CASE s.cut[1].cut = "inside"
    BY <1>2, <2>3, ReadingLost DEF ReadAt
  <2>4. CASE s.cut[1].cut # "inside"
    BY <1>2, <2>4 DEF ReadAt, Reading
  <2> QED
    BY <2>3, <2>4
<1>3. CASE ~s.lost /\ s.cut = <<>>
  <2>1. <<r>> \in Held
    BY DEF Held
  <2>2. ReadAt(s, r, t) = [s EXCEPT !.cut = <<r>>]
    BY <1>3 DEF ReadAt
  <2> QED
    BY <1>3, <2>1, <2>2, ReadingCut
<1> QED
  BY <1>1, <1>2, <1>3

\* A record that is whole, read by a reader that holds none that is cut.
LEMMA ReadClean ==
  ASSUME NEW s \in Reading, NEW r \in Record, NEW t, s.cut = <<>>, ~s.lost, r.cut = "whole"
  PROVE  LET u == ReadAt(s, r, t)
             p == <<Db0, r.key>>
         IN  /\ u.cut = <<>> /\ ~u.lost
             /\ r.op = "SELECT" => u = s
             /\ r.op # "SELECT" =>
                  /\ u.n = s.n + 1
                  /\ u.mem[p] = Replayed(s.mem[p], r, t)
                  /\ \A q \in Pair \ {p} : u.mem[q] = s.mem[q]
<1>1. CASE r.op = "SELECT"
  BY <1>1 DEF ReadAt
<1>2. CASE r.op # "SELECT"
  <2> DEFINE p == <<Db0, r.key>>
             w == Replayed(s.mem[p], r, t)
             m == [s.mem EXCEPT ![p] = w]
             u == ReadAt(s, r, t)
  <2>1. p \in Pair
    BY PersistenceAssumption DEF Pair, Record
  <2>2. s.mem \in Store
    BY ReadingIs
  <2>3. w \in Sound
    BY <1>2, <2>1, <2>2, ReplayedSound DEF Store
  <2> HIDE DEF w, p
  <2>4. m[p] = w /\ \A q \in Pair \ {p} : m[q] = s.mem[q]
    BY <2>1, <2>2 DEF Store
  <2>5. u = [s EXCEPT !.mem = m, !.n = s.n + 1]
    BY <1>2 DEF ReadAt, w, p
  <2> HIDE DEF u, m
  <2>6. m \in Store
    BY <2>1, <2>2, <2>3, StoreExcept DEF m
  <2>7. u.mem = m /\ u.cut = <<>> /\ ~u.lost /\ u.n = s.n + 1
    BY <2>5, <2>6, ReadingMore
  <2> QED
    BY <1>2, <2>4, <2>7 DEF u, w, p
<1> QED
  BY <1>1, <1>2

\* How many mutations the first k records of L are, whenever they are read.
Got(L, k) == After(0, L, k).n

\* None of the first k records of L is cut.
Clean(L, k) == \A i \in 1..k : L[i].cut = "whole"

LEMMA AfterTyped ==
  ASSUME NEW L \in Seq(Record)
  PROVE  \A t : \A k \in 0..Len(L) : After(t, L, k) \in Reading
<1> SUFFICES ASSUME NEW t PROVE \A k \in 0..Len(L) : After(t, L, k) \in Reading
  OBVIOUS
<1> DEFINE N == {k \in Nat : k <= Len(L) => After(t, L, k) \in Reading}
<1>1. 0 \in N
  BY AfterNone, ReaderTyped
<1>2. ASSUME NEW k \in Nat, k \in N PROVE k + 1 \in N
  <2> SUFFICES ASSUME k + 1 <= Len(L) PROVE After(t, L, k + 1) \in Reading
    BY <1>2
  <2>1. After(t, L, k) \in Reading /\ L[k + 1] \in Record
    BY <1>2
  <2> QED
    BY <2>1, AfterNext, ReadTyped
<1> HIDE DEF N
<1>3. Nat \subseteq N
  BY <1>1, <1>2, Induction
<1> QED
  BY <1>3 DEF N

LEMMA AfterInStep ==
  ASSUME NEW L \in Seq(Record)
  PROVE  \A t, u : \A k \in 0..Len(L) : InStep(After(t, L, k), After(u, L, k))
<1> SUFFICES ASSUME NEW t, NEW u
             PROVE  \A k \in 0..Len(L) : InStep(After(t, L, k), After(u, L, k))
  OBVIOUS
<1> DEFINE N == {k \in Nat : k <= Len(L) => InStep(After(t, L, k), After(u, L, k))}
<1>1. 0 \in N
  BY AfterNone DEF InStep
<1>2. ASSUME NEW k \in Nat, k \in N PROVE k + 1 \in N
  <2> SUFFICES ASSUME k + 1 <= Len(L) PROVE InStep(After(t, L, k + 1), After(u, L, k + 1))
    BY <1>2
  <2>1. InStep(After(t, L, k), After(u, L, k)) /\ L[k + 1] \in Record /\ k \in 0..Len(L)
    BY <1>2
  <2>2. After(t, L, k) \in Reading /\ After(u, L, k) \in Reading
    BY <2>1, AfterTyped
  <2> QED
    BY <2>1, <2>2, AfterNext, ReadInStep
<1> HIDE DEF N
<1>3. Nat \subseteq N
  BY <1>1, <1>2, Induction
<1> QED
  BY <1>3 DEF N

LEMMA GotIs ==
  ASSUME NEW L \in Seq(Record), NEW k \in 0..Len(L)
  PROVE  /\ Got(L, k) \in Nat
         /\ \A t : After(t, L, k).n = Got(L, k)
<1>1. After(0, L, k) \in Reading
  BY AfterTyped
<1>2. \A t : InStep(After(t, L, k), After(0, L, k))
  BY AfterInStep
<1> QED
  BY <1>1, <1>2, ReadingIs DEF Got, InStep

LEMMA GotNext ==
  ASSUME NEW L \in Seq(Record), NEW k \in Nat, k + 1 <= Len(L)
  PROVE  /\ Got(L, k) <= Got(L, k + 1) /\ Got(L, k + 1) <= Got(L, k) + 1
         /\ L[k + 1].op = "SELECT" => Got(L, k + 1) = Got(L, k)
<1>1. After(0, L, k) \in Reading /\ L[k + 1] \in Record
  BY AfterTyped
<1>2. After(0, L, k + 1) = ReadAt(After(0, L, k), L[k + 1], 0)
  BY AfterNext
<1> QED
  BY <1>1, <1>2, ReadTyped DEF Got

\* Reading on never makes fewer of them.
LEMMA GotMonotone ==
  ASSUME NEW L \in Seq(Record), NEW j \in Nat
  PROVE  \A k \in Nat : j <= k /\ k <= Len(L) => Got(L, j) <= Got(L, k)
<1> DEFINE N == {k \in Nat : j <= k /\ k <= Len(L) => Got(L, j) <= Got(L, k)}
<1>1. 0 \in N
  <2> SUFFICES ASSUME j <= 0, 0 <= Len(L) PROVE Got(L, j) <= Got(L, 0)
    OBVIOUS
  <2>1. j = 0 /\ Got(L, 0) \in Nat
    BY GotIs
  <2> QED
    BY <2>1
<1>2. ASSUME NEW k \in Nat, k \in N PROVE k + 1 \in N
  <2> SUFFICES ASSUME j <= k + 1, k + 1 <= Len(L) PROVE Got(L, j) <= Got(L, k + 1)
    OBVIOUS
  <2>1. Got(L, j) \in Nat /\ Got(L, k) \in Nat /\ Got(L, k + 1) \in Nat
    <3>1. j \in 0..Len(L) /\ k \in 0..Len(L) /\ k + 1 \in 0..Len(L)
      OBVIOUS
    <3> QED
      BY <3>1, GotIs
  <2>2. CASE j = k + 1
    BY <2>1, <2>2
  <2>3. CASE j # k + 1
    <3>1. Got(L, j) <= Got(L, k)
      BY <1>2, <2>3
    <3>2. Got(L, k) <= Got(L, k + 1)
      BY GotNext
    <3> QED
      BY <2>1, <3>1, <3>2
  <2> QED
    BY <2>2, <2>3
<1> HIDE DEF N
<1>3. Nat \subseteq N
  BY <1>1, <1>2, Induction
<1> QED
  BY <1>3 DEF N

LEMMA AfterClean ==
  ASSUME NEW L \in Seq(Record)
  PROVE  \A t : \A k \in 0..Len(L) :
           Clean(L, k) => After(t, L, k).cut = <<>> /\ ~After(t, L, k).lost
<1> SUFFICES ASSUME NEW t
             PROVE  \A k \in 0..Len(L) :
                      Clean(L, k) => After(t, L, k).cut = <<>> /\ ~After(t, L, k).lost
  OBVIOUS
<1> DEFINE N == {k \in Nat : k <= Len(L) /\ Clean(L, k) =>
                               After(t, L, k).cut = <<>> /\ ~After(t, L, k).lost}
<1>1. 0 \in N
  BY AfterNone DEF Reader
<1>2. ASSUME NEW k \in Nat, k \in N PROVE k + 1 \in N
  <2> SUFFICES ASSUME k + 1 <= Len(L), Clean(L, k + 1)
               PROVE  After(t, L, k + 1).cut = <<>> /\ ~After(t, L, k + 1).lost
    BY <1>2
  <2>1. /\ L[k + 1] \in Record /\ k \in 0..Len(L) /\ L[k + 1].cut = "whole"
        /\ Clean(L, k)
    BY <1>2 DEF Clean
  <2>2. After(t, L, k).cut = <<>> /\ ~After(t, L, k).lost
    BY <1>2, <2>1
  <2>3. After(t, L, k) \in Reading
    BY <2>1, AfterTyped
  <2>4. After(t, L, k + 1) = ReadAt(After(t, L, k), L[k + 1], t)
    BY AfterNext
  <2> DEFINE s == After(t, L, k)
             r == L[k + 1]
  <2>5. s \in Reading /\ r \in Record /\ s.cut = <<>> /\ ~s.lost /\ r.cut = "whole"
    BY <2>1, <2>2, <2>3
  <2> HIDE DEF s, r
  <2>6. ReadAt(s, r, t).cut = <<>> /\ ~ReadAt(s, r, t).lost
    BY <2>5, ReadClean
  <2> QED
    BY <2>4, <2>6 DEF s, r
<1> HIDE DEF N
<1>3. Nat \subseteq N
  BY <1>1, <1>2, Induction
<1> QED
  BY <1>3 DEF N

\* A log that agrees with another does the same as far as they agree.
LEMMA GotSame ==
  ASSUME NEW L, NEW M, NEW k \in Nat, Agree(L, M, k)
  PROVE  /\ Got(L, k) = Got(M, k)
         /\ Clean(L, k) <=> Clean(M, k)
BY AfterSame DEF Got, Agree, Clean

\* M is L with a mutation recorded at its end.
Grown(L, M, r) ==
  /\ M \in Seq(Record) /\ Agree(L, M, Len(L)) /\ Len(M) \in Nat /\ Len(L) < Len(M)
  /\ Got(M, Len(M)) <= Got(L, Len(L)) + 1
  /\ \A i \in 1..Len(M) : i > Len(L) => M[i].cut = "whole"
  /\ Clean(L, Len(L)) =>
       /\ Clean(M, Len(M))
       /\ \A t : After(t, M, Len(M)) = ReadAt(After(t, L, Len(L)), r, t)
       /\ \A t : \A k \in Len(L)..Len(M) - 1 : After(t, M, k) = After(t, L, Len(L))

LEMMA GrownOne ==
  ASSUME NEW L \in Seq(Record), NEW r \in Record, r.cut = "whole"
  PROVE  /\ Grown(L, L \o <<r>>, r)
         /\ r.op = "SELECT" => Got(L \o <<r>>, Len(L \o <<r>>)) = Got(L, Len(L))
         /\ Len(L \o <<r>>) = Len(L) + 1
<1> DEFINE M == L \o <<r>>
           d == Len(L)
<1>1. /\ M \in Seq(Record) /\ Len(M) = d + 1 /\ d \in Nat /\ M[d + 1] = r
      /\ \A i \in 1..d : M[i] = L[i]
  OBVIOUS
<1>2. Agree(L, M, d)
  BY <1>1 DEF Agree
<1> HIDE DEF M, d
<1>3. \A t : After(t, L, d) = After(t, M, d)
  BY <1>1, <1>2, AfterSame
<1>4. \A t : After(t, M, d + 1) = ReadAt(After(t, L, d), r, t)
  BY <1>1, <1>3, AfterNext
<1>5. Got(L, d) = Got(M, d)
  BY <1>3 DEF Got
<1>6. Got(M, d + 1) <= Got(L, d) + 1 /\ (r.op = "SELECT" => Got(M, d + 1) = Got(L, d))
  <2>1. d + 1 <= Len(M)
    BY <1>1
  <2> QED
    BY <1>1, <1>5, <2>1, GotNext
<1>7. Clean(L, d) => Clean(M, d + 1)
  <2> SUFFICES ASSUME Clean(L, d), NEW i \in 1..d + 1 PROVE M[i].cut = "whole"
    BY DEF Clean
  <2>1. CASE i = d + 1
    BY <1>1, <2>1
  <2>2. CASE i # d + 1
    <3>1. i \in 1..d
      BY <1>1, <2>2
    <3> QED
      BY <1>1, <3>1 DEF Clean
  <2> QED
    BY <2>1, <2>2
<1>8. \A i \in 1..(d + 1) : i > d => M[i].cut = "whole"
  BY <1>1
<1>a. \A t : \A k \in d..Len(M) - 1 : After(t, M, k) = After(t, L, d)
  <2>1. \A k \in d..Len(M) - 1 : k = d
    BY <1>1
  <2> QED
    BY <1>3, <2>1
<1>9. Grown(L, M, r)
  BY <1>1, <1>2, <1>4, <1>6, <1>7, <1>8, <1>a DEF Grown, d
<1> QED
  BY <1>1, <1>6, <1>9 DEF M, d

LEMMA GrownTwo ==
  ASSUME NEW L \in Seq(Record), NEW r \in Record, r.cut = "whole",
         NEW s \in Record, s.cut = "whole", s.op = "SELECT"
  PROVE  Grown(L, L \o <<s, r>>, r)
<1> DEFINE K == L \o <<s>>
           M == K \o <<r>>
           d == Len(L)
           c == Len(K)
<1>1. L \o <<s, r>> = M /\ d \in Nat
  OBVIOUS
<1>2. Grown(L, K, s) /\ Got(K, c) = Got(L, d) /\ c = d + 1
  BY GrownOne
<1>3. K \in Seq(Record)
  BY <1>2 DEF Grown
<1> HIDE DEF K
<1>4. Grown(K, M, r) /\ Len(M) = c + 1
  BY <1>3, GrownOne
<1> HIDE DEF M, d, c
<1>5. Agree(L, M, d) /\ M \in Seq(Record) /\ d < Len(M) /\ Len(M) \in Nat
  BY <1>1, <1>2, <1>4 DEF Agree, Grown, d, c
<1>6. Got(M, Len(M)) <= Got(L, d) + 1
  BY <1>2, <1>4 DEF Grown, d, c
<1>7. \A i \in 1..Len(M) : i > d => M[i].cut = "whole"
  <2> SUFFICES ASSUME NEW i \in 1..Len(M), i > d PROVE M[i].cut = "whole"
    OBVIOUS
  <2>1. CASE i > c
    BY <1>4, <2>1 DEF Grown, c
  <2>2. CASE ~(i > c)
    <3>1. i \in 1..c /\ c \in Nat
      BY <1>1, <1>2, <2>2
    <3> QED
      BY <1>2, <1>4, <3>1 DEF Grown, c, d, Agree
  <2> QED
    BY <2>1, <2>2
<1>8. ASSUME Clean(L, d)
      PROVE  /\ Clean(M, Len(M)) /\ \A t : After(t, M, Len(M)) = ReadAt(After(t, L, d), r, t)
             /\ \A t : \A k \in d..Len(M) - 1 : After(t, M, k) = After(t, L, d)
  <2>1. Clean(K, c) /\ \A t : After(t, K, c) = ReadAt(After(t, L, d), s, t)
    BY <1>2, <1>8 DEF Grown, c, d
  <2>2. Clean(M, Len(M)) /\ \A t : After(t, M, Len(M)) = ReadAt(After(t, K, c), r, t)
    BY <1>4, <2>1 DEF Grown, c
  <2>3. ASSUME NEW t PROVE After(t, K, c) = After(t, L, d)
    <3>1. d \in 0..Len(L)
      BY <1>1 DEF d
    <3>2. /\ After(t, L, d) \in Reading
          /\ After(t, L, d).cut = <<>> /\ ~After(t, L, d).lost
      BY <1>8, <3>1, AfterTyped, AfterClean
    <3>3. ReadAt(After(t, L, d), s, t) = After(t, L, d)
      BY <3>2 DEF ReadAt
    <3> QED
      BY <2>1, <3>3
  <2>4. ASSUME NEW t, NEW k \in d..Len(M) - 1 PROVE After(t, M, k) = After(t, L, d)
    <3>1. Len(M) = c + 1 /\ c = d + 1 /\ d \in Nat
      BY <1>1, <1>2, <1>4
    <3>2. k = d \/ k = c
      BY <3>1
    <3>3. CASE k = d
      BY <1>1, <1>5, <3>3, AfterSame
    <3>4. CASE k = c
      <4>1. After(t, M, c) = After(t, K, c)
        BY <1>4, <3>1, AfterSame DEF Grown, c
      <4> QED
        BY <2>3, <3>4, <4>1
    <3> QED
      BY <3>2, <3>3, <3>4
  <2> QED
    BY <2>2, <2>3, <2>4
<1>9. Grown(L, M, r)
  BY <1>5, <1>6, <1>7, <1>8 DEF Grown, d
<1> QED
  BY <1>1, <1>9

-----------------------------------------------------------------------------
(* What the process has recorded: types, counts, and what a stop keeps.    *)

\* Everything recorded, whether or not it has left the process.
Log == file \o buffer

Shape ==
  /\ mem \in Store /\ rdb.mem \in Store
  /\ ~up => buffer = <<>> /\ due = 0
  /\ ~appendonly => /\ file = <<>> /\ buffer = <<>>
                    /\ rdb.n <= Mutations /\ promised <= rdb.n /\ due <= promised
  /\ Clean(buffer, Len(buffer))
  /\ \A i \in 1..Len(file) : file[i].cut \in Cuts \cup {"whole"}
  /\ Mutations <= MaxMutations
  /\ ~up /\ appendonly /\ ended = "shutdown" => file = <<>>

Typed == TypeOK /\ Shape

\* The log holds no more mutations than were acknowledged.
Counted == appendonly => Got(Log, Len(Log)) <= Mutations

\* While the process runs, and once it was stopped, the log holds them all,
\* unless a cut record hides some.
Complete ==
  appendonly /\ (up \/ ended = "stop") /\ Clean(Log, Len(Log) - 1) =>
    Got(Log, Len(Log)) = Mutations

Recorded == Typed /\ Counted /\ Complete

LEMMA StoreEntry == Store \subseteq [Pair -> Entry]
BY DEF Store, Sound

\* What a command makes of the entry at its key, and the record it leaves.
Meant(e, old, r) ==
  \/ r.op = "SET" /\ e.val = r.val
  \/ r.op = "DEL" /\ e = Gone
  \/ r.op = "PEXPIREAT" /\ old # Gone /\ e.val = old.val /\ e.ttl = r.at /\ r.at > now
  \/ r.op = "PERSIST" /\ e.val = old.val

Mutated(p, e, r) ==
  /\ p \in Pair /\ e \in Sound /\ r \in Record
  /\ r.op # "SELECT" /\ r.cut = "whole" /\ p = <<r.db, r.key>>
  /\ Meant(e, mem[p], r)
  /\ r = [op |-> r.op, db |-> p[1], key |-> p[2], val |-> r.val, at |-> r.at, cut |-> "whole"]
  /\ Mutate(p, e, r.op, r.val, r.at)

LEMMA CommandIs ==
  ASSUME Typed, Command
  PROVE  \E p, e, r : Mutated(p, e, r)
<1>0. AnyVal \in Val
  BY PersistenceAssumption DEF AnyVal
<1>1. PICK p \in Pair :
        IF Elapsed(p) THEN Mutate(p, Gone, "DEL", AnyVal, 0)
        ELSE \/ \E v \in Val : Set(p, v) \/ Incr(p, v)
             \/ \E v \in Val, at \in 1..MaxTime : SetEx(p, v, at)
             \/ \E at \in 1..MaxTime : Expire(p, at)
             \/ Del(p) \/ Persist(p)
  BY DEF Command
<1>2. mem[p] \in Sound /\ p[1] \in Db /\ p[2] \in Key /\ p = <<p[1], p[2]>>
  BY DEF Typed, Shape, Store, Pair
<1> DEFINE R(op, v, at) == [op |-> op, db |-> p[1], key |-> p[2], val |-> v, at |-> at,
                            cut |-> "whole"]
<1>3. ASSUME NEW e \in Sound, NEW op \in {"SET", "DEL", "PEXPIREAT", "PERSIST"},
             NEW v \in Val, NEW at \in 0..MaxTime + 1,
             Meant(e, mem[p], R(op, v, at)), Mutate(p, e, op, v, at)
      PROVE  Mutated(p, e, R(op, v, at))
  <2> DEFINE r == R(op, v, at)
  <2>1. r.op = op /\ r.db = p[1] /\ r.key = p[2] /\ r.val = v /\ r.at = at /\ r.cut = "whole"
    OBVIOUS
  <2>2. r \in Record
    BY <1>2 DEF Record
  <2>3. Mutate(p, e, r.op, r.val, r.at)
    BY <1>3
  <2>4. Meant(e, mem[p], r)
    BY <1>3
  <2>5. r = [op |-> r.op, db |-> p[1], key |-> p[2], val |-> r.val, at |-> r.at, cut |-> "whole"]
    OBVIOUS
  <2>6. r.op # "SELECT" /\ p = <<r.db, r.key>>
    BY <1>2
  <2> HIDE DEF r
  <2> QED
    BY <2>1, <2>2, <2>3, <2>4, <2>5, <2>6 DEF Mutated, r
<1>4. Gone \in Sound /\ 0 \in 0..MaxTime + 1 /\ MaxTime \in Nat
  BY GoneSound, PersistenceAssumption
<1>5. ASSUME NEW v \in Val, NEW t \in 0..MaxTime + 1
      PROVE  [val |-> v, ttl |-> t] \in Sound
  BY PersistenceAssumption DEF Sound, Entry
<1>6. now \in 0..MaxTime
  BY DEF Typed, TypeOK
<1>7. CASE Elapsed(p)
  <2>1. Meant(Gone, mem[p], R("DEL", AnyVal, 0))
    BY DEF Meant
  <2> HIDE DEF R
  <2> QED
    BY <1>0, <1>1, <1>3, <1>4, <1>7, <2>1
<1>8. ASSUME ~Elapsed(p), NEW v \in Val, Set(p, v) PROVE \E q, e, r : Mutated(q, e, r)
  <2> DEFINE e == [val |-> v, ttl |-> NoTtl]
  <2>1. e \in Sound /\ Mutate(p, e, "SET", v, 0)
    BY <1>4, <1>5, <1>8 DEF Set, NoTtl
  <2>2. Meant(e, mem[p], R("SET", v, 0))
    BY DEF Meant
  <2> HIDE DEF R, e
  <2> QED
    BY <1>3, <1>4, <2>1, <2>2
<1>9. ASSUME ~Elapsed(p), NEW v \in Val, Incr(p, v) PROVE \E q, e, r : Mutated(q, e, r)
  <2> DEFINE e == [mem[p] EXCEPT !.val = v]
  <2>1. e = [val |-> v, ttl |-> mem[p].ttl] /\ mem[p].ttl \in 0..MaxTime + 1
    BY <1>2 DEF Sound, Entry
  <2>2. e \in Sound /\ Mutate(p, e, "SET", v, 0)
    BY <1>5, <1>9, <2>1 DEF Incr
  <2>3. Meant(e, mem[p], R("SET", v, 0))
    BY <2>1 DEF Meant
  <2> HIDE DEF R, e
  <2> QED
    BY <1>3, <1>4, <2>2, <2>3
<1>10. ASSUME ~Elapsed(p), NEW v \in Val, NEW at \in 1..MaxTime, SetEx(p, v, at)
       PROVE  \E q, e, r : Mutated(q, e, r)
  <2> DEFINE e == [val |-> v, ttl |-> at]
  <2>0. at \in 0..MaxTime + 1
    BY <1>4
  <2>1. e \in Sound /\ Mutate(p, e, "SET", v, 0)
    BY <1>5, <1>10, <2>0 DEF SetEx
  <2>2. Meant(e, mem[p], R("SET", v, 0))
    BY DEF Meant
  <2> HIDE DEF R, e
  <2> QED
    BY <1>3, <1>4, <2>1, <2>2
<1>11. ASSUME ~Elapsed(p), NEW at \in 1..MaxTime, Expire(p, at)
       PROVE  \E q, e, r : Mutated(q, e, r)
  <2> DEFINE e == [mem[p] EXCEPT !.ttl = at]
  <2>0. at \in 0..MaxTime + 1
    BY <1>4
  <2>1. e = [val |-> mem[p].val, ttl |-> at]
    BY <1>2 DEF Sound, Entry
  <2>2. mem[p] # Gone /\ at > now /\ Mutate(p, e, "PEXPIREAT", AnyVal, at)
    BY <1>11 DEF Expire, Exists
  <2>3. e \in Sound
    BY <1>2, <2>0, <2>1, <2>2 DEF Sound, Entry
  <2>4. Meant(e, mem[p], R("PEXPIREAT", AnyVal, at))
    BY <2>1, <2>2 DEF Meant
  <2> HIDE DEF R, e
  <2> QED
    BY <1>0, <1>3, <2>0, <2>2, <2>3, <2>4
<1>12. ASSUME ~Elapsed(p), Del(p) PROVE \E q, e, r : Mutated(q, e, r)
  <2>1. Meant(Gone, mem[p], R("DEL", AnyVal, 0)) /\ Mutate(p, Gone, "DEL", AnyVal, 0)
    BY <1>12 DEF Meant, Del
  <2> HIDE DEF R
  <2> QED
    BY <1>0, <1>3, <1>4, <2>1
<1>13. ASSUME ~Elapsed(p), Persist(p) PROVE \E q, e, r : Mutated(q, e, r)
  <2> DEFINE e == [mem[p] EXCEPT !.ttl = NoTtl]
  <2>1. e = [val |-> mem[p].val, ttl |-> 0]
    BY <1>2 DEF Sound, Entry, NoTtl
  <2>2. Mutate(p, e, "PERSIST", AnyVal, 0)
    BY <1>13 DEF Persist
  <2>3. e \in Sound
    BY <1>2, <1>4, <2>1 DEF Sound, Entry, Gone, NoTtl
  <2>4. Meant(e, mem[p], R("PERSIST", AnyVal, 0))
    BY <2>1 DEF Meant
  <2> HIDE DEF R, e
  <2> QED
    BY <1>0, <1>3, <1>4, <2>2, <2>3, <2>4
<1> HIDE DEF R
<1> QED
  BY <1>1, <1>7, <1>8, <1>9, <1>10, <1>11, <1>12, <1>13
LEMMA FlushIs ==
  ASSUME Typed, NEW records \in Seq(Record), Flush(records)
  PROVE  /\ buffer' = <<>> /\ file' = file \o records /\ file' \in Seq(Record)
         /\ Len(file') = Len(file) + Len(records)
         /\ synced' \in 0..Len(file') /\ synced' \in {synced, Len(file')}
BY DEF Typed, TypeOK, Flush

\* What a mutation writes.
Written(r) == IF Select(r.db) THEN <<[r EXCEPT !.op = "SELECT"], r>> ELSE <<r>>

LEMMA WrittenIs ==
  ASSUME NEW r \in Record, r.cut = "whole"
  PROVE  /\ Written(r) \in Seq(Record) /\ Written(r) # <<>>
         /\ \A i \in 1..Len(Written(r)) : Written(r)[i].cut = "whole"
         /\ \A L \in Seq(Record) : Grown(L, L \o Written(r), r)
<1> DEFINE s == [r EXCEPT !.op = "SELECT"]
<1>1. s \in Record /\ s.cut = "whole" /\ s.op = "SELECT"
  BY DEF Record
<1>2. CASE Select(r.db)
  <2>1. Written(r) = <<s, r>>
    BY <1>2 DEF Written
  <2> HIDE DEF s
  <2>2. /\ <<s, r>> \in Seq(Record) /\ <<s, r>> # <<>>
        /\ \A i \in 1..Len(<<s, r>>) : <<s, r>>[i].cut = "whole"
    BY <1>1
  <2>3. \A L \in Seq(Record) : Grown(L, L \o <<s, r>>, r)
    BY <1>1, GrownTwo
  <2> QED
    BY <2>1, <2>2, <2>3
<1>3. CASE ~Select(r.db)
  <2>1. Written(r) = <<r>>
    BY <1>3 DEF Written
  <2>2. /\ <<r>> \in Seq(Record) /\ <<r>> # <<>>
        /\ \A i \in 1..Len(<<r>>) : <<r>>[i].cut = "whole"
    OBVIOUS
  <2> QED
    BY <2>1, <2>2, GrownOne
<1> QED
  BY <1>2, <1>3

LEMMA LogTyped ==
  ASSUME Typed
  PROVE  /\ Log \in Seq(Record) /\ Len(Log) = Len(file) + Len(buffer)
         /\ Agree(Log, file, Len(file))
         /\ file \in Seq(Record) /\ buffer \in Seq(Record)
         /\ ~up => Log = file
<1>1. file \in Seq(Record) /\ buffer \in Seq(Record) /\ (~up => buffer = <<>>)
  BY DEF Typed, TypeOK, Shape
<1>2. ~up => Log = file
  BY <1>1 DEF Log
<1>3. Log \in Seq(Record) /\ Len(Log) = Len(file) + Len(buffer)
  BY <1>1 DEF Log
<1>4. \A i \in 1..Len(file) : Log[i] = file[i]
  BY <1>1 DEF Log
<1> QED
  BY <1>1, <1>2, <1>3, <1>4 DEF Agree

LEMMA MutateLog ==
  ASSUME Typed, NEW p, NEW e, NEW r, Mutated(p, e, r)
  PROVE  /\ appendonly => Log' = Log \o Written(r) /\ Grown(Log, Log', r)
         /\ \/ /\ ~appendonly /\ UNCHANGED <<buffer, file, synced>>
            \/ /\ appendonly /\ policy = "always"
               /\ buffer' = <<>> /\ file' = Log' /\ synced' = Len(file')
            \/ /\ appendonly /\ policy # "always"
               /\ buffer' = buffer \o Written(r) /\ UNCHANGED <<file, synced>>
         /\ currentDb' = r.db /\ timer' = timer
<1> DEFINE w == Written(r)
<1>1. /\ r = [op |-> r.op, db |-> p[1], key |-> p[2], val |-> r.val, at |-> r.at, cut |-> "whole"]
      /\ r \in Record /\ r.cut = "whole" /\ r.db = p[1]
  BY DEF Mutated
<1>2. AppendEvent(r)
  BY <1>1 DEF Mutated, Mutate
<1>3. /\ currentDb' = r.db /\ timer' = timer
      /\ IF ~appendonly THEN UNCHANGED <<buffer, file, synced>>
         ELSE IF policy = "always" THEN Flush(buffer \o w)
         ELSE buffer' = buffer \o w /\ UNCHANGED <<file, synced>>
  BY <1>2 DEF AppendEvent, Buffered, Written
<1>4. w \in Seq(Record) /\ w # <<>> /\ \A L \in Seq(Record) : Grown(L, L \o w, r)
  BY <1>1, WrittenIs
<1>5. file \in Seq(Record) /\ buffer \in Seq(Record) /\ Log \in Seq(Record)
  BY LogTyped
<1> HIDE DEF w
<1>6. CASE ~appendonly
  BY <1>3, <1>6
<1>7. CASE appendonly /\ policy = "always"
  <2>1. buffer \o w \in Seq(Record) /\ buffer \o w # <<>>
    BY <1>4, <1>5
  <2>2. buffer' = <<>> /\ file' = file \o (buffer \o w) /\ synced' = Len(file')
    BY <1>3, <1>7, <2>1 DEF Flush
  <2>3. file' = Log \o w /\ file' \o <<>> = file'
    BY <1>4, <1>5, <2>2 DEF Log
  <2>4. Log' = file'
    BY <2>2, <2>3 DEF Log
  <2> QED
    BY <1>3, <1>4, <1>5, <1>7, <2>2, <2>3, <2>4 DEF w
<1>8. CASE appendonly /\ policy # "always"
  <2>1. buffer' = buffer \o w /\ UNCHANGED <<file, synced>>
    BY <1>3, <1>8
  <2>2. Log' = Log \o w
    BY <1>4, <1>5, <2>1 DEF Log
  <2> QED
    BY <1>3, <1>4, <1>5, <1>8, <2>1, <2>2 DEF w
<1> QED
  BY <1>6, <1>7, <1>8

LEMMA CommandTyped ==
  ASSUME Recorded, NEW p, NEW e, NEW r, Mutated(p, e, r)
  PROVE  Typed' /\ Mutations' = Mutations + 1 /\ past' = Append(past, mem')
<1> USE DEF Recorded
<1>1. Typed
  OBVIOUS
<1>2. /\ p \in Pair /\ e \in Sound /\ r \in Record /\ r.cut = "whole"
      /\ up /\ Mutations < MaxMutations
      /\ mem' = [mem EXCEPT ![p] = e]
      /\ changed' = ~appendonly
      /\ past' = Append(past, mem')
      /\ promised' = IF appendonly /\ policy = "always" THEN Mutations + 1 ELSE promised
      /\ due' = IF appendonly /\ policy = "everysec" THEN Mutations + 1 ELSE due
      /\ UNCHANGED <<up, config, rdb, now, ended>>
  BY DEF Mutated, Mutate
<1>3. mem' \in Store /\ mem' \in [Pair -> Entry]
  <2>1. mem' \in Store
    BY <1>2, StoreExcept DEF Typed, Shape
  <2> QED
    BY <2>1, StoreEntry
<1>4. past' \in Seq([Pair -> Entry]) /\ past' # <<>> /\ Mutations' = Mutations + 1
  <2> DEFINE T == [Pair -> Entry]
  <2>1. past \in Seq(T) /\ past # <<>> /\ mem' \in T
    BY <1>3 DEF Typed, TypeOK
  <2> HIDE DEF T
  <2>2. Append(past, mem') \in Seq(T) /\ Append(past, mem') # <<>>
        /\ Len(Append(past, mem')) = Len(past) + 1 /\ Len(past) \in Nat
    BY <2>1
  <2> QED
    BY <1>2, <2>2 DEF Mutations, T
<1>5. Mutations \in Nat /\ Mutations + 1 <= MaxMutations
  <2>1. Mutations \in Nat
    BY DEF Typed, TypeOK, Mutations
  <2> QED
    BY <1>2, <2>1, PersistenceAssumption
<1>6. promised' \in 0..Mutations' /\ due' \in 0..Mutations'
  BY <1>2, <1>4, <1>5 DEF Typed, TypeOK
<1>7. /\ buffer' \in Seq(Record) /\ file' \in Seq(Record) /\ synced' \in 0..Len(file')
      /\ Clean(buffer', Len(buffer'))
      /\ \A i \in 1..Len(file') : file'[i].cut \in Cuts \cup {"whole"}
      /\ timer' \in BOOLEAN /\ currentDb' \in Db \cup {NoDb}
      /\ ~appendonly => file' = <<>> /\ buffer' = <<>>
  <2>0. /\ file \in Seq(Record) /\ buffer \in Seq(Record) /\ synced \in 0..Len(file)
        /\ Clean(buffer, Len(buffer)) /\ timer \in BOOLEAN
        /\ \A i \in 1..Len(file) : file[i].cut \in Cuts \cup {"whole"}
        /\ ~appendonly => file = <<>> /\ buffer = <<>>
    BY DEF Typed, TypeOK, Shape
  <2>w. /\ Written(r) \in Seq(Record)
        /\ \A i \in 1..Len(Written(r)) : Written(r)[i].cut = "whole"
    BY <1>2, WrittenIs
  <2>1. timer' \in BOOLEAN /\ currentDb' \in Db \cup {NoDb}
    BY <1>1, <1>2, <2>0, MutateLog DEF Record
  <2>2. CASE ~appendonly
    <3>1. UNCHANGED <<buffer, file, synced>>
      BY <1>1, <2>2, MutateLog
    <3> QED
      BY <2>0, <2>1, <3>1
  <2> DEFINE w == Written(r)
             b == buffer \o w
  <2>3. /\ b \in Seq(Record) /\ Clean(b, Len(b))
    <3> HIDE DEF w
    <3>1. b \in Seq(Record) /\ Len(b) = Len(buffer) + Len(w)
      BY <2>0, <2>w DEF w
    <3>2. \A i \in 1..Len(buffer) : b[i].cut = "whole"
      BY <2>0, <2>w DEF Clean, w
    <3>3. \A i \in 1..Len(b) : i > Len(buffer) => b[i] = w[i - Len(buffer)] /\ i - Len(buffer) \in 1..Len(w)
      BY <2>0, <2>w, <3>1 DEF w
    <3>4. \A i \in 1..Len(b) : i > Len(buffer) => b[i].cut = "whole"
      BY <2>w, <3>3 DEF w
    <3> QED
      BY <2>0, <3>1, <3>2, <3>4 DEF Clean
  <2> HIDE DEF b, w
  <2>4. CASE appendonly /\ policy = "always"
    <3>1. buffer' = <<>> /\ file' = Log' /\ synced' = Len(file') /\ Log' = Log \o w
      BY <1>1, <2>4, MutateLog DEF w
    <3>0. w \in Seq(Record)
      BY <2>w DEF w
    <3>a. (file \o buffer) \o w = file \o (buffer \o w)
      BY <2>0, <3>0
    <3>2. file' = file \o b
      BY <3>1, <3>a DEF b, Log
    <3>3. file' \in Seq(Record) /\ Len(file') = Len(file) + Len(b) /\ Len(file') \in Nat
      BY <2>0, <2>3, <3>2
    <3>4. \A i \in 1..Len(file') : file'[i].cut \in Cuts \cup {"whole"}
      <4> SUFFICES ASSUME NEW i \in 1..Len(file') PROVE file'[i].cut \in Cuts \cup {"whole"}
        OBVIOUS
      <4>1. CASE i \in 1..Len(file)
        BY <2>0, <2>3, <3>2, <4>1
      <4>2. CASE i \notin 1..Len(file)
        <5>1. file'[i] = b[i - Len(file)] /\ i - Len(file) \in 1..Len(b)
          BY <2>0, <2>3, <3>2, <3>3, <4>2
        <5> QED
          BY <2>3, <5>1 DEF Clean
      <4> QED
        BY <4>1, <4>2
    <3>5. Clean(buffer', Len(buffer')) /\ buffer' \in Seq(Record)
      BY <3>1 DEF Clean
    <3> QED
      BY <2>1, <2>4, <3>1, <3>3, <3>4, <3>5
  <2>5. CASE appendonly /\ policy # "always"
    <3>1. buffer' = b /\ UNCHANGED <<file, synced>>
      BY <1>1, <2>5, MutateLog DEF w, b
    <3> QED
      BY <2>0, <2>1, <2>3, <2>5, <3>1
  <2> QED
    BY <2>2, <2>4, <2>5
<1>8. TypeOK'
  BY <1>2, <1>3, <1>4, <1>6, <1>7 DEF Typed, TypeOK, config
<1>9. Shape'
  <2>1. ~appendonly' => rdb.n' <= Mutations' /\ promised' <= rdb.n' /\ due' <= promised'
    <3>1. ~appendonly => rdb.n <= Mutations /\ promised <= rdb.n /\ due <= promised
      BY DEF Typed, Shape
    <3>2. rdb.n \in Nat
      BY DEF Typed, TypeOK
    <3> QED
      BY <1>2, <1>4, <1>5, <3>1, <3>2 DEF config
  <2>2. rdb.mem \in Store /\ rdb' = rdb /\ up' /\ appendonly' = appendonly
    BY <1>2 DEF Typed, Shape, config
  <2> QED
    BY <1>3, <1>4, <1>5, <1>7, <2>1, <2>2 DEF Shape
<1> QED
  BY <1>2, <1>4, <1>8, <1>9 DEF Typed
\* What the other steps do to the log and to the past.
Steady ==
  /\ Log' = Log /\ past' = past /\ appendonly' = appendonly /\ now <= now'
  /\ up' => up /\ mem' = mem
  /\ ended' = "stop" => up \/ ended = "stop"

Loses ==
  /\ ~up' /\ ended' # "stop" /\ past' = past /\ appendonly' = appendonly /\ now' = now
  /\ \E k \in 0..Len(Log) :
       /\ Agree(Log, Log', k)
       /\ \/ Len(Log') = k
          \/ Len(Log') = k + 1 /\ Log'[k + 1].cut # "whole"

Empties ==
  /\ ~up' /\ ended' = "shutdown" /\ Log' = <<>> /\ past' = past
  /\ appendonly' = appendonly /\ now' = now

LEMMA PastTyped ==
  ASSUME Typed
  PROVE  Len(past) \in Nat /\ Mutations \in Nat /\ Mutations <= MaxMutations
BY DEF Typed, TypeOK, Mutations, Shape

LEMMA DownTyped ==
  ASSUME Typed, NEW how \in {"shutdown", "stop", "crash", "power"}, Down(how)
  PROVE  /\ up' = FALSE /\ ended' = how /\ mem' = Empty /\ timer' = FALSE
         /\ currentDb' = NoDb /\ changed' = FALSE /\ due' = 0
         /\ UNCHANGED <<appendonly, policy, now, past>>
         /\ mem' \in Store /\ mem' \in [Pair -> Entry] /\ Mutations' = Mutations
         /\ up' \in BOOLEAN /\ appendonly' \in AppendOnly /\ policy' \in Policies
         /\ timer' \in BOOLEAN /\ currentDb' \in Db \cup {NoDb} /\ changed' \in BOOLEAN
         /\ now' \in 0..MaxTime /\ past' \in Seq([Pair -> Entry]) /\ past' # <<>>
         /\ due' \in 0..Mutations'
         /\ ended' \in {"never", "shutdown", "stop", "crash", "power"}
<1>1. /\ up' = FALSE /\ ended' = how /\ mem' = Empty /\ timer' = FALSE
      /\ currentDb' = NoDb /\ changed' = FALSE /\ due' = 0
      /\ UNCHANGED <<appendonly, policy, now, past>>
  BY DEF Down, config
<1>2. Empty \in Store /\ Empty \in [Pair -> Entry]
  <2>1. Empty \in Store
    BY GoneSound DEF Empty, Store
  <2> QED
    BY <2>1, StoreEntry
<1>3. Mutations' = Mutations /\ Mutations \in Nat
  BY <1>1, PastTyped DEF Mutations
<1>4. /\ appendonly \in AppendOnly /\ policy \in Policies
      /\ now \in 0..MaxTime /\ past \in Seq([Pair -> Entry]) /\ past # <<>>
  BY DEF Typed, TypeOK
<1>5. up' \in BOOLEAN /\ timer' \in BOOLEAN /\ changed' \in BOOLEAN
  BY <1>1
<1>6. mem' \in Store /\ mem' \in [Pair -> Entry]
  BY <1>1, <1>2
<1>7. /\ appendonly' \in AppendOnly /\ policy' \in Policies
      /\ now' \in 0..MaxTime /\ past' \in Seq([Pair -> Entry]) /\ past' # <<>>
  BY <1>1, <1>4
<1>8. currentDb' \in Db \cup {NoDb} /\ ended' \in {"never", "shutdown", "stop", "crash", "power"}
  BY <1>1
<1>9. due' \in 0..Mutations'
  BY <1>1, <1>3
<1> QED
  BY <1>1, <1>3, <1>5, <1>6, <1>7, <1>8, <1>9

LEMMA ConfigSetTyped ==
  ASSUME Typed, ConfigSet
  PROVE  Typed' /\ Steady
<1>1. /\ up /\ policy' \in SwitchTo /\ due' = promised
      /\ UNCHANGED <<up, appendonly, mem, aofVars, rdb, changed, now, past, promised, ended>>
  BY DEF ConfigSet
<1>2. TypeOK'
  BY <1>1, PersistenceAssumption DEF Typed, TypeOK, aofVars, Mutations
<1>3. Shape'
  BY <1>1 DEF Typed, TypeOK, Shape, aofVars, Mutations, Clean
<1>4. Steady
  BY <1>1 DEF Typed, TypeOK, Steady, Log, aofVars
<1> QED
  BY <1>2, <1>3, <1>4 DEF Typed

\* The records of a file that takes over what was buffered.
LEMMA FlushShape ==
  ASSUME Typed, Flush(buffer)
  PROVE  /\ buffer' = <<>> /\ file' = Log /\ Log' = Log /\ file' \in Seq(Record)
         /\ synced' \in 0..Len(file') /\ synced' \in {synced, Len(file')}
         /\ \A i \in 1..Len(file') : file'[i].cut \in Cuts \cup {"whole"}
         /\ Clean(buffer', Len(buffer'))
         /\ ~appendonly => file' = <<>>
<1>1. file \in Seq(Record) /\ buffer \in Seq(Record)
  BY LogTyped
<1>2. /\ buffer' = <<>> /\ file' = file \o buffer /\ file' \in Seq(Record)
      /\ Len(file') = Len(file) + Len(buffer)
      /\ synced' \in 0..Len(file') /\ synced' \in {synced, Len(file')}
  BY <1>1, FlushIs
<1>3. Log' = Log /\ file' = Log
  BY <1>2 DEF Log
<1>4. \A i \in 1..Len(file') : file'[i].cut \in Cuts \cup {"whole"}
  <2> SUFFICES ASSUME NEW i \in 1..Len(file') PROVE file'[i].cut \in Cuts \cup {"whole"}
    OBVIOUS
  <2>1. CASE i \in 1..Len(file)
    BY <1>1, <1>2, <2>1 DEF Typed, Shape
  <2>2. CASE i \notin 1..Len(file)
    <3>1. file'[i] = buffer[i - Len(file)] /\ i - Len(file) \in 1..Len(buffer)
      BY <1>1, <1>2, <2>2
    <3> QED
      BY <3>1 DEF Typed, Shape, Clean
  <2> QED
    BY <2>1, <2>2
<1>5. Clean(buffer', Len(buffer'))
  BY <1>2 DEF Clean
<1>6. ~appendonly => file' = <<>>
  BY <1>2 DEF Typed, Shape
<1> QED
  BY <1>2, <1>3, <1>4, <1>5, <1>6

LEMMA TickTyped ==
  ASSUME Typed, Tick
  PROVE  Typed' /\ Steady
<1>1. /\ now < MaxTime /\ now' = now + 1
      /\ promised' = IF due > promised THEN due ELSE promised
      /\ UNCHANGED <<up, config, mem, timer, currentDb, rdb, changed, past, due, ended>>
  BY DEF Tick
<1>2. now' \in 0..MaxTime /\ now <= now'
  BY <1>1, PersistenceAssumption DEF Typed, TypeOK
<1>3. /\ Log' = Log /\ file' \in Seq(Record) /\ buffer' \in Seq(Record)
      /\ synced' \in 0..Len(file')
      /\ \A i \in 1..Len(file') : file'[i].cut \in Cuts \cup {"whole"}
      /\ Clean(buffer', Len(buffer'))
      /\ ~appendonly => file' = <<>> /\ buffer' = <<>>
      /\ ~up => file' = file /\ buffer' = buffer
  <2>1. CASE up /\ timer
    <3>1. Flush(buffer)
      BY <2>1 DEF Tick
    <3> QED
      BY <2>1, <3>1, FlushShape
  <2>2. CASE ~(up /\ timer)
    <3>1. UNCHANGED <<buffer, file, synced>>
      BY <2>2 DEF Tick
    <3> QED
      BY <3>1 DEF Typed, TypeOK, Shape, Log, Clean
  <2> QED
    BY <2>1, <2>2
<1>4. promised' \in 0..Mutations' /\ due' \in 0..Mutations' /\ (~appendonly => promised' = promised)
  <2>1. promised \in 0..Mutations /\ due \in 0..Mutations /\ (~appendonly => due <= promised)
    BY DEF Typed, TypeOK, Shape
  <2>2. Mutations \in Nat /\ Mutations' = Mutations
    BY <1>1, PastTyped DEF Mutations
  <2> QED
    BY <1>1, <2>1, <2>2
<1>5. TypeOK'
  BY <1>1, <1>2, <1>3, <1>4 DEF Typed, TypeOK, config, Mutations
<1>6. Shape'
  BY <1>1, <1>3, <1>4 DEF Typed, Shape, config, Mutations
<1>7. Steady
  BY <1>1, <1>2, <1>3 DEF Steady, config
<1> QED
  BY <1>5, <1>6, <1>7 DEF Typed

LEMMA AutoSaveTyped ==
  ASSUME Typed, AutoSave
  PROVE  Typed' /\ Steady
<1>1. /\ ~appendonly /\ up /\ rdb' = [mem |-> mem, n |-> Mutations]
      /\ changed' = FALSE /\ promised' = Mutations
      /\ UNCHANGED <<up, config, mem, aofVars, now, past, due, ended>>
  BY DEF AutoSave, CanSave, Snapshot
<1>2. rdb'.mem = mem /\ rdb'.n = Mutations /\ Mutations' = Mutations
  BY <1>1 DEF Mutations
<1>3. Mutations \in Nat /\ Mutations <= MaxMutations /\ MaxMutations \in Nat
  BY PastTyped, PersistenceAssumption
<1>c. changed' \in BOOLEAN
  BY <1>1
<1>d. rdb'.n \in 0..MaxMutations
  BY <1>2, <1>3
<1>e. promised' \in 0..Mutations'
  BY <1>1, <1>2, <1>3
<1>a. changed' \in BOOLEAN /\ rdb'.n \in 0..MaxMutations /\ promised' \in 0..Mutations'
  BY <1>c, <1>d, <1>e
<1>b. rdb'.mem \in [Pair -> Entry] /\ due' \in 0..Mutations'
  BY <1>1, <1>2 DEF Typed, TypeOK
<1>4. TypeOK'
  BY <1>1, <1>a, <1>b DEF Typed, TypeOK, config, aofVars
<1>5. due' <= promised'
  BY <1>1, <1>3 DEF Typed, TypeOK
<1>6. Shape'
  BY <1>1, <1>2, <1>3, <1>5 DEF Typed, Shape, config, aofVars, Clean
<1>7. Steady
  BY <1>1 DEF Typed, TypeOK, Steady, config, aofVars, Log
<1> QED
  BY <1>4, <1>6, <1>7 DEF Typed

LEMMA ShutdownTyped ==
  ASSUME Typed, Shutdown
  PROVE  Typed' /\ Empties
<1>1. /\ up /\ rdb' = [mem |-> mem, n |-> Mutations]
      /\ IF appendonly THEN Truncate ELSE Flush(buffer)
      /\ promised' = Mutations /\ Down("shutdown")
  BY DEF Shutdown, CanSave, Snapshot, CloseFile
<1>2. rdb'.mem = mem /\ rdb'.n = Mutations
  BY <1>1
<1>3. Mutations \in Nat /\ Mutations <= MaxMutations /\ MaxMutations \in Nat
  BY PastTyped, PersistenceAssumption
<1>4. buffer' = <<>> /\ file' = <<>> /\ synced' = 0
  <2>1. CASE appendonly
    BY <1>1, <2>1 DEF Truncate
  <2>2. CASE ~appendonly
    <3>1. Flush(buffer)
      BY <1>1, <2>2
    <3>2. buffer' = <<>> /\ file' = <<>> /\ synced' \in 0..Len(file')
      BY <2>2, <3>1, FlushShape
    <3> QED
      BY <3>2
  <2> QED
    BY <2>1, <2>2
<1>5. buffer' \in Seq(Record) /\ file' \in Seq(Record) /\ synced' \in 0..Len(file')
  BY <1>4
<1>6. /\ rdb'.mem \in [Pair -> Entry] /\ rdb'.mem \in Store
      /\ rdb'.n \in 0..MaxMutations /\ promised' \in 0..Mutations
  BY <1>1, <1>2, <1>3 DEF Typed, TypeOK, Shape
<1>7. TypeOK'
  BY <1>1, <1>5, <1>6, DownTyped DEF TypeOK
<1>8. due' <= promised' /\ promised' <= rdb'.n /\ rdb'.n <= Mutations /\ Mutations' = Mutations
  BY <1>1, <1>2, <1>3, DownTyped
<1>9. Shape'
  BY <1>1, <1>3, <1>4, <1>6, <1>8, DownTyped DEF Shape, Clean
<1>10. Empties
  BY <1>1, <1>4, DownTyped DEF Empties, Log
<1> QED
  BY <1>7, <1>9, <1>10 DEF Typed

\* The parts of the invariant that do not see a process end.
LEMMA EndShape ==
  ASSUME Typed
  PROVE  /\ rdb.mem \in [Pair -> Entry] /\ rdb.mem \in Store /\ rdb.n \in 0..MaxMutations
         /\ promised \in 0..Mutations /\ Mutations <= MaxMutations /\ 0 <= promised
         /\ ~appendonly => rdb.n <= Mutations /\ promised <= rdb.n
BY DEF Typed, TypeOK, Shape

LEMMA StopTyped ==
  ASSUME Typed, Stop
  PROVE  Typed' /\ Steady
<1>1. up /\ Flush(buffer) /\ Down("stop") /\ UNCHANGED <<rdb, promised>>
  BY DEF Stop, CloseFile
<1>2. /\ buffer' = <<>> /\ Log' = Log /\ file' \in Seq(Record) /\ synced' \in 0..Len(file')
      /\ \A i \in 1..Len(file') : file'[i].cut \in Cuts \cup {"whole"}
      /\ Clean(buffer', Len(buffer')) /\ (~appendonly => file' = <<>>)
  BY <1>1, FlushShape
<1>3. buffer' \in Seq(Record)
  BY <1>2
<1>4. TypeOK'
  BY <1>1, <1>2, <1>3, DownTyped, EndShape DEF TypeOK
<1>5. Shape'
  BY <1>1, <1>2, DownTyped, EndShape DEF Shape
<1>6. now <= now'
  <2>1. now' = now
    BY <1>1, DownTyped
  <2>2. now \in Int
    BY DEF Typed, TypeOK
  <2> QED
    BY <2>1, <2>2
<1>7. Steady
  BY <1>1, <1>2, <1>6, DownTyped DEF Steady
<1> QED
  BY <1>4, <1>5, <1>7 DEF Typed

LEMMA CrashTyped ==
  ASSUME Typed, Crash
  PROVE  Typed' /\ Loses
<1>1. up /\ buffer' = <<>> /\ Down("crash") /\ UNCHANGED <<file, synced, rdb, promised>>
  BY DEF Crash
<1>2. /\ buffer' \in Seq(Record) /\ file' \in Seq(Record) /\ synced' \in 0..Len(file')
      /\ \A i \in 1..Len(file') : file'[i].cut \in Cuts \cup {"whole"}
      /\ Clean(buffer', Len(buffer')) /\ (~appendonly => file' = <<>>)
  BY <1>1 DEF Typed, TypeOK, Shape, Clean
<1>3. TypeOK'
  BY <1>1, <1>2, DownTyped, EndShape DEF TypeOK
<1>4. Shape'
  BY <1>1, <1>2, DownTyped, EndShape DEF Shape
<1>5. Loses
  <2>1. Log' = file
    BY <1>1 DEF Log, Typed, TypeOK
  <2>2. Agree(Log, Log', Len(file)) /\ Len(file) \in 0..Len(Log)
    BY <2>1, LogTyped
  <2> QED
    BY <1>1, <2>1, <2>2, DownTyped DEF Loses
<1> QED
  BY <1>3, <1>4, <1>5 DEF Typed
\* What a power loss leaves: a prefix with everything that was synced, and
\* perhaps the next record, cut.
Left(k) ==
  /\ k \in synced..Len(file) /\ k \in Nat /\ file' \in Seq(Record) /\ Agree(file, file', k)
  /\ \/ Len(file') = k
     \/ Len(file') = k + 1 /\ file'[k + 1].cut \in Cuts

LEMMA PowerLossLeaves ==
  ASSUME Typed, PowerLoss
  PROVE  \E k : Left(k)
<1>0. file \in Seq(Record) /\ synced \in 0..Len(file)
  BY DEF Typed, TypeOK
<1>1. PICK k \in synced..Len(file) :
        LET kept == SubSeq(file, 1, k)
            torn == IF k = Len(file) THEN {}
                    ELSE {<<[file[k + 1] EXCEPT !.cut = c]>> : c \in Cuts}
        IN  \E tail \in torn \cup {<<>>} : file' = kept \o tail
  BY DEF PowerLoss
<1> DEFINE kept == SubSeq(file, 1, k)
<1>2. k \in Nat /\ k <= Len(file) /\ kept \in Seq(Record) /\ Len(kept) = k /\ Agree(file, kept, k)
  BY <1>0 DEF Agree
<1> HIDE DEF kept
<1>3. CASE file' = kept \o <<>>
  <2>1. file' = kept
    BY <1>2, <1>3
  <2> QED
    BY <1>2, <2>1 DEF Left
<1>4. ASSUME k # Len(file), NEW c \in Cuts, file' = kept \o <<[file[k + 1] EXCEPT !.cut = c]>>
      PROVE  Left(k)
  <2> DEFINE r == [file[k + 1] EXCEPT !.cut = c]
  <2>1. file[k + 1] \in Record
    BY <1>0, <1>2, <1>4
  <2>2. r \in Record /\ r.cut = c
    BY <2>1, PersistenceAssumption DEF Record
  <2> HIDE DEF r
  <2>3. file' = kept \o <<r>>
    BY <1>4 DEF r
  <2>4. /\ file' \in Seq(Record) /\ Len(file') = k + 1 /\ file'[k + 1] = r
        /\ \A i \in 1..k : file'[i] = kept[i]
    BY <1>2, <2>2, <2>3
  <2>5. Agree(file, file', k)
    BY <1>2, <2>4 DEF Agree
  <2> QED
    BY <1>2, <2>2, <2>4, <2>5 DEF Left
<1>5. \/ file' = kept \o <<>>
      \/ /\ k # Len(file)
         /\ \E c \in Cuts : file' = kept \o <<[file[k + 1] EXCEPT !.cut = c]>>
  BY <1>1 DEF kept
<1> QED
  BY <1>3, <1>4, <1>5

LEMMA PowerLossTyped ==
  ASSUME Typed, PowerLoss
  PROVE  Typed' /\ Loses
<1>1. synced' = Len(file') /\ buffer' = <<>> /\ Down("power") /\ UNCHANGED <<rdb, promised>>
  BY DEF PowerLoss
<1>2. PICK k : Left(k)
  BY PowerLossLeaves
<1>3. /\ file \in Seq(Record) /\ \A i \in 1..Len(file) : file[i].cut \in Cuts \cup {"whole"}
      /\ synced \in 0..Len(file)
      /\ ~appendonly => file = <<>>
  BY DEF Typed, TypeOK, Shape
<1>4. /\ k \in 0..Len(file) /\ k \in Nat /\ file' \in Seq(Record)
      /\ \A i \in 1..k : file'[i] = file[i]
      /\ \/ Len(file') = k
         \/ Len(file') = k + 1 /\ file'[k + 1].cut \in Cuts
  BY <1>2, <1>3 DEF Left, Agree
<1>5. \A i \in 1..Len(file') : file'[i].cut \in Cuts \cup {"whole"}
  <2> SUFFICES ASSUME NEW i \in 1..Len(file') PROVE file'[i].cut \in Cuts \cup {"whole"}
    OBVIOUS
  <2>1. CASE i \in 1..k
    BY <1>3, <1>4, <2>1
  <2>2. CASE i \notin 1..k
    <3>1. i = k + 1 /\ Len(file') = k + 1
      BY <1>4, <2>2
    <3> QED
      BY <1>4, <3>1
  <2> QED
    BY <2>1, <2>2
<1>6. ~appendonly => file' = <<>>
  <2> SUFFICES ASSUME ~appendonly PROVE file' = <<>>
    OBVIOUS
  <2>1. file = <<>> /\ Len(file) = 0
    BY <1>3
  <2>2. k = 0
    BY <1>4, <2>1
  <2>3. \E j \in synced..Len(file) : file' = SubSeq(file, 1, j) \o <<>> \/ j # Len(file)
    BY DEF PowerLoss
  <2>4. synced = 0
    BY <1>3, <2>1
  <2>5. file' = SubSeq(file, 1, 0) \o <<>>
    BY <2>1, <2>3, <2>4
  <2> QED
    BY <2>1, <2>5
<1>7. /\ buffer' \in Seq(Record) /\ synced' \in 0..Len(file') /\ Clean(buffer', Len(buffer'))
  BY <1>1, <1>4 DEF Clean
<1>8. TypeOK'
  BY <1>1, <1>4, <1>7, DownTyped, EndShape DEF TypeOK
<1>9. ~(up' = FALSE /\ appendonly' /\ ended' = "shutdown")
  BY <1>1, DownTyped
<1>10. Shape'
  BY <1>1, <1>5, <1>6, <1>7, <1>9, DownTyped, EndShape DEF Shape
<1>11. Loses
  <2>1. Log' = file'
    BY <1>1, <1>4 DEF Log
  <2>2. k \in 0..Len(Log) /\ Agree(Log, Log', k)
    <3>1. Agree(Log, file, Len(file)) /\ Len(Log) >= Len(file)
      BY LogTyped
    <3> QED
      BY <1>3, <1>4, <2>1, <3>1 DEF Agree
  <2>3. Len(Log') = k \/ (Len(Log') = k + 1 /\ Log'[k + 1].cut # "whole")
    BY <1>4, <2>1, PersistenceAssumption
  <2> QED
    BY <1>1, <2>2, <2>3, DownTyped DEF Loses
<1> QED
  BY <1>8, <1>10, <1>11 DEF Typed

\* A start takes over what the log, or the snapshot, holds.
Takes ==
  /\ ~up /\ up' /\ Log = file /\ Log' = Log /\ ended' = ended
  /\ Found \in Nat /\ Found <= Mutations /\ Mutations' = Found
  /\ \A i \in 1..Found + 1 : past'[i] = past[i]
  /\ appendonly => Found = Got(Log, Len(Log)) /\ mem' = After(now, Log, Len(Log)).mem
  /\ ~appendonly => /\ Found = rdb.n
                    /\ \A q \in Pair : mem'[q].val = rdb.mem[q].val
  /\ appendonly' = appendonly /\ now' = now

LEMMA StartTyped ==
  ASSUME Recorded, Start
  PROVE  Typed' /\ Takes
<1>1. /\ ~up /\ up' = TRUE /\ policy' \in BootPolicy
      /\ mem' = IF appendonly THEN Replay.mem ELSE [p \in Pair |-> Restored(rdb.mem[p])]
      /\ timer' = (appendonly /\ policy' = "everysec")
      /\ past' = SubSeq(past, 1, Found + 1)
      /\ promised' = IF promised > Found THEN Found ELSE promised
      /\ UNCHANGED <<appendonly, buffer, file, synced, currentDb, rdb, changed, now, due, ended>>
  BY DEF Start
<1>2. Typed
  BY DEF Recorded
<1>3. Log = file /\ Log' = Log /\ file \in Seq(Record) /\ Log \in Seq(Record)
  BY <1>1, <1>2, LogTyped DEF Log
<1>4. Replay = After(now, Log, Len(Log))
  BY <1>3, ReplayIs
<1>5. appendonly => Found = Got(Log, Len(Log)) /\ Found <= Mutations
  <2>1. Len(Log) \in 0..Len(Log)
    BY <1>3
  <2>2. After(now, Log, Len(Log)).n = Got(Log, Len(Log))
    BY <1>3, <2>1, GotIs
  <2> QED
    BY <1>4, <2>2 DEF Found, Recorded, Counted
<1>6. ~appendonly => Found = rdb.n /\ rdb.n <= Mutations
  BY <1>2 DEF Found, Typed, Shape
<1>7. Found \in Nat /\ Found <= Mutations
  <2>1. Len(Log) \in 0..Len(Log)
    BY <1>3
  <2>2. Got(Log, Len(Log)) \in Nat
    BY <1>3, <2>1, GotIs
  <2>3. rdb.n \in Nat
    BY <1>2 DEF Typed, TypeOK
  <2> QED
    BY <1>5, <1>6, <2>2, <2>3
<1>8. Mutations \in Nat /\ Len(past) = Mutations + 1
  BY <1>2, PastTyped DEF Mutations
<1>9. /\ past' \in Seq([Pair -> Entry]) /\ past' # <<>> /\ Len(past') = Found + 1
      /\ \A i \in 1..Found + 1 : past'[i] = past[i]
  <2> DEFINE T == [Pair -> Entry]
             d == Found + 1
  <2>1. past \in Seq(T) /\ d \in 1..Len(past) /\ d \in Nat /\ d # 0
    BY <1>2, <1>7, <1>8 DEF Typed, TypeOK
  <2>2. past' = SubSeq(past, 1, d)
    BY <1>1
  <2> HIDE DEF T, d
  <2>3. /\ SubSeq(past, 1, d) \in Seq(T) /\ Len(SubSeq(past, 1, d)) = d
        /\ \A i \in 1..d : SubSeq(past, 1, d)[i] = past[i]
    BY <2>1
  <2>4. past' # <<>>
    BY <2>1, <2>2, <2>3
  <2> QED
    BY <2>2, <2>3, <2>4 DEF T, d
<1>10. Mutations' = Found
  BY <1>7, <1>9 DEF Mutations
<1>11. mem' \in Store
  <2>1. CASE appendonly
    <3>1. Len(Log) \in 0..Len(Log)
      BY <1>3
    <3>2. Replay \in Reading
      BY <1>3, <1>4, <3>1, AfterTyped
    <3> QED
      BY <1>1, <2>1, <3>2, ReadingIs
  <2>2. CASE ~appendonly
    <3>1. \A p \in Pair : Restored(rdb.mem[p]) \in Sound
      <4> SUFFICES ASSUME NEW p \in Pair PROVE Restored(rdb.mem[p]) \in Sound
        OBVIOUS
      <4>1. rdb.mem[p] \in Sound
        BY <1>2 DEF Typed, Shape, Store
      <4>2. 0 \in 0..MaxTime + 1
        BY PersistenceAssumption
      <4> QED
        BY <4>1, <4>2 DEF Restored, Sound, Entry, Gone, NoTtl
    <3> QED
      BY <1>1, <2>2, <3>1 DEF Store
  <2> QED
    BY <2>1, <2>2
<1>12. promised' \in 0..Mutations' /\ due' \in 0..Mutations' /\ due' = 0
       /\ promised' <= promised
  <2>1. promised \in 0..Mutations /\ due = 0
    BY <1>1, <1>2 DEF Typed, TypeOK, Shape
  <2> QED
    BY <1>1, <1>7, <1>8, <1>10, <2>1
<1>13. TypeOK'
  <2>1. mem' \in [Pair -> Entry]
    BY <1>11, StoreEntry
  <2>2. policy' \in Policies /\ up' \in BOOLEAN
    BY <1>1, PersistenceAssumption
  <2>3. timer' \in BOOLEAN
    BY <1>1
  <2> QED
    BY <1>1, <1>2, <1>9, <1>12, <2>1, <2>2, <2>3 DEF Typed, TypeOK
<1>14. Mutations' <= MaxMutations
  <2>1. Mutations <= MaxMutations /\ MaxMutations \in Nat
    BY <1>2, PastTyped, PersistenceAssumption
  <2> QED
    BY <1>7, <1>8, <1>10, <2>1
<1>15. ~appendonly => rdb'.n <= Mutations' /\ promised' <= rdb'.n /\ due' <= promised'
  <2>1. rdb.n \in Nat /\ (~appendonly => promised <= rdb.n) /\ promised \in Nat
    <3>1. promised \in 0..Mutations /\ rdb.n \in 0..MaxMutations
      BY <1>2 DEF Typed, TypeOK
    <3> QED
      BY <1>2, <1>8, <3>1, PersistenceAssumption DEF Typed, Shape
  <2>2. promised' \in Nat
    BY <1>7, <1>10, <1>12
  <2> QED
    BY <1>1, <1>6, <1>10, <1>12, <2>1, <2>2
<1>16. Shape'
  BY <1>1, <1>2, <1>11, <1>12, <1>14, <1>15 DEF Typed, Shape, Clean
<1>17. ASSUME ~appendonly, NEW q \in Pair PROVE mem'[q].val = rdb.mem[q].val
  <2>1. mem'[q] = Restored(rdb.mem[q]) /\ rdb.mem[q] \in Sound
    BY <1>1, <1>2, <1>17 DEF Typed, Shape, Store
  <2> QED
    BY <2>1 DEF Restored, Sound, Entry
<1>18. Takes
  BY <1>1, <1>3, <1>4, <1>5, <1>6, <1>7, <1>9, <1>10, <1>17 DEF Takes
<1> QED
  BY <1>13, <1>16, <1>18 DEF Typed
\* Every step, by what it does to the log.
LEMMA Steps ==
  ASSUME Recorded, [Next]_vars
  PROVE  /\ Typed'
         /\ \/ /\ \E p, e, r : Mutated(p, e, r)
               /\ Mutations' = Mutations + 1 /\ past' = Append(past, mem')
            \/ Steady
            \/ Loses
            \/ Empties
            \/ Takes
<1>0. Typed
  BY DEF Recorded
<1>1. CASE Start
  BY <1>1, StartTyped
<1>2. CASE Command
  <2>1. \E p, e, r : Mutated(p, e, r)
    BY <1>0, <1>2, CommandIs
  <2> QED
    BY <2>1, CommandTyped
<1>3. CASE ConfigSet
  BY <1>0, <1>3, ConfigSetTyped
<1>4. CASE Tick
  BY <1>0, <1>4, TickTyped
<1>5. CASE AutoSave
  BY <1>0, <1>5, AutoSaveTyped
<1>6. CASE Shutdown
  BY <1>0, <1>6, ShutdownTyped
<1>7. CASE Stop
  BY <1>0, <1>7, StopTyped
<1>8. CASE Crash
  BY <1>0, <1>8, CrashTyped
<1>9. CASE PowerLoss
  BY <1>0, <1>9, PowerLossTyped
<1>10. CASE UNCHANGED vars
  <2>1. Typed'
    BY <1>0, <1>10 DEF Typed, TypeOK, Shape, vars, config, aofVars, history, Mutations, Clean
  <2>2. now <= now'
    BY <1>0, <1>10 DEF Typed, TypeOK, vars
  <2>3. Steady
    BY <1>10, <2>2 DEF Steady, Log, vars, config, aofVars, history
  <2> QED
    BY <2>1, <2>3
<1> QED
  BY <1>1, <1>2, <1>3, <1>4, <1>5, <1>6, <1>7, <1>8, <1>9, <1>10 DEF Next

\* No cut record before the last one, read at its end.
LEMMA LastIs ==
  ASSUME NEW L \in Seq(Record), Clean(L, Len(L) - 1), ~Clean(L, Len(L))
  PROVE  Len(L) # 0 /\ L[Len(L)].cut # "whole"
<1>1. Len(L) \in Nat
  OBVIOUS
<1>2. PICK i \in 1..Len(L) : L[i].cut # "whole"
  BY DEF Clean
<1>3. i = Len(L)
  BY <1>1, <1>2 DEF Clean
<1> QED
  BY <1>1, <1>2, <1>3

LEMMA RecordedMutates ==
  ASSUME Recorded, Typed', NEW p, NEW e, NEW r, Mutated(p, e, r),
         Mutations' = Mutations + 1
  PROVE  Recorded'
<1>1. CASE ~appendonly
  <2>1. ~appendonly'
    BY <1>1 DEF Mutated, Mutate, config
  <2> QED
    BY <2>1 DEF Recorded, Counted, Complete
<1>2. CASE appendonly
  <2>1. Typed /\ Log \in Seq(Record) /\ Log' \in Seq(Record) /\ Grown(Log, Log', r)
    <3>1. Typed
      BY DEF Recorded
    <3> QED
      BY <1>2, <3>1, MutateLog, LogTyped DEF Grown
  <2>2. /\ Mutations \in Nat /\ Len(Log) \in Nat /\ Got(Log, Len(Log)) \in Nat
        /\ Got(Log', Len(Log')) \in Nat
    <3>1. Len(Log) \in 0..Len(Log) /\ Len(Log') \in 0..Len(Log')
      BY <2>1
    <3> QED
      BY <2>1, <3>1, PastTyped, GotIs
  <2>3. Counted'
    <3>1. Got(Log, Len(Log)) <= Mutations /\ Got(Log', Len(Log')) <= Got(Log, Len(Log)) + 1
      BY <1>2, <2>1 DEF Recorded, Counted, Grown
    <3> QED
      BY <2>2, <3>1 DEF Counted
  <2>4. ASSUME Clean(Log', Len(Log') - 1) PROVE Got(Log', Len(Log')) = Mutations + 1
    <3>1. Clean(Log, Len(Log))
      BY <2>1, <2>2, <2>4 DEF Grown, Clean, Agree
    <3>2. Clean(Log, Len(Log) - 1)
      BY <2>2, <3>1 DEF Clean
    <3>3. up
      BY DEF Mutated, Mutate
    <3>4. Got(Log, Len(Log)) = Mutations
      BY <1>2, <3>2, <3>3 DEF Recorded, Complete
    <3>5. After(0, Log', Len(Log')) = ReadAt(After(0, Log, Len(Log)), r, 0)
      BY <2>1, <3>1 DEF Grown
    <3>6. /\ After(0, Log, Len(Log)) \in Reading
          /\ After(0, Log, Len(Log)).cut = <<>> /\ ~After(0, Log, Len(Log)).lost
      <4>1. Len(Log) \in 0..Len(Log)
        BY <2>2
      <4> QED
        BY <2>1, <3>1, <4>1, AfterTyped, AfterClean
    <3>7. r \in Record /\ r.cut = "whole" /\ r.op # "SELECT"
      BY DEF Mutated
    <3>8. After(0, Log', Len(Log')).n = After(0, Log, Len(Log)).n + 1
      <4> DEFINE s == After(0, Log, Len(Log))
      <4>1. s \in Reading /\ s.cut = <<>> /\ ~s.lost
        BY <3>6
      <4> HIDE DEF s
      <4>2. ReadAt(s, r, 0).n = s.n + 1
        BY <3>7, <4>1, ReadClean
      <4> QED
        BY <3>5, <4>2 DEF s
    <3> QED
      BY <3>4, <3>8 DEF Got
  <2>5. Complete'
    BY <2>4 DEF Complete
  <2> QED
    BY <2>3, <2>5 DEF Recorded
<1> QED
  BY <1>1, <1>2

LEMMA RecordedStep ==
  ASSUME Recorded, [Next]_vars
  PROVE  Recorded'
<1>1. Typed'
  BY Steps
<1>2. Typed /\ Counted /\ Complete
  BY DEF Recorded
<1>3. Log \in Seq(Record) /\ Len(Log) \in Nat /\ Mutations \in Nat
  BY <1>2, LogTyped, PastTyped
<1>4. ASSUME NEW p, NEW e, NEW r, Mutated(p, e, r), Mutations' = Mutations + 1
      PROVE  Recorded'
  BY <1>1, <1>4, RecordedMutates
<1>5. CASE Steady
  <2>1. Mutations' = Mutations
    BY <1>5 DEF Steady, Mutations
  <2> QED
    BY <1>1, <1>2, <1>5, <2>1 DEF Recorded, Counted, Complete, Steady
<1>6. CASE Loses
  <2>1. Complete'
    BY <1>6 DEF Complete, Loses
  <2>2. Counted'
    <3> SUFFICES ASSUME appendonly' PROVE Got(Log', Len(Log')) <= Mutations'
      BY DEF Counted
    <3>1. appendonly /\ Mutations' = Mutations
      BY <1>6 DEF Loses, Mutations
    <3>2. PICK k \in 0..Len(Log) : /\ Agree(Log, Log', k)
                                   /\ \/ Len(Log') = k
                                      \/ Len(Log') = k + 1 /\ Log'[k + 1].cut # "whole"
      BY <1>6 DEF Loses
    <3>3. Log' \in Seq(Record) /\ k \in 0..Len(Log') /\ k \in Nat
      <4>1. Log' \in Seq(Record)
        BY <1>1 DEF Typed, TypeOK, Log
      <4> QED
        BY <1>3, <3>2, <4>1
    <3>4. Got(Log', k) = Got(Log, k)
      BY <3>2, <3>3, GotSame
    <3>5. Got(Log, k) <= Got(Log, Len(Log))
      BY <1>3, <3>2, <3>3, GotMonotone
    <3>6. Got(Log, Len(Log)) <= Mutations
      BY <1>2, <3>1 DEF Counted
    <3>7. Got(Log', Len(Log')) = Got(Log', k)
      <4>1. CASE Len(Log') = k
        BY <4>1
      <4>2. CASE Len(Log') = k + 1 /\ Log'[k + 1].cut # "whole"
        <5>1. After(0, Log', k + 1) = ReadAt(After(0, Log', k), Log'[k + 1], 0)
          BY <3>3, AfterNext
        <5>2. After(0, Log', k) \in Reading /\ Log'[k + 1] \in Record
          BY <3>3, <4>2, AfterTyped
        <5>3. ReadAt(After(0, Log', k), Log'[k + 1], 0).n = After(0, Log', k).n
          BY <4>2, <5>2, ReadCutCounts
        <5> QED
          BY <4>2, <5>1, <5>3 DEF Got
      <4> QED
        BY <3>2, <4>1, <4>2
    <3>8. Got(Log', k) \in Nat /\ Got(Log, k) \in Nat /\ Got(Log, Len(Log)) \in Nat
      <4>1. Len(Log) \in 0..Len(Log)
        BY <1>3
      <4> QED
        BY <1>3, <3>2, <3>3, <4>1, GotIs
    <3> QED
      BY <1>3, <3>1, <3>4, <3>5, <3>6, <3>7, <3>8
  <2> QED
    BY <1>1, <2>1, <2>2 DEF Recorded
<1>7. CASE Empties
  <2>1. Complete'
    BY <1>7 DEF Complete, Empties
  <2>2. Len(Log') = 0 /\ Got(Log', 0) = 0 /\ Mutations' = Mutations
    BY <1>7, AfterNone DEF Empties, Got, Reader, Mutations
  <2>3. Counted'
    BY <1>3, <2>2 DEF Counted
  <2> QED
    BY <1>1, <2>1, <2>3 DEF Recorded
<1>8. CASE Takes
  <2>1. appendonly' => Got(Log', Len(Log')) = Mutations' /\ Mutations' \in Nat
    BY <1>8 DEF Takes
  <2> QED
    BY <1>1, <2>1 DEF Recorded, Counted, Complete
<1> QED
  BY <1>4, <1>5, <1>6, <1>7, <1>8, Steps
LEMMA InitRecorded == Init => Recorded
<1> SUFFICES ASSUME Init PROVE Recorded
  OBVIOUS
<1>1. Empty \in Store /\ Empty \in [Pair -> Entry]
  <2>1. Empty \in Store
    BY GoneSound DEF Empty, Store
  <2> QED
    BY <2>1, StoreEntry
<1>2. /\ past = <<Empty>> /\ Len(past) = 1 /\ Mutations = 0 /\ rdb.mem = Empty /\ rdb.n = 0
      /\ buffer = <<>> /\ file = <<>> /\ mem = Empty /\ due = 0 /\ promised = 0 /\ synced = 0
      /\ up = FALSE /\ ended = "never"
  BY DEF Init, Mutations
<1>3. past \in Seq([Pair -> Entry]) /\ past # <<>>
  BY <1>1, <1>2
<1>4. MaxMutations \in Nat /\ MaxTime \in Nat /\ BootPolicy \subseteq Policies
  BY PersistenceAssumption
<1>5. up \in BOOLEAN /\ timer \in BOOLEAN /\ changed \in BOOLEAN /\ now \in 0..MaxTime
  <2>1. up = FALSE /\ timer = FALSE /\ changed = FALSE
    BY DEF Init
  <2>2. now \in 0..MaxTime
    BY <1>4 DEF Init
  <2> QED
    BY <2>1, <2>2
<1>6. TypeOK
  BY <1>1, <1>2, <1>3, <1>4, <1>5 DEF Init, TypeOK
<1>7. Shape
  BY <1>1, <1>2, <1>4 DEF Shape, Clean
<1>8. Log = <<>> /\ Len(Log) = 0
  BY <1>2 DEF Log
<1>9. Got(Log, 0) = 0
  BY AfterNone DEF Got, Reader
<1> QED
  BY <1>2, <1>6, <1>7, <1>8, <1>9 DEF Recorded, Typed, Counted, Complete

\* Whatever the process and the machine go through, the log holds no more than
\* was acknowledged, and all of it as long as the process runs and after a stop,
\* unless a cut record hides some (appendEvent, _flush, truncate, close).
THEOREM AlwaysRecorded == Spec => []Recorded
<1>1. Recorded /\ [Next]_vars => Recorded'
  BY RecordedStep
<1> QED
  BY <1>1, InitRecorded, PTL DEF Spec

\* Every variable keeps its type through any sequence of commands, crashes,
\* power losses and starts (aof.js, rdb.js, server.js): the history a start
\* goes back to exists, and no promise reaches beyond it.
THEOREM PersistenceTypes == Spec => []TypeOK
<1>1. Recorded => TypeOK
  BY DEF Recorded, Typed
<1> QED
  BY <1>1, AlwaysRecorded, PTL

\* Nothing is cut before the last record of the log.
LEMMA Unburied ==
  ASSUME Typed, ~up, ~Buried(Cuts)
  PROVE  Clean(file, Len(file) - 1)
BY DEF Typed, Shape, Buried, Clean

\* A stopped server finds every mutation it acknowledged again, whatever
\* appendfsync policies it went through: stop closes the log, close flushes it,
\* and the replay counts each record once.
THEOREM StopLosesNothing == Spec => StopKeepsAll
<1>1. ASSUME Recorded, Start, appendonly, ended = "stop", ~Buried(Cuts)
      PROVE  Found = Mutations
  <2>1. Typed /\ ~up
    BY <1>1 DEF Recorded, Start
  <2>2. Takes
    BY <1>1, StartTyped
  <2>3. Clean(Log, Len(Log) - 1)
    BY <1>1, <2>1, <2>2, Unburied DEF Takes
  <2> QED
    BY <1>1, <2>2, <2>3 DEF Recorded, Complete, Takes
<1>2. Recorded => [Start /\ appendonly /\ ended = "stop" /\ ~Buried(Cuts) => Found = Mutations]_vars
  BY <1>1
<1> QED
  BY <1>2, AlwaysRecorded, PTL DEF StopKeepsAll

-----------------------------------------------------------------------------
(* What the configuration promises to keep.                                *)

\* The timer of _startSync runs wherever its policy is in force.
Timed == policy = "everysec" /\ up /\ appendonly => timer

\* What is to be kept a second from now is still in the buffer.
Owed == due > promised => up /\ appendonly /\ policy = "everysec" /\ buffer # <<>>

\* What was promised is on the disk, unless the log was emptied for a snapshot.
Kept ==
  appendonly /\ (up \/ ended # "shutdown") /\ Clean(file, synced - 1) =>
    promised <= Got(file, synced)

Promises == Timed /\ Owed /\ Kept

LEMMA SyncedIs ==
  ASSUME Typed
  PROVE  /\ synced \in Nat /\ synced \in 0..Len(file) /\ Len(file) \in Nat /\ file \in Seq(Record)
         /\ promised \in Nat /\ promised <= Mutations /\ due \in Nat /\ due <= Mutations
         /\ \A k \in 0..Len(file) : Got(file, k) \in Nat
         /\ \A j, k \in 0..Len(file) : j <= k => Got(file, j) <= Got(file, k)
<1>1. /\ synced \in Nat /\ synced \in 0..Len(file) /\ Len(file) \in Nat /\ file \in Seq(Record)
  BY DEF Typed, TypeOK
<1>2. promised \in Nat /\ promised <= Mutations /\ due \in Nat /\ due <= Mutations
  <2>1. promised \in 0..Mutations /\ due \in 0..Mutations
    BY DEF Typed, TypeOK
  <2> QED
    BY <2>1, PastTyped
<1>3. \A k \in 0..Len(file) : Got(file, k) \in Nat
  BY <1>1, GotIs
<1>4. \A j, k \in 0..Len(file) : j <= k => Got(file, j) <= Got(file, k)
  <2> SUFFICES ASSUME NEW j \in 0..Len(file), NEW k \in 0..Len(file), j <= k
               PROVE  Got(file, j) <= Got(file, k)
    OBVIOUS
  <2>1. j \in Nat /\ k \in Nat /\ k <= Len(file)
    BY <1>1
  <2> QED
    BY <1>1, <2>1, GotMonotone
<1> QED
  BY <1>1, <1>2, <1>3, <1>4

\* The file that takes over what was buffered keeps what it had on the disk.
LEMMA FlushKeeps ==
  ASSUME Recorded, Kept, Flush(buffer), appendonly, up, Clean(file', synced' - 1)
  PROVE  /\ promised <= Got(file', synced')
         /\ synced' = Len(file') => Got(file', synced') = Mutations
<1>1. Typed /\ Log \in Seq(Record) /\ Agree(Log, file, Len(file)) /\ Len(Log) >= Len(file)
  <2>1. Typed
    BY DEF Recorded
  <2> QED
    BY <2>1, LogTyped, SyncedIs
<1>2. file' = Log /\ synced' \in {synced, Len(file')}
  BY <1>1, FlushShape
<1>3. CASE synced' = Len(file')
  <2>1. Clean(Log, Len(Log) - 1)
    BY <1>2, <1>3
  <2>2. Got(Log, Len(Log)) = Mutations
    BY <2>1 DEF Recorded, Complete
  <2> QED
    BY <1>1, <1>2, <1>3, <2>2, SyncedIs
<1>4. CASE synced' = synced /\ synced' # Len(file')
  <2>1. synced \in Nat /\ synced <= Len(file) /\ Len(file) \in Nat
    BY <1>1, SyncedIs
  <2>2. Agree(Log, file, synced)
    BY <1>1, <2>1 DEF Agree
  <2>3. Got(Log, synced) = Got(file, synced)
    BY <2>1, <2>2, GotSame
  <2>4. Clean(file, synced - 1)
    BY <1>2, <1>4, <2>1, <2>2 DEF Clean, Agree
  <2> QED
    BY <1>2, <1>4, <2>3, <2>4 DEF Kept
<1> QED
  BY <1>2, <1>3, <1>4

LEMMA MutatePromises ==
  ASSUME Recorded, Promises, Recorded', NEW p, NEW e, NEW r, Mutated(p, e, r),
         Mutations' = Mutations + 1
  PROVE  Promises'
<1>0. Typed /\ Typed'
  BY DEF Recorded
<1>1. /\ up /\ UNCHANGED <<up, appendonly, policy, ended>>
      /\ promised' = IF appendonly /\ policy = "always" THEN Mutations + 1 ELSE promised
      /\ due' = IF appendonly /\ policy = "everysec" THEN Mutations + 1 ELSE due
  BY DEF Mutated, Mutate, config
<1>2. timer' = timer
  BY <1>0, MutateLog
<1>3. Timed'
  BY <1>1, <1>2 DEF Promises, Timed
<1>4. promised \in Nat /\ promised <= Mutations /\ due \in Nat /\ due <= Mutations /\ Mutations \in Nat
  BY <1>0, SyncedIs, PastTyped
<1>5. CASE ~appendonly
  <2>1. due' <= promised'
    BY <1>1, <1>4, <1>5 DEF Promises, Owed
  <2> QED
    BY <1>1, <1>3, <1>4, <1>5, <2>1 DEF Promises, Owed, Kept
<1>6. CASE appendonly /\ policy = "always"
  <2>1. buffer' = <<>> /\ file' = Log' /\ synced' = Len(file')
    BY <1>0, <1>6, MutateLog
  <2>2. Owed'
    <3>1. due' <= promised'
      BY <1>1, <1>4, <1>6
    <3> QED
      BY <1>1, <1>4, <1>6, <3>1 DEF Owed
  <2>3. Kept'
    <3> SUFFICES ASSUME Clean(file', synced' - 1) PROVE promised' <= Got(file', synced')
      BY DEF Kept
    <3>1. Got(Log', Len(Log')) = Mutations'
      BY <1>1, <1>6, <2>1 DEF Recorded, Complete
    <3> QED
      BY <1>1, <1>4, <1>6, <2>1, <3>1
  <2> QED
    BY <1>3, <2>2, <2>3 DEF Promises
<1>7. CASE appendonly /\ policy # "always"
  <2>1. buffer' = buffer \o Written(r) /\ file' = file /\ synced' = synced
    BY <1>0, <1>7, MutateLog
  <2>2. buffer' # <<>>
    <3>1. Written(r) \in Seq(Record) /\ Written(r) # <<>> /\ buffer \in Seq(Record)
      BY <1>0, WrittenIs, LogTyped DEF Mutated
    <3> QED
      BY <2>1, <3>1
  <2>3. Owed'
    BY <1>1, <1>4, <1>7, <2>2 DEF Promises, Owed
  <2>4. Kept'
    BY <1>1, <1>7, <2>1 DEF Promises, Kept
  <2> QED
    BY <1>3, <2>3, <2>4 DEF Promises
<1> QED
  BY <1>5, <1>6, <1>7

LEMMA TickPromises ==
  ASSUME Recorded, Promises, Tick
  PROVE  Promises'
<1>0. Typed
  BY DEF Recorded
<1>1. /\ promised' = IF due > promised THEN due ELSE promised
      /\ UNCHANGED <<up, appendonly, policy, timer, due, ended>>
      /\ IF up /\ timer THEN Flush(buffer) ELSE UNCHANGED <<buffer, file, synced>>
  BY DEF Tick, config
<1>2. promised \in Nat /\ promised <= Mutations /\ due \in Nat /\ due <= Mutations /\ Mutations \in Nat
  BY <1>0, SyncedIs, PastTyped
<1>3. Timed'
  BY <1>1 DEF Promises, Timed
<1>4. due' <= promised'
  BY <1>1, <1>2
<1>5. Owed'
  BY <1>1, <1>2, <1>4 DEF Owed
<1>6. Kept'
  <2> SUFFICES ASSUME appendonly, up \/ ended # "shutdown", Clean(file', synced' - 1)
               PROVE  promised' <= Got(file', synced')
    BY <1>1 DEF Kept
  <2>1. CASE up /\ timer
    <3>0. Flush(buffer)
      BY <1>1, <2>1
    <3>1. /\ promised <= Got(file', synced')
          /\ synced' = Len(file') => Got(file', synced') = Mutations
      BY <2>1, <3>0, FlushKeeps DEF Promises
    <3>2. CASE due > promised
      <4>1. policy = "everysec" /\ buffer # <<>>
        BY <3>2 DEF Promises, Owed
      <4>2. synced' = Len(file')
        BY <3>0, <4>1 DEF Flush
      <4> QED
        BY <1>1, <1>2, <3>1, <3>2, <4>2
    <3>3. CASE ~(due > promised)
      BY <1>1, <3>1, <3>3
    <3> QED
      BY <3>2, <3>3
  <2>2. CASE ~(up /\ timer)
    <3>1. ~(due > promised)
      BY <2>2 DEF Promises, Owed, Timed
    <3>2. file' = file /\ synced' = synced /\ promised' = promised
      BY <1>1, <2>2, <3>1
    <3> QED
      BY <3>2 DEF Promises, Kept
  <2> QED
    BY <2>1, <2>2
<1> QED
  BY <1>3, <1>5, <1>6 DEF Promises

LEMMA PowerLossPromises ==
  ASSUME Recorded, Promises, PowerLoss, Typed'
  PROVE  Kept'
<1>0. Typed
  BY DEF Recorded
<1>1. synced' = Len(file') /\ UNCHANGED promised /\ (up \/ file # <<>>) /\ UNCHANGED appendonly
  BY DEF PowerLoss, Down, config
<1>2. PICK k : Left(k)
  BY <1>0, PowerLossLeaves
<1>3. /\ k \in Nat /\ k \in 0..Len(file) /\ synced <= k /\ file' \in Seq(Record)
      /\ Agree(file, file', k) /\ Len(file') \in {k, k + 1}
      /\ k \in 0..Len(file') /\ Len(file') \in 0..Len(file')
  BY <1>0, <1>2, SyncedIs DEF Left
<1> SUFFICES ASSUME appendonly, Clean(file', synced' - 1)
             PROVE  promised <= Got(file', Len(file'))
  BY <1>1 DEF Kept
<1>4. up \/ ended # "shutdown"
  BY <1>0, <1>1 DEF Typed, Shape
<1>5. Clean(file, synced - 1)
  <2>1. synced \in Nat /\ Len(file') \in Nat
    BY <1>0, <1>3, SyncedIs
  <2> QED
    BY <1>1, <1>3, <2>1 DEF Clean, Agree
<1>6. promised <= Got(file, synced)
  BY <1>4, <1>5 DEF Promises, Kept
<1>7. Got(file, synced) <= Got(file, k)
  BY <1>0, <1>3, SyncedIs
<1>8. Got(file, k) = Got(file', k)
  BY <1>3, GotSame
<1>9. Got(file', k) <= Got(file', Len(file'))
  BY <1>3, GotMonotone
<1>10. /\ promised \in Nat /\ Got(file, synced) \in Nat /\ Got(file, k) \in Nat
       /\ Got(file', Len(file')) \in Nat
  BY <1>0, <1>3, SyncedIs, GotIs
<1> QED
  BY <1>6, <1>7, <1>8, <1>9, <1>10

LEMMA StartPromises ==
  ASSUME Recorded, Promises, Start
  PROVE  Promises'
<1>0. Typed /\ Takes
  BY StartTyped DEF Recorded
<1>1. /\ ~up /\ timer' = (appendonly /\ policy' = "everysec")
      /\ promised' = IF promised > Found THEN Found ELSE promised
      /\ UNCHANGED <<appendonly, file, synced, due, ended>>
  BY DEF Start
<1>2. Timed'
  BY <1>1 DEF Timed
<1>3. promised \in Nat /\ Found \in Nat /\ due = 0
  BY <1>0, <1>1, SyncedIs DEF Takes, Typed, Shape
<1>4. due' <= promised' /\ promised' <= promised /\ promised' <= Found /\ promised' \in Nat
  BY <1>1, <1>3
<1>5. Owed'
  BY <1>1, <1>3, <1>4 DEF Owed
<1>6. Kept'
  <2> SUFFICES ASSUME appendonly, Clean(file, synced - 1) PROVE promised' <= Got(file, synced)
    BY <1>1 DEF Kept
  <2>0. Got(file, synced) \in Nat
    BY <1>0, SyncedIs
  <2>1. CASE ended # "shutdown"
    <3>1. promised <= Got(file, synced)
      BY <2>1 DEF Promises, Kept
    <3> QED
      BY <1>3, <1>4, <2>0, <3>1
  <2>2. CASE ended = "shutdown"
    <3>1. file = <<>> /\ Log = file
      BY <1>0, <1>1, <2>2, LogTyped DEF Typed, Shape
    <3>2. Found = Got(Log, 0)
      BY <1>0, <3>1 DEF Takes
    <3>3. Found = 0
      BY <3>2, AfterNone DEF Got, Reader
    <3> QED
      BY <1>4, <2>0, <3>3
  <2> QED
    BY <2>1, <2>2
<1> QED
  BY <1>2, <1>5, <1>6 DEF Promises
\* A process that is gone runs no timer and owes nothing more.
LEMMA DownPromises ==
  ASSUME Typed', ~up', due' = 0
  PROVE  Timed' /\ Owed'
<1>1. promised' \in 0..Mutations'
  BY DEF Typed, TypeOK
<1>2. ~(due' > promised')
  BY <1>1
<1> QED
  BY <1>2 DEF Timed, Owed

LEMMA PromisesStep ==
  ASSUME "everysec" \notin SwitchTo, Recorded, Promises, [Next]_vars
  PROVE  Promises'
<1>0. Typed /\ Recorded' /\ Typed'
  BY RecordedStep DEF Recorded
<1>1. CASE Start
  BY <1>1, StartPromises
<1>2. CASE Command
  <2>1. PICK p, e, r : Mutated(p, e, r)
    BY <1>0, <1>2, CommandIs
  <2>2. Mutations' = Mutations + 1
    BY <2>1, CommandTyped
  <2> QED
    BY <1>0, <2>1, <2>2, MutatePromises
<1>3. CASE ConfigSet
  <2>1. /\ policy' \in SwitchTo /\ due' = promised /\ promised' = promised
        /\ UNCHANGED <<up, appendonly, file, synced, ended>>
    BY <1>3 DEF ConfigSet, aofVars
  <2>2. policy' # "everysec"
    BY <2>1
  <2>3. ~(due' > promised')
    BY <1>0, <2>1, SyncedIs
  <2>4. Kept'
    BY <2>1 DEF Promises, Kept
  <2> QED
    BY <2>2, <2>3, <2>4 DEF Promises, Timed, Owed
<1>4. CASE Tick
  BY <1>4, TickPromises
<1>5. CASE AutoSave
  <2>1. /\ ~appendonly /\ promised' = Mutations /\ due' = due /\ Mutations' = Mutations
        /\ UNCHANGED <<appendonly>>
    BY <1>5 DEF AutoSave, config, Mutations
  <2>2. ~(due' > promised')
    BY <1>0, <2>1, SyncedIs, PastTyped
  <2> QED
    BY <2>1, <2>2 DEF Promises, Timed, Owed, Kept
<1>6. CASE Shutdown
  <2>1. ~up' /\ due' = 0 /\ ended' = "shutdown"
    BY <1>6 DEF Shutdown, Down
  <2>2. Timed' /\ Owed'
    BY <1>0, <2>1, DownPromises
  <2> QED
    BY <2>1, <2>2 DEF Promises, Kept
<1>7. CASE Stop
  <2>1. ~up' /\ due' = 0 /\ up /\ Flush(buffer) /\ promised' = promised /\ appendonly' = appendonly
    BY <1>7 DEF Stop, CloseFile, Down, config
  <2>2. Timed' /\ Owed'
    BY <1>0, <2>1, DownPromises
  <2>3. ASSUME appendonly, Clean(file', synced' - 1) PROVE promised <= Got(file', synced')
    BY <2>1, <2>3, FlushKeeps DEF Promises
  <2>4. Kept'
    BY <2>1, <2>3 DEF Kept
  <2> QED
    BY <2>2, <2>4 DEF Promises
<1>8. CASE Crash
  <2>1. ~up' /\ due' = 0 /\ up /\ UNCHANGED <<file, synced, promised, appendonly>>
    BY <1>8 DEF Crash, Down, config
  <2>2. Timed' /\ Owed'
    BY <1>0, <2>1, DownPromises
  <2>3. Kept'
    BY <2>1 DEF Promises, Kept
  <2> QED
    BY <2>2, <2>3 DEF Promises
<1>9. CASE PowerLoss
  <2>1. ~up' /\ due' = 0
    BY <1>9 DEF PowerLoss, Down
  <2>2. Timed' /\ Owed'
    BY <1>0, <2>1, DownPromises
  <2>3. Kept'
    BY <1>0, <1>9, PowerLossPromises
  <2> QED
    BY <2>2, <2>3 DEF Promises
<1>10. CASE UNCHANGED vars
  BY <1>10 DEF Promises, Timed, Owed, Kept, vars, config, aofVars, history
<1> QED
  BY <1>1, <1>2, <1>3, <1>4, <1>5, <1>6, <1>7, <1>8, <1>9, <1>10 DEF Next

LEMMA InitPromises == Init => Promises
<1> SUFFICES ASSUME Init PROVE Promises
  OBVIOUS
<1>1. up = FALSE /\ due = 0 /\ promised = 0 /\ file = <<>> /\ synced = 0
  BY DEF Init
<1>2. Got(file, 0) = 0
  BY AfterNone DEF Got, Reader
<1> QED
  BY <1>1, <1>2 DEF Promises, Timed, Owed, Kept

\* A start finds every mutation the configuration promised to keep, under each
\* appendfsync policy, through crashes, power losses, a log cut in its last
\* record, and any sequence of starts: appendEvent and _flush put them on the
\* disk in time.  CONFIG SET starts no timer, so the promise of everysec is kept
\* only where that policy was in force from the start: hence the hypothesis.
THEOREM PromisesAreKept ==
  ASSUME "everysec" \notin SwitchTo
  PROVE  Spec => PromiseKept
<1>1. Recorded /\ Promises /\ [Next]_vars => Promises'
  BY PromisesStep
<1>2. ASSUME Recorded, Promises, Start, ~Buried(Cuts), ~(appendonly /\ ended = "shutdown")
      PROVE  Found >= promised
  <2>1. Typed /\ ~up /\ Takes
    BY <1>2, StartTyped DEF Recorded, Start
  <2>2. CASE appendonly
    <3>0. Log = file /\ Found = Got(file, Len(file))
      BY <2>1, <2>2 DEF Takes
    <3>1. synced \in Nat /\ synced \in 0..Len(file) /\ Len(file) \in 0..Len(file)
      BY <2>1, SyncedIs
    <3>2. Clean(file, synced - 1)
      <4>1. Clean(file, Len(file) - 1)
        BY <1>2, <2>1, Unburied
      <4> QED
        BY <3>1, <4>1 DEF Clean
    <3>3. promised <= Got(file, synced)
      BY <1>2, <2>2, <3>2 DEF Promises, Kept
    <3>4. Got(file, synced) <= Got(file, Len(file))
      BY <2>1, <3>1, SyncedIs
    <3>5. Got(file, synced) \in Nat /\ Got(file, Len(file)) \in Nat /\ promised \in Nat
      BY <2>1, <3>1, SyncedIs
    <3> QED
      BY <3>0, <3>3, <3>4, <3>5
  <2>3. CASE ~appendonly
    <3>1. promised <= rdb.n /\ Found = rdb.n /\ promised \in Nat /\ Found \in Nat
      BY <2>1, <2>3, SyncedIs DEF Takes, Typed, Shape
    <3> QED
      BY <3>1
  <2> QED
    BY <2>2, <2>3
<1>3. Recorded /\ Promises =>
        [Start /\ ~Buried(Cuts) /\ ~(appendonly /\ ended = "shutdown") => Found >= promised]_vars
  BY <1>2
<1> QED
  BY <1>1, <1>3, InitPromises, AlwaysRecorded, PTL DEF Spec, PromiseKept

-----------------------------------------------------------------------------
(* What a start finds is one moment of the past.                           *)

\* Had q, at some time up to mutation n of the past P, a deadline that has
\* passed at time t?
HadIn(P, q, n, t) == \E i \in 1..(n + 1) : P[i][q].ttl \in 1..t

\* The first k records of L, read at time t, make the values of the moment of
\* the past they reach.
AsPast(P, L, k, t) ==
  \A q \in Pair : LET e == After(t, L, k).mem[q]
                      n == Got(L, k)
                  IN  e.val = P[n + 1][q].val \/ (e = Gone /\ HadIn(P, q, n, t))

\* Read at u rather than at t, they make the same values.
AsEarlier(P, L, k, t, u) ==
  \A q \in Pair : LET e == After(u, L, k).mem[q]
                  IN  \/ e.val = After(t, L, k).mem[q].val
                      \/ e = Gone /\ HadIn(P, q, Got(L, k), u)

Faithful ==
  appendonly => \A k \in 0..Len(Log) : Clean(Log, k) =>
    /\ \A t \in Nat : now <= t => AsPast(past, Log, k, t)
    /\ \A t, u \in Nat : t <= u => AsEarlier(past, Log, k, t, u)

\* What the log makes now is what the process holds.
Current ==
  up /\ appendonly /\ Clean(Log, Len(Log)) =>
    \A t \in Nat : now <= t =>
      \A q \in Pair : LET e == After(t, Log, Len(Log)).mem[q]
                      IN  e.val = mem[q].val \/ (e = Gone /\ HadIn(past, q, Mutations, t))

Saved ==
  ~appendonly => \A q \in Pair : /\ rdb.mem[q].val = past[rdb.n + 1][q].val
                                 /\ up => mem[q].val = past[Mutations + 1][q].val

Recoverable == Faithful /\ Current /\ Saved

\* A reader in the same state, and a past that has not changed so far.
LEMMA AsBefore ==
  ASSUME NEW P, NEW Q, NEW L, NEW M, NEW j, NEW k, \A t : After(t, M, j) = After(t, L, k),
         Got(L, k) \in Nat, \A i \in 1..(Got(L, k) + 1) : Q[i] = P[i]
  PROVE  /\ Got(M, j) = Got(L, k)
         /\ \A t : AsPast(P, L, k, t) => AsPast(Q, M, j, t)
         /\ \A t, u : AsEarlier(P, L, k, t, u) => AsEarlier(Q, M, j, t, u)
<1> DEFINE n == Got(L, k)
<1>1. Got(M, j) = n
  BY DEF Got
<1>2. n \in Nat /\ n + 1 \in 1..(n + 1) /\ \A i \in 1..(n + 1) : Q[i] = P[i]
  OBVIOUS
<1> HIDE DEF n
<1>3. \A q, t : HadIn(P, q, n, t) => HadIn(Q, q, n, t)
  BY <1>2 DEF HadIn
<1>4. Q[n + 1] = P[n + 1]
  BY <1>2
<1>5. ASSUME NEW t, AsPast(P, L, k, t) PROVE AsPast(Q, M, j, t)
  BY <1>1, <1>3, <1>4, <1>5 DEF AsPast, n
<1>6. ASSUME NEW t, NEW u, AsEarlier(P, L, k, t, u) PROVE AsEarlier(Q, M, j, t, u)
  BY <1>1, <1>3, <1>6 DEF AsEarlier, n
<1> QED
  BY <1>1, <1>5, <1>6 DEF n

\* A record does when it is replayed what its command did, to all but a key
\* one of whose deadlines has passed.
LEMMA ReplayedMeans ==
  ASSUME NEW e \in Sound, NEW old \in Sound, NEW new \in Sound, NEW r \in Record,
         Meant(new, old, r), NEW t \in Nat, now \in Nat, NEW H,
         e.val = old.val \/ (e = Gone /\ H)
  PROVE  LET w == Replayed(e, r, t)
         IN  w.val = new.val \/ (w = Gone /\ (H \/ new.ttl \in 1..t))
<1>0. Gone.val = Absent /\ r.at \in Int
  BY PersistenceAssumption DEF Gone, Record
<1>1. CASE r.op = "SET"
  BY <1>1 DEF Replayed, Meant
<1>2. CASE r.op = "DEL"
  BY <1>2 DEF Replayed, Meant
<1>3. CASE r.op = "PEXPIREAT"
  <2>1. old # Gone /\ new.val = old.val /\ new.ttl = r.at /\ r.at > now
    BY <1>3 DEF Meant
  <2>2. CASE r.at <= t
    BY <1>0, <1>3, <2>1, <2>2 DEF Replayed
  <2>3. CASE e = Gone
    <3>1. old.val # Absent
      BY <2>1 DEF Sound
    <3>2. H
      BY <1>0, <2>3, <3>1
    <3> QED
      BY <1>3, <2>3, <3>2 DEF Replayed
  <2>4. CASE e # Gone /\ ~(r.at <= t)
    <3>1. Replayed(e, r, t) = [e EXCEPT !.ttl = r.at]
      BY <1>3, <2>4 DEF Replayed
    <3>2. Replayed(e, r, t).val = e.val
      BY <3>1 DEF Sound, Entry
    <3> QED
      BY <2>1, <2>4, <3>2
  <2> QED
    BY <2>2, <2>3, <2>4
<1>4. CASE r.op = "PERSIST"
  <2>1. Replayed(e, r, t) = [e EXCEPT !.ttl = NoTtl] /\ new.val = old.val
    BY <1>4 DEF Replayed, Meant
  <2>2. Replayed(e, r, t) = [val |-> e.val, ttl |-> NoTtl]
    BY <2>1 DEF Sound, Entry
  <2>3. Replayed(e, r, t).val = e.val
    BY <2>2
  <2>4. CASE e.val = old.val
    BY <2>1, <2>3, <2>4
  <2>5. CASE e = Gone /\ H
    BY <1>0, <2>2, <2>5 DEF Gone
  <2> QED
    BY <2>4, <2>5
<1> QED
  BY <1>1, <1>2, <1>3, <1>4 DEF Record, Meant

\* Replayed later it does the same, but for the deadline it sets.
LEMMA ReplayedLater ==
  ASSUME NEW e \in Sound, NEW f \in Sound, NEW r \in Record, r.op # "SELECT",
         NEW t \in Nat, NEW u \in Nat, t <= u, NEW H, f.val = e.val \/ (f = Gone /\ H)
  PROVE  LET v == Replayed(e, r, t)
             w == Replayed(f, r, u)
         IN  w.val = v.val \/ (w = Gone /\ (H \/ (r.op = "PEXPIREAT" /\ r.at <= u)))
<1>0. Gone.val = Absent /\ r.at \in Int /\ (e.val = Absent => e = Gone) /\ (f.val = Absent => f = Gone)
  BY PersistenceAssumption DEF Gone, Record, Sound
<1>1. CASE r.op = "SET"
  BY <1>1 DEF Replayed
<1>2. CASE r.op = "DEL"
  BY <1>2 DEF Replayed
<1>3. CASE r.op = "PEXPIREAT"
  <2>1. CASE r.at <= u
    BY <1>3, <2>1 DEF Replayed
  <2>2. CASE f = Gone /\ ~(r.at <= u)
    <3>1. Replayed(f, r, u) = Gone
      BY <1>3, <2>2 DEF Replayed
    <3>2. CASE H
      BY <3>1, <3>2
    <3>3. CASE ~H
      <4>1. e = Gone
        BY <1>0, <2>2, <3>3
      <4> QED
        BY <1>3, <3>1, <4>1 DEF Replayed
    <3> QED
      BY <3>2, <3>3
  <2>3. CASE f # Gone /\ ~(r.at <= u)
    <3>1. f.val = e.val /\ e # Gone /\ ~(r.at <= t)
      BY <1>0, <2>3
    <3>2. Replayed(f, r, u) = [f EXCEPT !.ttl = r.at] /\ Replayed(e, r, t) = [e EXCEPT !.ttl = r.at]
      BY <1>3, <2>3, <3>1 DEF Replayed
    <3>3. Replayed(f, r, u).val = f.val /\ Replayed(e, r, t).val = e.val
      BY <3>2 DEF Sound, Entry
    <3> QED
      BY <3>1, <3>3
  <2> QED
    BY <2>1, <2>2, <2>3
<1>4. CASE r.op = "PERSIST"
  <2>1. Replayed(f, r, u) = [val |-> f.val, ttl |-> NoTtl] /\ Replayed(e, r, t) = [val |-> e.val, ttl |-> NoTtl]
    BY <1>4 DEF Replayed, Sound, Entry
  <2>2. Replayed(f, r, u).val = f.val /\ Replayed(e, r, t).val = e.val
    BY <2>1
  <2>3. CASE f.val = e.val
    BY <2>2, <2>3
  <2>4. CASE f = Gone /\ H
    BY <1>0, <2>1, <2>4 DEF Gone
  <2> QED
    BY <2>3, <2>4
<1> QED
  BY <1>1, <1>2, <1>3, <1>4 DEF Record
\* The positions of a log, as naturals.
LEMMA PrefixesTyped ==
  ASSUME Typed, Counted, appendonly
  PROVE  /\ Log \in Seq(Record) /\ Len(Log) \in Nat /\ Mutations \in Nat /\ now \in Nat
         /\ \A k \in 0..Len(Log) : /\ k \in Nat /\ Got(Log, k) \in Nat
                                   /\ Got(Log, k) <= Got(Log, Len(Log))
                                   /\ Got(Log, k) <= Mutations
<1>1. Log \in Seq(Record) /\ Len(Log) \in Nat /\ Mutations \in Nat
  BY LogTyped, PastTyped
<1>2. now \in Nat
  BY PersistenceAssumption DEF Typed, TypeOK
<1>3. ASSUME NEW k \in 0..Len(Log)
      PROVE  /\ k \in Nat /\ Got(Log, k) \in Nat
             /\ Got(Log, k) <= Got(Log, Len(Log)) /\ Got(Log, k) <= Mutations
  <2>1. k \in Nat /\ k <= Len(Log) /\ Len(Log) \in 0..Len(Log)
    BY <1>1
  <2>2. Got(Log, k) <= Got(Log, Len(Log))
    BY <1>1, <2>1, GotMonotone
  <2>3. Got(Log, k) \in Nat /\ Got(Log, Len(Log)) \in Nat
    BY <1>1, <2>1, GotIs
  <2>4. Got(Log, Len(Log)) <= Mutations
    BY DEF Counted
  <2> QED
    BY <1>1, <2>1, <2>2, <2>3, <2>4
<1> QED
  BY <1>1, <1>2, <1>3

\* A prefix of the log that stays where it was does what it did.
LEMMA FaithfulKept ==
  ASSUME Recorded, Faithful, appendonly, now' \in Nat, now <= now',
         NEW k \in 0..Len(Log), Agree(Log, Log', k), Clean(Log', k),
         \A i \in 1..(Got(Log, k) + 1) : past'[i] = past[i]
  PROVE  /\ \A t \in Nat : now' <= t => AsPast(past', Log', k, t)
         /\ \A t, u \in Nat : t <= u => AsEarlier(past', Log', k, t, u)
<1>1. k \in Nat /\ now \in Nat /\ Log \in Seq(Record) /\ Got(Log, k) \in Nat
  BY PrefixesTyped DEF Recorded
<1>2. Clean(Log, k)
  BY DEF Agree, Clean
<1>3. \A t : After(t, Log', k) = After(t, Log, k)
  BY <1>1, AfterSame
<1>4. /\ \A t : AsPast(past, Log, k, t) => AsPast(past', Log', k, t)
      /\ \A t, u : AsEarlier(past, Log, k, t, u) => AsEarlier(past', Log', k, t, u)
  BY <1>1, <1>3, AsBefore
<1>5. /\ \A t \in Nat : now <= t => AsPast(past, Log, k, t)
      /\ \A t, u \in Nat : t <= u => AsEarlier(past, Log, k, t, u)
  BY <1>2 DEF Faithful
<1>6. \A t \in Nat : now' <= t => now <= t
  BY <1>1
<1> QED
  BY <1>4, <1>5, <1>6

\* Where the log is not longer, no prefix of it is new.
LEMMA FaithfulShrinks ==
  ASSUME Recorded, Faithful, appendonly, now' \in Nat, now <= now',
         NEW j \in 0..Len(Log), Len(Log') \in Nat, Agree(Log, Log', j),
         \A k \in 0..Len(Log') : Clean(Log', k) => k <= j,
         \A i \in 1..(Got(Log, j) + 1) : past'[i] = past[i]
  PROVE  Faithful'
<1> SUFFICES ASSUME NEW k \in 0..Len(Log'), Clean(Log', k)
             PROVE  /\ \A t \in Nat : now' <= t => AsPast(past', Log', k, t)
                    /\ \A t, u \in Nat : t <= u => AsEarlier(past', Log', k, t, u)
  BY DEF Faithful
<1>1. /\ k <= j /\ k \in 0..Len(Log) /\ k \in Nat /\ j \in Nat /\ j <= Len(Log)
      /\ Log \in Seq(Record) /\ Got(Log, k) \in Nat /\ Got(Log, j) \in Nat
  <2>1. k <= j /\ k \in Nat
    OBVIOUS
  <2>2. /\ Log \in Seq(Record) /\ Len(Log) \in Nat
        /\ \A i \in 0..Len(Log) : i \in Nat /\ Got(Log, i) \in Nat
    BY PrefixesTyped DEF Recorded
  <2>3. k \in 0..Len(Log) /\ j \in Nat /\ j <= Len(Log)
    BY <2>1, <2>2
  <2> QED
    BY <2>1, <2>2, <2>3
<1>2. Agree(Log, Log', k)
  BY <1>1 DEF Agree
<1>3. Got(Log, k) <= Got(Log, j)
  BY <1>1, GotMonotone
<1>4. \A i \in 1..(Got(Log, k) + 1) : past'[i] = past[i]
  BY <1>1, <1>3
<1> QED
  BY <1>1, <1>2, <1>4, FaithfulKept

\* The deadlines of a longer past, up to a later time.
LEMMA HadMore ==
  ASSUME NEW P, NEW Q, NEW n \in Nat, NEW q, NEW t, HadIn(P, q, n, t),
         \A i \in 1..(n + 1) : Q[i] = P[i]
  PROVE  HadIn(Q, q, n + 1, t)
<1>1. PICK i \in 1..(n + 1) : P[i][q].ttl \in 1..t
  BY DEF HadIn
<1>2. i \in 1..(n + 1 + 1) /\ Q[i][q].ttl \in 1..t
  BY <1>1
<1> QED
  BY <1>2 DEF HadIn

\* A mutation: what its record does, on top of the rest, is what it did.
LEMMA MutateFaithful ==
  ASSUME Db = {Db0}, Recorded, Recoverable, Recorded', NEW p, NEW e, NEW r, Mutated(p, e, r),
         Mutations' = Mutations + 1, past' = Append(past, mem'), appendonly,
         Clean(Log, Len(Log))
  PROVE  /\ \A t \in Nat : now <= t => AsPast(past', Log', Len(Log'), t)
         /\ \A t, u \in Nat : t <= u => AsEarlier(past', Log', Len(Log'), t, u)
         /\ Got(Log', Len(Log')) = Mutations + 1
<1> DEFINE d == Len(Log)
           c == Len(Log')
           n == Mutations
           S(t) == After(t, Log, d)
           W(t) == After(t, Log', c)
<1>0. Typed /\ Counted /\ Complete /\ Faithful /\ Current
  BY DEF Recorded, Recoverable
<1>1. /\ p \in Pair /\ e \in Sound /\ r \in Record /\ r.op # "SELECT" /\ r.cut = "whole"
      /\ p = <<Db0, r.key>> /\ Meant(e, mem[p], r) /\ up /\ mem' = [mem EXCEPT ![p] = e]
  BY DEF Mutated, Mutate, Record
<1>2. /\ Log \in Seq(Record) /\ d \in Nat /\ n \in Nat /\ now \in Nat /\ d \in 0..Len(Log)
      /\ \A k \in 0..d : Got(Log, k) \in Nat
  BY <1>0, PrefixesTyped
<1>3. Got(Log, d) = n
  <2>1. Clean(Log, d - 1)
    BY <1>2 DEF Clean
  <2> QED
    BY <1>0, <1>1, <2>1 DEF Complete
<1>4. Grown(Log, Log', r)
  BY <1>0, MutateLog
<1>5. \A t : W(t) = ReadAt(S(t), r, t)
  BY <1>4 DEF Grown
<1>6. \A t : S(t) \in Reading /\ S(t).cut = <<>> /\ ~S(t).lost /\ S(t).n = n
  BY <1>2, <1>3, AfterTyped, AfterClean, GotIs
<1>7. ASSUME NEW t
      PROVE  /\ W(t).n = n + 1
             /\ W(t).mem[p] = Replayed(S(t).mem[p], r, t)
             /\ \A q \in Pair \ {p} : W(t).mem[q] = S(t).mem[q]
             /\ \A q \in Pair : S(t).mem[q] \in Sound
  <2> DEFINE s == S(t)
  <2>1. s \in Reading /\ s.cut = <<>> /\ ~s.lost /\ s.n = n /\ W(t) = ReadAt(s, r, t)
    BY <1>5, <1>6
  <2>2. \A q \in Pair : s.mem[q] \in Sound
    BY <2>1, ReadingIs DEF Store
  <2> HIDE DEF s, W
  <2>3. LET u == ReadAt(s, r, t)
            x == <<Db0, r.key>>
        IN  /\ u.n = s.n + 1 /\ u.mem[x] = Replayed(s.mem[x], r, t)
            /\ \A q \in Pair \ {x} : u.mem[q] = s.mem[q]
    BY <1>1, <2>1, ReadClean
  <2>4. /\ W(t).n = n + 1
        /\ W(t).mem[p] = Replayed(s.mem[p], r, t)
        /\ \A q \in Pair \ {p} : W(t).mem[q] = s.mem[q]
    BY <1>1, <2>1, <2>3
  <2> QED
    BY <2>2, <2>4 DEF s
<1>8. Got(Log', c) = n + 1
  BY <1>7 DEF Got
<1>9. /\ past'[n + 2] = mem' /\ n + 2 = n + 1 + 1 /\ n + 2 \in 1..(n + 1 + 1)
      /\ \A i \in 1..(n + 1) : past'[i] = past[i]
  <2>1. past \in Seq([Pair -> Entry]) /\ Len(past) = n + 1
    BY <1>0, <1>2 DEF Typed, TypeOK, Mutations
  <2>2. past'[n + 2] = mem'
    BY <1>2, <2>1
  <2>3. \A i \in 1..(n + 1) : past'[i] = past[i]
    BY <1>2, <2>1
  <2>4. n \in Nat
    BY <1>2
  <2>5. n + 2 = n + 1 + 1 /\ n + 2 \in 1..(n + 1 + 1)
    <3> HIDE DEF n
    <3> QED
      BY <2>4
  <2> QED
    BY <2>2, <2>3, <2>5
<1>10. mem[p] \in Sound /\ mem'[p] = e /\ \A q \in Pair \ {p} : mem'[q] = mem[q]
  BY <1>0, <1>1 DEF Typed, Shape, Store
<1>11. \A q, t : HadIn(past, q, n, t) => HadIn(past', q, n + 1, t)
  BY <1>2, <1>9, HadMore
<1>12. \A t : past'[n + 2][p].ttl \in 1..t => HadIn(past', p, n + 1, t)
  BY <1>9 DEF HadIn
<1>13. ASSUME NEW t \in Nat, now <= t PROVE AsPast(past', Log', c, t)
  <2>1. \A q \in Pair : S(t).mem[q].val = mem[q].val \/ (S(t).mem[q] = Gone /\ HadIn(past, q, n, t))
    BY <1>0, <1>1, <1>13 DEF Current
  <2> SUFFICES ASSUME NEW q \in Pair
               PROVE  \/ W(t).mem[q].val = past'[n + 2][q].val
                      \/ W(t).mem[q] = Gone /\ HadIn(past', q, n + 1, t)
    BY <1>8, <1>9 DEF AsPast
  <2>2. CASE q # p
    <3>1. W(t).mem[q] = S(t).mem[q] /\ past'[n + 2][q] = mem[q]
      BY <1>7, <1>9, <1>10, <2>2
    <3> HIDE DEF S, W
    <3> QED
      BY <1>11, <2>1, <3>1
  <2>3. CASE q = p
    <3> DEFINE H == HadIn(past, p, n, t)
    <3>1. S(t).mem[p] \in Sound /\ (S(t).mem[p].val = mem[p].val \/ (S(t).mem[p] = Gone /\ H))
      BY <1>1, <1>7, <2>1
    <3>2. W(t).mem[p] = Replayed(S(t).mem[p], r, t)
      BY <1>7
    <3>3. \/ W(t).mem[p].val = e.val
          \/ W(t).mem[p] = Gone /\ (H \/ e.ttl \in 1..t)
      <4> DEFINE f == S(t).mem[p]
                 o == mem[p]
      <4>1. f \in Sound /\ o \in Sound /\ e \in Sound /\ r \in Record /\ Meant(e, o, r)
        BY <1>1, <1>10, <3>1
      <4>2. f.val = o.val \/ (f = Gone /\ H)
        BY <3>1
      <4>3. W(t).mem[p] = Replayed(f, r, t)
        BY <3>2
      <4> HIDE DEF S, W, H, f, o
      <4>4. LET w == Replayed(f, r, t) IN w.val = e.val \/ (w = Gone /\ (H \/ e.ttl \in 1..t))
        BY <1>2, <4>1, <4>2, ReplayedMeans
      <4> QED
        BY <4>3, <4>4
    <3> HIDE DEF S, W, H
    <3>4. past'[n + 2][p] = e
      BY <1>9, <1>10
    <3> QED
      BY <1>11, <1>12, <2>3, <3>3, <3>4 DEF H
  <2> QED
    BY <2>2, <2>3
<1>14. ASSUME NEW t \in Nat, NEW u \in Nat, t <= u PROVE AsEarlier(past', Log', c, t, u)
  <2>0. AsEarlier(past, Log, d, t, u)
    BY <1>0, <1>2, <1>14 DEF Faithful
  <2>1. \A q \in Pair : \/ S(u).mem[q].val = S(t).mem[q].val
                        \/ S(u).mem[q] = Gone /\ HadIn(past, q, n, u)
    BY <1>3, <2>0 DEF AsEarlier
  <2> SUFFICES ASSUME NEW q \in Pair
               PROVE  \/ W(u).mem[q].val = W(t).mem[q].val
                      \/ W(u).mem[q] = Gone /\ HadIn(past', q, n + 1, u)
    BY <1>8 DEF AsEarlier
  <2>2. CASE q # p
    <3>1. W(t).mem[q] = S(t).mem[q] /\ W(u).mem[q] = S(u).mem[q]
      BY <1>7, <2>2
    <3> HIDE DEF S, W
    <3> QED
      BY <1>11, <2>1, <3>1
  <2>3. CASE q = p
    <3> DEFINE H == HadIn(past, p, n, u)
    <3>1. /\ S(t).mem[p] \in Sound /\ S(u).mem[p] \in Sound
          /\ S(u).mem[p].val = S(t).mem[p].val \/ (S(u).mem[p] = Gone /\ H)
      BY <1>1, <1>7, <2>1
    <3>2. W(t).mem[p] = Replayed(S(t).mem[p], r, t) /\ W(u).mem[p] = Replayed(S(u).mem[p], r, u)
      BY <1>7
    <3>3. \/ W(u).mem[p].val = W(t).mem[p].val
          \/ W(u).mem[p] = Gone /\ (H \/ (r.op = "PEXPIREAT" /\ r.at <= u))
      <4> DEFINE f == S(t).mem[p]
                 g == S(u).mem[p]
      <4>1. f \in Sound /\ g \in Sound /\ r \in Record /\ r.op # "SELECT"
        BY <1>1, <3>1
      <4>2. g.val = f.val \/ (g = Gone /\ H)
        BY <3>1
      <4>3. W(t).mem[p] = Replayed(f, r, t) /\ W(u).mem[p] = Replayed(g, r, u)
        BY <3>2
      <4>4. t \in Nat /\ u \in Nat /\ t <= u
        BY <1>14
      <4> HIDE DEF S, W, H, f, g
      <4>5. LET v == Replayed(f, r, t)
                w == Replayed(g, r, u)
            IN  w.val = v.val \/ (w = Gone /\ (H \/ (r.op = "PEXPIREAT" /\ r.at <= u)))
        BY <4>1, <4>2, <4>4, ReplayedLater
      <4> QED
        BY <4>3, <4>5
    <3> HIDE DEF S, W, H
    <3>4. r.op = "PEXPIREAT" /\ r.at <= u => past'[n + 2][p].ttl \in 1..u
      <4>1. past'[n + 2][p] = e
        BY <1>9, <1>10
      <4>2. r.op = "PEXPIREAT" => e.ttl = r.at /\ r.at > now
        BY <1>1 DEF Meant
      <4>3. r.at \in Int
        BY <1>1, PersistenceAssumption DEF Record
      <4> QED
        BY <1>2, <4>1, <4>2, <4>3
    <3> QED
      BY <1>11, <1>12, <2>3, <3>3, <3>4 DEF H
  <2> QED
    BY <2>2, <2>3
<1> HIDE DEF S, W, d, c, n
<1> QED
  BY <1>8, <1>13, <1>14 DEF c, n
LEMMA MutateRecoverable ==
  ASSUME Db = {Db0}, Recorded, Recoverable, Recorded', NEW p, NEW e, NEW r, Mutated(p, e, r),
         Mutations' = Mutations + 1, past' = Append(past, mem')
  PROVE  Recoverable'
<1> DEFINE d == Len(Log)
           c == Len(Log')
           n == Mutations
<1>0. Typed /\ Counted /\ Faithful /\ Saved
  BY DEF Recorded, Recoverable
<1>1. appendonly' = appendonly /\ now' = now /\ rdb' = rdb
  BY DEF Mutated, Mutate, config
<1>2. n \in Nat /\ now \in Nat /\ past \in Seq([Pair -> Entry]) /\ Len(past) = n + 1
  <2>1. n \in Nat
    BY <1>0, PastTyped
  <2> QED
    BY <1>0, <2>1, PersistenceAssumption DEF Typed, TypeOK, Mutations
<1>3. \A i \in 1..(n + 1) : past'[i] = past[i]
  BY <1>2
<1>4. past'[n + 2] = mem' /\ Mutations' = n + 1
  BY <1>2
<1>5. n + 2 = n + 1 + 1
  <2> HIDE DEF n
  <2> QED
    BY <1>2
<1>6. CASE appendonly
  <2>1. Grown(Log, Log', r)
    BY <1>0, <1>6, MutateLog
  <2>2. /\ Log \in Seq(Record) /\ d \in Nat /\ d \in 0..d
        /\ \A k \in 0..d : k \in Nat /\ Got(Log, k) \in Nat /\ Got(Log, k) <= n
    BY <1>0, <1>6, PrefixesTyped
  <2>3. c \in Nat /\ Agree(Log, Log', d)
    BY <2>1 DEF Grown
  <2>4. Clean(Log', c) => Clean(Log, d)
    <3>1. d < c
      BY <2>1 DEF Grown
    <3> HIDE DEF d, c
    <3> QED
      BY <2>2, <2>3, <3>1 DEF Agree, Clean
  <2>5. Clean(Log, d) =>
          /\ \A t \in Nat : now <= t => AsPast(past', Log', c, t)
          /\ \A t, u \in Nat : t <= u => AsEarlier(past', Log', c, t, u)
          /\ Got(Log', c) = n + 1
    BY <1>6, MutateFaithful
  <2>6. ASSUME NEW k \in 0..c, Clean(Log', k)
        PROVE  /\ \A t \in Nat : now' <= t => AsPast(past', Log', k, t)
               /\ \A t, u \in Nat : t <= u => AsEarlier(past', Log', k, t, u)
    <3>1. k \in Nat /\ k <= c
      BY <2>3
    <3>2. CASE k <= d
      <4>1. k \in 0..Len(Log)
        BY <2>2, <3>1, <3>2
      <4>2. Agree(Log, Log', k)
        BY <2>2, <2>3, <3>1, <3>2 DEF Agree
      <4>3. \A i \in 1..(Got(Log, k) + 1) : past'[i] = past[i]
        <5>1. Got(Log, k) \in Nat /\ Got(Log, k) <= n
          BY <2>2, <4>1
        <5> HIDE DEF n
        <5> QED
          BY <1>2, <1>3, <5>1
      <4>4. now' \in Nat /\ now <= now'
        BY <1>1, <1>2
      <4> QED
        BY <1>0, <1>6, <2>6, <4>1, <4>2, <4>3, <4>4, FaithfulKept
    <3>3. CASE d < k
      <4>1. Clean(Log, d)
        BY <2>2, <2>3, <2>6, <3>1, <3>3 DEF Agree, Clean
      <4>2. CASE k = c
        BY <1>1, <2>5, <4>1, <4>2
      <4>3. CASE k # c
        <5>1. k \in d..c - 1
          BY <2>2, <2>3, <3>1, <3>3, <4>3
        <5>2. \A t : After(t, Log', k) = After(t, Log, d)
          BY <2>1, <4>1, <5>1 DEF Grown
        <5>3. Got(Log, d) \in Nat /\ Got(Log, d) <= n
          BY <2>2
        <5>4. \A i \in 1..(Got(Log, d) + 1) : past'[i] = past[i]
          <6> HIDE DEF n
          <6> QED
            BY <1>2, <1>3, <5>3
        <5>5. /\ \A t : AsPast(past, Log, d, t) => AsPast(past', Log', k, t)
              /\ \A t, u : AsEarlier(past, Log, d, t, u) => AsEarlier(past', Log', k, t, u)
          BY <5>2, <5>3, <5>4, AsBefore
        <5>6. /\ \A t \in Nat : now <= t => AsPast(past, Log, d, t)
              /\ \A t, u \in Nat : t <= u => AsEarlier(past, Log, d, t, u)
          BY <1>0, <1>6, <2>2, <4>1 DEF Faithful
        <5> QED
          BY <1>1, <5>5, <5>6
      <4> QED
        BY <4>2, <4>3
    <3> QED
      BY <2>2, <3>1, <3>2, <3>3
  <2>7. Faithful'
    BY <2>6 DEF Faithful
  <2>8. Current'
    <3> SUFFICES ASSUME Clean(Log', c), NEW t \in Nat, now' <= t, NEW q \in Pair
                 PROVE  LET x == After(t, Log', c).mem[q]
                        IN  x.val = mem'[q].val \/ (x = Gone /\ HadIn(past', q, Mutations', t))
      BY DEF Current
    <3>1. Got(Log', c) = n + 1 /\ AsPast(past', Log', c, t)
      BY <1>1, <2>4, <2>5
    <3>2. LET x == After(t, Log', c).mem[q]
          IN  x.val = past'[n + 1 + 1][q].val \/ (x = Gone /\ HadIn(past', q, n + 1, t))
      BY <3>1 DEF AsPast
    <3> QED
      BY <1>4, <1>5, <3>2
  <2>9. Saved'
    BY <1>1, <1>6 DEF Saved
  <2> QED
    BY <2>7, <2>8, <2>9 DEF Recoverable
<1>7. CASE ~appendonly
  <2>1. rdb.n \in Nat /\ rdb.n <= n
    BY <1>0, <1>7, PersistenceAssumption DEF Typed, TypeOK, Shape
  <2>2. past'[rdb.n + 1] = past[rdb.n + 1]
    <3> HIDE DEF n
    <3> QED
      BY <1>2, <1>3, <2>1
  <2>3. past'[Mutations' + 1] = mem'
    BY <1>4, <1>5
  <2>4. Saved'
    BY <1>0, <1>1, <1>7, <2>2, <2>3 DEF Saved
  <2> QED
    BY <1>1, <1>7, <2>4 DEF Recoverable, Faithful, Current
<1> QED
  BY <1>6, <1>7

\* Without a log, the values of the last save and of the process are of the past.
LEMMA SavedStep ==
  ASSUME Recorded, Saved, [Next]_vars, ~appendonly,
         \A p, e, r : ~Mutated(p, e, r)
  PROVE  Saved'
<1>1. Typed
  BY DEF Recorded
<1>2. ASSUME UNCHANGED <<appendonly, rdb, past>>, up' => up /\ mem' = mem
      PROVE  Saved'
  BY <1>2 DEF Saved, Mutations
<1>3. ASSUME UNCHANGED <<appendonly, past>>, rdb' = Snapshot, up, up' => mem' = mem
      PROVE  Saved'
  <2>1. rdb'.mem = mem /\ rdb'.n = Mutations /\ Mutations' = Mutations
    BY <1>3 DEF Snapshot, Mutations
  <2> QED
    BY <1>3, <2>1 DEF Saved
<1>4. CASE Start
  <2>1. Takes /\ rdb' = rdb
    BY <1>4, StartTyped DEF Start
  <2>2. /\ Mutations' = rdb.n /\ rdb.n \in Nat /\ past'[rdb.n + 1] = past[rdb.n + 1]
        /\ \A q \in Pair : mem'[q].val = rdb.mem[q].val
    BY <2>1 DEF Takes
  <2> QED
    BY <2>1, <2>2 DEF Saved
<1>5. CASE Command
  BY <1>1, <1>5, CommandIs
<1>6. CASE ConfigSet
  BY <1>2, <1>6 DEF ConfigSet
<1>7. CASE Tick
  BY <1>2, <1>7 DEF Tick, config
<1>8. CASE AutoSave
  BY <1>3, <1>8 DEF AutoSave, CanSave, config
<1>9. CASE Shutdown
  <2>1. up /\ rdb' = Snapshot /\ up' = FALSE /\ UNCHANGED <<appendonly, past>>
    BY <1>1, <1>9, DownTyped DEF Shutdown, CanSave
  <2> QED
    BY <1>3, <2>1
<1>10. CASE Stop
  <2>1. rdb' = rdb /\ up' = FALSE /\ UNCHANGED <<appendonly, past>>
    BY <1>1, <1>10, DownTyped DEF Stop
  <2> QED
    BY <1>2, <2>1
<1>11. CASE Crash
  <2>1. rdb' = rdb /\ up' = FALSE /\ UNCHANGED <<appendonly, past>>
    BY <1>1, <1>11, DownTyped DEF Crash
  <2> QED
    BY <1>2, <2>1
<1>12. CASE PowerLoss
  <2>1. rdb' = rdb /\ up' = FALSE /\ UNCHANGED <<appendonly, past>>
    BY <1>1, <1>12, DownTyped DEF PowerLoss
  <2> QED
    BY <1>2, <2>1
<1>13. CASE UNCHANGED vars
  BY <1>2, <1>13 DEF vars, config, history
<1> QED
  BY <1>4, <1>5, <1>6, <1>7, <1>8, <1>9, <1>10, <1>11, <1>12, <1>13 DEF Next

LEMMA RecoverableStep ==
  ASSUME Db = {Db0}, Recorded, Recoverable, [Next]_vars
  PROVE  Recoverable'
<1>0. Recorded' /\ Typed /\ Typed' /\ Counted /\ Faithful /\ Current /\ Saved
  BY RecordedStep DEF Recorded, Recoverable
<1>1. CASE \E p, e, r : Mutated(p, e, r)
  <2>1. PICK p, e, r : Mutated(p, e, r)
    BY <1>1
  <2>2. Mutations' = Mutations + 1 /\ past' = Append(past, mem')
    BY <2>1, CommandTyped
  <2> QED
    BY <1>0, <2>1, <2>2, MutateRecoverable
<1>2. CASE \A p, e, r : ~Mutated(p, e, r)
  <2>1. Steady \/ Loses \/ Empties \/ Takes
    BY <1>2, Steps
  <2>2. CASE ~appendonly
    <3>1. Saved'
      BY <1>0, <1>2, <2>2, SavedStep
    <3>2. appendonly' = appendonly
      BY <2>1 DEF Steady, Loses, Empties, Takes
    <3> QED
      BY <2>2, <3>1, <3>2 DEF Recoverable, Faithful, Current
  <2>3. CASE appendonly
    <3>0. /\ Log \in Seq(Record) /\ Len(Log) \in Nat /\ Mutations \in Nat /\ now \in Nat
          /\ Len(Log) \in 0..Len(Log) /\ 0 \in 0..Len(Log) /\ Agree(Log, Log, Len(Log))
          /\ \A k \in 0..Len(Log) : Got(Log, k) \in Nat /\ k \in Nat
      BY <1>0, <2>3, PrefixesTyped DEF Agree
    <3>1. now' \in Nat /\ Len(Log') \in Nat
      BY <1>0, LogTyped, PersistenceAssumption DEF Typed, TypeOK
    <3>2. CASE Steady
      <4>1. Log' = Log /\ past' = past /\ appendonly' = appendonly /\ now <= now'
        BY <3>2 DEF Steady
      <4>2. Faithful'
        BY <1>0, <2>3, <3>0, <3>1, <4>1, FaithfulShrinks
      <4>3. Mutations' = Mutations /\ (up' => up /\ mem' = mem)
        BY <3>2 DEF Steady, Mutations
      <4>4. \A t \in Nat : now' <= t => now <= t
        BY <3>0, <3>1, <4>1
      <4>5. Current'
        BY <1>0, <4>1, <4>3, <4>4 DEF Current
      <4> QED
        BY <2>3, <4>1, <4>2, <4>5 DEF Recoverable, Saved
    <3>3. CASE Loses
      <4>1. ~up' /\ past' = past /\ appendonly' = appendonly /\ now <= now'
        BY <3>0, <3>3 DEF Loses
      <4>2. PICK j \in 0..Len(Log) : /\ Agree(Log, Log', j)
                                     /\ \/ Len(Log') = j
                                        \/ Len(Log') = j + 1 /\ Log'[j + 1].cut # "whole"
        BY <3>3 DEF Loses
      <4>3. ASSUME NEW k \in 0..Len(Log'), Clean(Log', k) PROVE k <= j
        <5>1. j \in Nat /\ k \in Nat
          BY <3>0
        <5>2. k = j + 1 => Log'[j + 1].cut = "whole"
          BY <4>3, <5>1 DEF Clean
        <5> QED
          BY <4>2, <5>1, <5>2
      <4>4. Faithful'
        BY <1>0, <2>3, <3>1, <4>1, <4>2, <4>3, FaithfulShrinks
      <4> QED
        BY <2>3, <4>1, <4>4 DEF Recoverable, Current, Saved
    <3>4. CASE Empties
      <4>1. ~up' /\ past' = past /\ appendonly' = appendonly /\ now <= now' /\ Log' = <<>>
        BY <3>0, <3>4 DEF Empties
      <4>2. Agree(Log, Log', 0) /\ Len(Log') = 0
        BY <4>1 DEF Agree
      <4>3. Faithful'
        BY <1>0, <2>3, <3>0, <3>1, <4>1, <4>2, FaithfulShrinks
      <4> QED
        BY <2>3, <4>1, <4>3 DEF Recoverable, Current, Saved
    <3>5. CASE Takes
      <4>1. /\ Log' = Log /\ appendonly' = appendonly /\ now' = now /\ now <= now'
            /\ Mutations' = Got(Log, Len(Log))
            /\ \A i \in 1..(Got(Log, Len(Log)) + 1) : past'[i] = past[i]
            /\ mem' = After(now, Log, Len(Log)).mem
        BY <2>3, <3>0, <3>5 DEF Takes
      <4>2. Faithful'
        BY <1>0, <2>3, <3>0, <3>1, <4>1, FaithfulShrinks
      <4>3. Current'
        <5> SUFFICES ASSUME Clean(Log, Len(Log)), NEW t \in Nat, now <= t, NEW q \in Pair
                     PROVE  LET x == After(t, Log, Len(Log)).mem[q]
                            IN  \/ x.val = mem'[q].val
                                \/ x = Gone /\ HadIn(past', q, Mutations', t)
          BY <4>1 DEF Current
        <5>1. AsEarlier(past', Log', Len(Log'), now, t)
          <6>1. appendonly' /\ Clean(Log', Len(Log')) /\ Len(Log') \in 0..Len(Log')
            BY <2>3, <3>0, <4>1
          <6> QED
            BY <3>0, <4>2, <6>1 DEF Faithful
        <5>2. AsEarlier(past', Log, Len(Log), now, t)
          BY <4>1, <5>1
        <5> QED
          BY <4>1, <5>2 DEF AsEarlier
      <4> QED
        BY <2>3, <4>1, <4>2, <4>3 DEF Recoverable, Saved
    <3> QED
      BY <2>1, <3>2, <3>3, <3>4, <3>5
  <2> QED
    BY <2>2, <2>3
<1> QED
  BY <1>1, <1>2

LEMMA InitRecoverable == Init => Recoverable
<1> SUFFICES ASSUME Init PROVE Recoverable
  OBVIOUS
<1>1. Log = <<>> /\ past = <<Empty>> /\ past[1] = Empty /\ ~up
  BY DEF Init, Log
<1>2. \A t : After(t, Log, 0) = Reader
  BY AfterNone
<1>3. Got(Log, 0) = 0 /\ Reader.mem = Empty
  BY <1>2 DEF Got, Reader
<1>4. Faithful
  <2> SUFFICES ASSUME NEW k \in 0..Len(Log)
               PROVE  /\ \A t \in Nat : now <= t => AsPast(past, Log, k, t)
                      /\ \A t, u \in Nat : t <= u => AsEarlier(past, Log, k, t, u)
    BY DEF Faithful
  <2>1. k = 0
    BY <1>1
  <2>2. past[Got(Log, 0) + 1] = Empty
    BY <1>1, <1>3
  <2>3. \A t : AsPast(past, Log, 0, t)
    BY <1>2, <1>3, <2>2 DEF AsPast
  <2>4. \A t, u : AsEarlier(past, Log, 0, t, u)
    BY <1>2 DEF AsEarlier
  <2> QED
    BY <2>1, <2>3, <2>4
<1>5. rdb.mem = Empty /\ past[rdb.n + 1] = Empty
  BY <1>1 DEF Init
<1>6. Saved
  BY <1>1, <1>5 DEF Saved
<1> QED
  BY <1>1, <1>4, <1>6 DEF Recoverable, Current

\* After k records the reader has the store and the count it had after j of
\* them, none of these cut, and either reads no more or holds a cut record.
StoppedAt(L, k, j) ==
  /\ Clean(L, j) /\ Got(L, k) = Got(L, j)
  /\ \A t : /\ After(t, L, k).mem = After(t, L, j).mem
            /\ \/ After(t, L, k).lost
               \/ After(t, L, k).cut = <<L[k]>> /\ L[k].cut # "whole"

\* Unless a cut record swallows the next one, a replay is that of the records
\* before the first cut.
LEMMA CleanPrefix ==
  ASSUME NEW L \in Seq(Record), \A i \in 1..(Len(L) - 1) : L[i].cut # "between"
  PROVE  \E j \in 0..Len(L) : /\ Clean(L, j) /\ Got(L, Len(L)) = Got(L, j)
                              /\ \A t : After(t, L, Len(L)).mem = After(t, L, j).mem
<1> DEFINE P(k) == k <= Len(L) =>
                     Clean(L, k) \/ (k # 0 /\ \E j \in 0..k : StoppedAt(L, k, j))
<1>1. P(0)
  BY DEF Clean
<1>2. ASSUME NEW k \in Nat, P(k) PROVE P(k + 1)
  <2> SUFFICES ASSUME k + 1 <= Len(L)
               PROVE  Clean(L, k + 1) \/ (k + 1 # 0 /\ \E j \in 0..(k + 1) : StoppedAt(L, k + 1, j))
    OBVIOUS
  <2>1. k + 1 # 0 /\ k <= Len(L) /\ k \in 0..Len(L) /\ k \in 0..(k + 1) /\ k + 1 \in 1..Len(L)
    OBVIOUS
  <2>2. L[k + 1] \in Record
    BY <2>1
  <2>3. \A t : After(t, L, k) \in Reading /\ After(t, L, k + 1) = ReadAt(After(t, L, k), L[k + 1], t)
    BY <2>1, AfterTyped, AfterNext
  <2>4. CASE Clean(L, k) /\ L[k + 1].cut = "whole"
    BY <2>4 DEF Clean
  <2>5. CASE Clean(L, k) /\ L[k + 1].cut # "whole"
    <3>1. \A t : After(t, L, k).cut = <<>> /\ ~After(t, L, k).lost
      BY <2>1, <2>5, AfterClean
    <3>2. ASSUME NEW t
          PROVE  /\ After(t, L, k + 1).n = After(t, L, k).n
                 /\ After(t, L, k + 1).cut = <<L[k + 1]>>
                 /\ After(t, L, k + 1).mem = After(t, L, k).mem
      <4> DEFINE s == After(t, L, k)
                 r == L[k + 1]
      <4>1. s \in Reading /\ r \in Record /\ r.cut # "whole" /\ s.cut = <<>> /\ ~s.lost
        BY <2>2, <2>3, <2>5, <3>1
      <4>2. After(t, L, k + 1) = ReadAt(s, r, t)
        BY <2>3
      <4> HIDE DEF s, r
      <4>3. ReadAt(s, r, t).n = s.n /\ ReadAt(s, r, t).cut = <<r>> /\ ReadAt(s, r, t).mem = s.mem
        BY <4>1, ReadCutCounts
      <4> QED
        BY <4>2, <4>3 DEF s, r
    <3>3. StoppedAt(L, k + 1, k)
      BY <2>5, <3>2 DEF StoppedAt, Got
    <3> QED
      BY <2>1, <3>3
  <2>6. CASE ~Clean(L, k)
    <3>1. PICK j \in 0..k : StoppedAt(L, k, j)
      BY <1>2, <2>1, <2>6
    <3>2. L[k].cut # "whole" => L[k].cut = "inside"
      <4>1. k # 0
        BY <2>6 DEF Clean
      <4>2. k \in 1..(Len(L) - 1)
        BY <4>1
      <4>3. L[k] \in Record /\ L[k].cut # "between"
        BY <4>2
      <4> QED
        BY <4>3 DEF Record
    <3>3. ASSUME NEW t
          PROVE  /\ After(t, L, k + 1).n = After(t, L, k).n /\ After(t, L, k + 1).lost
                 /\ After(t, L, k + 1).mem = After(t, L, k).mem
      <4> DEFINE s == After(t, L, k)
                 r == L[k + 1]
      <4>1. s \in Reading /\ After(t, L, k + 1) = ReadAt(s, r, t)
        BY <2>3
      <4>2. s.lost \/ (s.cut = <<L[k]>> /\ L[k].cut = "inside")
        BY <3>1, <3>2 DEF StoppedAt
      <4> HIDE DEF s, r
      <4>3. CASE s.lost
        <5>1. ReadAt(s, r, t) = s
          BY <4>3 DEF ReadAt
        <5> QED
          BY <4>1, <4>3, <5>1 DEF s
      <4>4. CASE ~s.lost /\ s.cut = <<L[k]>> /\ L[k].cut = "inside"
        <5>1. s.cut # <<>> /\ s.cut[1].cut = "inside"
          BY <4>4
        <5>2. ReadAt(s, r, t) = [s EXCEPT !.lost = TRUE]
          BY <4>4, <5>1 DEF ReadAt
        <5>3. LET u == [s EXCEPT !.lost = TRUE] IN u.mem = s.mem /\ u.lost /\ u.n = s.n
          BY <4>1, ReadingLost
        <5> QED
          BY <4>1, <5>2, <5>3 DEF s
      <4> QED
        BY <4>2, <4>3, <4>4
    <3>4. StoppedAt(L, k + 1, j)
      BY <3>1, <3>3 DEF StoppedAt, Got
    <3>5. j \in 0..(k + 1)
      OBVIOUS
    <3> QED
      BY <2>1, <3>4, <3>5
  <2> QED
    BY <2>4, <2>5, <2>6
<1>3. \A k \in Nat : P(k)
  <2> DEFINE N == {k \in Nat : P(k)}
  <2> HIDE DEF P
  <2>1. 0 \in N /\ \A k \in Nat : k \in N => k + 1 \in N
    BY <1>1, <1>2
  <2>2. Nat \subseteq N
    <3> HIDE DEF N
    <3> QED
      BY <2>1, Induction
  <2> QED
    BY <2>2
<1> HIDE DEF P
<1>4. Len(L) \in Nat /\ P(Len(L)) /\ Len(L) \in 0..Len(L)
  BY <1>3
<1>5. CASE Clean(L, Len(L))
  BY <1>4, <1>5
<1>6. CASE \E j \in 0..Len(L) : StoppedAt(L, Len(L), j)
  BY <1>6 DEF StoppedAt
<1> QED
  BY <1>4, <1>5, <1>6 DEF P

\* A start finds the values of one moment of the past, whatever ended the
\* process before it and wherever the log was cut: appendEvent and _flush keep
\* the order of the mutations, a replay does again what each of them did but
\* for deadlines that have passed since, and what it reads ends at the first
\* cut record; a snapshot is of one moment.  A replay runs every command in one
\* database, so the theorem is about a server that uses that one.
THEOREM StartFindsThePast ==
  ASSUME Db = {Db0}
  PROVE  Spec => RecoveredIsPrefix
<1>1. Init => Recorded /\ Recoverable
  BY InitRecorded, InitRecoverable
<1>2. Recorded /\ Recoverable /\ [Next]_vars => (Recorded /\ Recoverable)'
  BY RecordedStep, RecoverableStep
<1>3. Recorded /\ Recoverable =>
        [Start /\ ~Buried({"between"}) =>
           \A p \in Pair : \/ mem'[p].val = past[Found + 1][p].val
                           \/ mem'[p] = Gone /\ HadDeadline(p, Found)]_vars
  <2> SUFFICES ASSUME Recorded, Recoverable, Start, ~Buried({"between"}), NEW p \in Pair
               PROVE  \/ mem'[p].val = past[Found + 1][p].val
                      \/ mem'[p] = Gone /\ HadDeadline(p, Found)
    OBVIOUS
  <2>1. Takes /\ Typed /\ Counted /\ Faithful /\ Saved
    BY StartTyped DEF Recorded, Recoverable
  <2>2. CASE ~appendonly
    BY <2>1, <2>2 DEF Takes, Saved
  <2>3. CASE appendonly
    <3>1. Log \in Seq(Record) /\ now \in Nat /\ Log = file
      BY <2>1, <2>3, PrefixesTyped DEF Takes
    <3>2. \A i \in 1..(Len(Log) - 1) : Log[i].cut # "between"
      BY <3>1 DEF Buried
    <3>3. PICK j \in 0..Len(Log) : /\ Clean(Log, j) /\ Got(Log, Len(Log)) = Got(Log, j)
                                   /\ \A t : After(t, Log, Len(Log)).mem = After(t, Log, j).mem
      BY <3>1, <3>2, CleanPrefix
    <3>4. Found = Got(Log, j) /\ mem' = After(now, Log, j).mem
      BY <2>1, <2>3, <3>3 DEF Takes
    <3>5. AsPast(past, Log, j, now)
      BY <2>1, <2>3, <3>1, <3>3 DEF Faithful
    <3>6. mem'[p].val = past[Found + 1][p].val \/ (mem'[p] = Gone /\ HadIn(past, p, Found, now))
      BY <3>4, <3>5 DEF AsPast
    <3> QED
      BY <3>6 DEF HadIn, HadDeadline
  <2> QED
    BY <2>2, <2>3
<1> QED
  BY <1>1, <1>2, <1>3, PTL DEF Spec, RecoveredIsPrefix
=============================================================================
