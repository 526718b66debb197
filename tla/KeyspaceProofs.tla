---------------------------- MODULE KeyspaceProofs ----------------------------
(***************************************************************************)
(* What TLAPS proves of the dataset, for any databases, keys, sizes and    *)
(* limits.  A store is followed through the calls of an operation: however *)
(* they expire, evict, write and remove, what the store then holds differs *)
(* from the state before only where a version was moved (Kept); what is    *)
(* refused has only deleted (Shrunk); and under volatile-lru nothing       *)
(* without a deadline is a victim (Spares).  The bytes it counts are sums: *)
(* its tables keep their shapes (Typed), a list is charged at least its    *)
(* bytes (Paid), the books are exact as long as nothing is evicted         *)
(* (Exact), no container is left empty (Filled), and what grew was         *)
(* admitted (Within).                                                      *)
(***************************************************************************)
EXTENDS Keyspace, InductionProofs

\* A record with the fields of Store, whatever they hold.
IsStore(s) ==
  s \in [data : {s.data}, mem : {s.mem}, used : {s.used}, timers : {s.timers},
         lru : {s.lru}, bumped : {s.bumped}, logged : {s.logged}]

\* No deadline without a value; and without eviction, the other tables as well.
TimersStored(s) == DOMAIN s.timers \subseteq DOMAIN s.data /\ DOMAIN s.data \subseteq Pair
Agree(s) == DOMAIN s.mem = DOMAIN s.data /\ s.lru = DOMAIN s.data
Steady == policy = "noeviction" /\ Agree(Store)

\* Do s and t hold the same at p?  Deadlines count but for the pairs of X.
Same(s, t, p, X) ==
  /\ (p \in DOMAIN s.data) <=> (p \in DOMAIN t.data)
  /\ p \in DOMAIN s.data => s.data[p] = t.data[p]
  /\ p \in X \/ ((p \in DOMAIN s.timers) <=> (p \in DOMAIN t.timers))

\* The set S names every pair at which s differs from the state.
Covers(S, s, X) == \A p \in Pair : ~Same(Store, s, p, X) => p \in S

Sound(s) == IsStore(s) /\ TimersStored(s) /\ (Steady => Agree(s))
Kept(s, X) == Sound(s) /\ Covers(s.bumped, s, X)
Recorded(s, X) == Covers(s.logged, s, X)

-----------------------------------------------------------------------------
(* The calls an operation is made of.                                      *)

LEMMA StoreKept ==
  ASSUME NEW X, TimersStored(Store)
  PROVE  Kept(Store, X) /\ Recorded(Store, X)
BY DEF Kept, Recorded, Sound, Steady, IsStore, Covers, Same, Store

\* A change at the pairs of P is covered once they are named.
LEMMA Covering ==
  ASSUME NEW X, NEW s, NEW t, NEW S, NEW T, NEW P, Covers(S, s, X),
         \A p \in Pair \ P : Same(s, t, p, X), S \cup P \subseteq T
  PROVE  Covers(T, t, X)
BY DEF Covers, Same

LEMMA DeleteFields ==
  ASSUME NEW s, IsStore(s), NEW P
  PROVE  LET t == DeleteKeys(s, P)
         IN  /\ IsStore(t)
             /\ t.data = Without(s.data, P) /\ t.timers = Without(s.timers, P)
             /\ t.mem = Without(s.mem, P) /\ t.lru = s.lru \ P
             /\ t.bumped = s.bumped \cup (P \cap DOMAIN s.data)
             /\ t.logged = s.logged \cup (P \cap DOMAIN s.data)
BY DEF DeleteKeys, IsStore, Log, Bump

LEMMA DeleteKept ==
  ASSUME NEW X, NEW s, Kept(s, X), NEW P
  PROVE  Kept(DeleteKeys(s, P), X) /\ (Recorded(s, X) => Recorded(DeleteKeys(s, P), X))
<1> DEFINE t == DeleteKeys(s, P)
           Q == P \cap DOMAIN s.data
<1>1. /\ IsStore(t)
      /\ t.data = Without(s.data, P) /\ t.timers = Without(s.timers, P)
      /\ t.mem = Without(s.mem, P) /\ t.lru = s.lru \ P
      /\ t.bumped = s.bumped \cup Q /\ t.logged = s.logged \cup Q
  BY DeleteFields DEF Kept, Sound
<1> HIDE DEF t
<1>2. Sound(t)
  BY <1>1 DEF Kept, Sound, TimersStored, Agree, Without
<1>3. \A p \in Pair \ Q : Same(s, t, p, X)
  BY <1>1 DEF Kept, Sound, TimersStored, Same, Without
<1> HIDE DEF Q
<1>4. Covers(t.bumped, t, X)
  BY <1>1, <1>3, Covering DEF Kept
<1>5. Recorded(s, X) => Covers(t.logged, t, X)
  BY <1>1, <1>3, Covering DEF Recorded
<1> QED
  BY <1>2, <1>4, <1>5 DEF Kept, Recorded, t

LEMMA ExpiredKept ==
  ASSUME NEW X, NEW s, Kept(s, X), NEW p
  PROVE  Kept(CheckExpired(s, p), X) /\ (Recorded(s, X) => Recorded(CheckExpired(s, p), X))
BY DeleteKept DEF CheckExpired

LEMMA TouchKept ==
  ASSUME NEW X, NEW s, Kept(s, X), NEW p, Has(s, p)
  PROVE  Kept(Touch(s, p), X) /\ (Recorded(s, X) => Recorded(Touch(s, p), X))
BY DEF Kept, Sound, Recorded, IsStore, TimersStored, Agree, Covers, Same, Touch, Has

LEMMA LogKept ==
  ASSUME NEW X, NEW s, Kept(s, X), NEW P
  PROVE  Kept(Log(s, P), X) /\ (Recorded(s, X) => Recorded(Log(s, P), X))
BY DEF Kept, Sound, Recorded, IsStore, TimersStored, Agree, Covers, Same, Log

\* What admission leaves: the store, or the store without its victims.
LEMMA EnforceKept ==
  ASSUME NEW X, NEW s, Kept(s, X), NEW delta
  PROVE  /\ \A a \in Enforce(s, delta) : Kept(a.st, X) /\ (Recorded(s, X) => Recorded(a.st, X))
         /\ \A a \in EnforceGrowth(s, delta) :
              Kept(a.st, X) /\ (Recorded(s, X) => Recorded(a.st, X))
         /\ policy = "noeviction" => \A a \in EnforceGrowth(s, delta) : a.st = s
<1>1. \A a \in Enforce(s, delta) : a.st = s \/ \E E : a.st = DeleteKeys(s, E)
  BY DEF Enforce
<1>2. policy = "noeviction" => \A a \in Enforce(s, delta) : a.st = s
  BY DEF Enforce
<1>3. \A a \in EnforceGrowth(s, delta) : a \in Enforce(s, delta) \/ a.st = s
  BY DEF EnforceGrowth
<1>4. \A E : Kept(DeleteKeys(s, E), X) /\ (Recorded(s, X) => Recorded(DeleteKeys(s, E), X))
  BY DeleteKept
<1> QED
  BY <1>1, <1>2, <1>3, <1>4

\* An operation writes at p once, and names p.
LEMMA WriteKept ==
  ASSUME NEW X, NEW s, Kept(s, X), NEW t, IsStore(t), NEW p \in Pair, NEW v, NEW m, NEW r,
         t.data = Put(s.data, p, v), t.mem = Put(s.mem, p, m),
         t.lru = s.lru \cup {p}, t.bumped = s.bumped \cup {p},
         t.timers = s.timers
  PROVE  Kept(t, X) /\ (Recorded(s, X) /\ t.logged = s.logged \cup {p} => Recorded(t, X))
<1>1. Sound(t)
  BY DEF Kept, Sound, TimersStored, Agree, Put
<1>2. \A q \in Pair \ {p} : Same(s, t, q, X)
  BY DEF Same, Put
<1> QED
  BY <1>1, <1>2, Covering DEF Kept, Recorded

\* The write of one pair, as store.set and the container operations end: the
\* value table becomes d.
Written(s, d, p, m, n) ==
  Log(Bump(Touch([s EXCEPT !.data = d, !.mem = Put(@, p, m), !.used = n], p), {p}), {p})

LEMMA WrittenFields ==
  ASSUME NEW s, IsStore(s), NEW d, NEW p, NEW m, NEW n
  PROVE  LET t == Written(s, d, p, m, n)
         IN  /\ IsStore(t)
             /\ t.data = d /\ t.mem = Put(s.mem, p, m) /\ t.timers = s.timers
             /\ t.lru = s.lru \cup {p}
             /\ t.bumped = s.bumped \cup {p} /\ t.logged = s.logged \cup {p}
BY DEF Written, Log, Bump, Touch, IsStore

LEMMA WrittenKept ==
  ASSUME NEW X, NEW s, Kept(s, X), NEW p \in Pair, NEW v, NEW m, NEW n
  PROVE  LET t == Written(s, Put(s.data, p, v), p, m, n)
         IN  /\ Kept(t, X) /\ (Recorded(s, X) => Recorded(t, X))
             /\ Has(t, p) /\ p \in t.bumped /\ p \in t.logged
<1> DEFINE t == Written(s, Put(s.data, p, v), p, m, n)
<1>1. /\ IsStore(t)
      /\ t.data = Put(s.data, p, v) /\ t.mem = Put(s.mem, p, m) /\ t.timers = s.timers
      /\ t.lru = s.lru \cup {p}
      /\ t.bumped = s.bumped \cup {p} /\ t.logged = s.logged \cup {p}
  BY WrittenFields DEF Kept, Sound
<1> HIDE DEF t
<1>2. Kept(t, X) /\ (Recorded(s, X) => Recorded(t, X))
  BY <1>1, WriteKept
<1>3. Has(t, p)
  BY <1>1 DEF Has, Put
<1> QED
  BY <1>1, <1>2, <1>3 DEF t

\* store.set: refused, or written and named.
LEMMA StoreSetKept ==
  ASSUME NEW X, NEW s, Kept(s, X), NEW p \in Pair, NEW v
  PROVE  \A o \in StoreSet(s, p, v) :
           /\ Kept(o.st, X) /\ (Recorded(s, X) => Recorded(o.st, X))
           /\ o.reply = "ok" => Has(o.st, p) /\ p \in o.st.bumped /\ p \in o.st.logged
<1> DEFINE delta == Bytes(p, v) - MemOf(s, p)
           W(t) == Written(t, Put(t.data, p, v), p, Bytes(p, v), AtLeast0(t.used + delta))
<1>1. \A o \in StoreSet(s, p, v) : \E a \in Enforce(s, delta) :
        o = IF a.full THEN Outcome(a.st, "oom") ELSE Outcome(W(a.st), "ok")
  BY DEF StoreSet, Written
<1>2. \A a \in Enforce(s, delta) :
        /\ Kept(a.st, X) /\ (Recorded(s, X) => Recorded(a.st, X))
        /\ Kept(W(a.st), X) /\ (Recorded(a.st, X) => Recorded(W(a.st), X))
        /\ Has(W(a.st), p) /\ p \in W(a.st).bumped /\ p \in W(a.st).logged
  <2> SUFFICES ASSUME NEW a \in Enforce(s, delta)
               PROVE  /\ Kept(a.st, X) /\ (Recorded(s, X) => Recorded(a.st, X))
                      /\ Kept(W(a.st), X) /\ (Recorded(a.st, X) => Recorded(W(a.st), X))
                      /\ Has(W(a.st), p) /\ p \in W(a.st).bumped /\ p \in W(a.st).logged
    OBVIOUS
  <2>1. Kept(a.st, X) /\ (Recorded(s, X) => Recorded(a.st, X))
    BY EnforceKept
  <2> QED
    BY <2>1, WrittenKept
<1> HIDE DEF W, delta
<1> QED
  BY <1>1, <1>2 DEF Outcome

\* The deadline of a pair already written may come, go or stay.
LEMMA RetimedKept ==
  ASSUME NEW X, NEW s, Kept(s, X), NEW p, Has(s, p), p \in s.bumped, NEW f,
         DOMAIN f \ {p} = DOMAIN s.timers \ {p}
  PROVE  LET t == [s EXCEPT !.timers = f]
         IN  Kept(t, X) /\ (Recorded(s, X) /\ p \in s.logged => Recorded(t, X))
<1> DEFINE t == [s EXCEPT !.timers = f]
<1>1. /\ IsStore(t) /\ t.timers = f
      /\ t.data = s.data /\ t.mem = s.mem /\ t.lru = s.lru
      /\ t.bumped = s.bumped /\ t.logged = s.logged
  BY DEF Kept, Sound, IsStore
<1> HIDE DEF t
<1>2. Sound(t)
  BY <1>1 DEF Kept, Sound, TimersStored, Agree, Has
<1>3. \A q \in Pair \ {p} : Same(s, t, q, X)
  BY <1>1 DEF Same
<1> QED
  BY <1>1, <1>2, <1>3, Covering DEF Kept, Recorded, t

LEMMA SeenKept ==
  ASSUME NEW X, NEW s, Kept(s, X), NEW p
  PROVE  LET t == IF Has(s, p) THEN Touch(s, p) ELSE s
         IN  Kept(t, X) /\ (Recorded(s, X) => Recorded(t, X))
BY TouchKept

-----------------------------------------------------------------------------
(* The operations.                                                         *)

LEMMA SetKept ==
  ASSUME NEW X, Kept(Store, X), Recorded(Store, X), NEW p \in Pair, NEW size,
         NEW ttl \in {"none", "keep", "ex", "past"}
  PROVE  \A o \in Set(p, size, ttl) : Kept(o.st, X) /\ Recorded(o.st, X)
<1> DEFINE s == CheckExpired(Store, p)
           seen == IF Has(s, p) THEN Touch(s, p) ELSE s
           WithTtl(t) ==
             CASE ttl = "past" -> DeleteKeys(t, {p})
               [] ttl = "keep" -> IF p \in DOMAIN s.timers
                                  THEN [t EXCEPT !.timers = Put(@, p, s.timers[p])] ELSE t
               [] ttl = "ex"   -> [t EXCEPT !.timers = Put(@, p, "live")]
               [] ttl = "none" -> [t EXCEPT !.timers = Without(@, {p})]
<1>1. Kept(s, X) /\ Recorded(s, X)
  BY ExpiredKept
<1>2. Kept(seen, X) /\ Recorded(seen, X)
  BY <1>1, SeenKept
<1>3. ASSUME NEW t, Kept(t, X), Recorded(t, X), Has(t, p), p \in t.bumped, p \in t.logged
      PROVE  Kept(WithTtl(t), X) /\ Recorded(WithTtl(t), X)
  <2>0. \A v : DOMAIN Put(t.timers, p, v) \ {p} = DOMAIN t.timers \ {p}
    BY DEF Put
  <2>1. \A v : LET u == [t EXCEPT !.timers = Put(t.timers, p, v)] IN Kept(u, X) /\ Recorded(u, X)
    BY <1>3, <2>0, RetimedKept
  <2>2. DOMAIN Without(t.timers, {p}) \ {p} = DOMAIN t.timers \ {p}
    BY DEF Without
  <2>3. LET u == [t EXCEPT !.timers = Without(t.timers, {p})] IN Kept(u, X) /\ Recorded(u, X)
    BY <1>3, <2>2, RetimedKept
  <2>4. LET u == DeleteKeys(t, {p}) IN Kept(u, X) /\ Recorded(u, X)
    BY <1>3, DeleteKept
  <2>5. CASE ttl = "past"
    BY <2>4, <2>5
  <2>6. CASE ttl = "keep"
    BY <1>3, <2>1, <2>6
  <2>7. CASE ttl = "ex"
    BY <2>1, <2>7
  <2>8. CASE ttl = "none"
    BY <2>3, <2>8
  <2> QED
    BY <2>5, <2>6, <2>7, <2>8
<1>4. \A o \in Set(p, size, ttl) :
        \/ o = Outcome(s, "wrongtype") \/ o = Outcome(seen, "nil")
        \/ \E r \in StoreSet(seen, p, Str(size)) :
             o = IF r.reply = "ok" THEN Outcome(WithTtl(r.st), "ok") ELSE r
  BY DEF Set
<1> HIDE DEF s, seen, WithTtl
<1> QED
  BY <1>1, <1>2, <1>3, <1>4, StoreSetKept DEF Outcome

LEMMA RewriteKept ==
  ASSUME NEW X, Kept(Store, X), Recorded(Store, X), NEW p \in Pair, NEW size
  PROVE  \A o \in Rewrite(p, size) : Kept(o.st, X) /\ Recorded(o.st, X)
<1> DEFINE s == CheckExpired(Store, p)
           seen == IF Has(s, p) THEN Touch(s, p) ELSE s
<1>1. Kept(s, X) /\ Recorded(s, X)
  BY ExpiredKept
<1>2. Kept(seen, X) /\ Recorded(seen, X)
  BY <1>1, SeenKept
<1>3. \A o \in Rewrite(p, size) : o.st = s \/ o \in StoreSet(seen, p, Str(size))
  BY DEF Rewrite, Outcome
<1> HIDE DEF s, seen
<1> QED
  BY <1>1, <1>2, <1>3, StoreSetKept

\* A container operation: the container it read may be gone when it stores, and
\* then what it stores is lost, but the version moves all the same.
LEMMA InsertKept ==
  ASSUME NEW X, NEW s, Kept(s, X), Recorded(s, X), NEW p \in Pair, NEW type, NEW items, NEW delta
  PROVE  \A o \in Insert(s, p, type, items, delta) : Kept(o.st, X) /\ Recorded(o.st, X)
<1> DEFINE v == [type |-> type, items |-> items]
           W(t) == Written(t, IF Has(s, p) /\ ~Has(t, p) THEN t.data ELSE Put(t.data, p, v),
                           p, AtLeast0(MemOf(t, p) + delta), AtLeast0(t.used + delta))
<1>1. \A o \in Insert(s, p, type, items, delta) :
        \/ o.st = s
        \/ \E a \in EnforceGrowth(s, delta) : o.st = a.st \/ o.st = W(a.st)
  <2>1. \A o \in Insert(s, p, type, items, delta) :
          \/ o = Outcome(s, "wrongtype")
          \/ \E a \in EnforceGrowth(s, delta) :
               o = IF a.full THEN Outcome(a.st, "oom") ELSE Outcome(W(a.st), "ok")
    BY DEF Insert, Written
  <2> HIDE DEF W
  <2> QED
    BY <2>1 DEF Outcome
<1>2. ASSUME NEW a \in EnforceGrowth(s, delta)
      PROVE  Kept(W(a.st), X) /\ Recorded(W(a.st), X)
  <2>1. Kept(a.st, X) /\ Recorded(a.st, X) /\ (policy = "noeviction" => a.st = s)
    BY EnforceKept
  <2>2. CASE Has(s, p) /\ ~Has(a.st, p)
    <3> DEFINE t == W(a.st)
    <3>0. t = Written(a.st, a.st.data, p, AtLeast0(MemOf(a.st, p) + delta),
                      AtLeast0(a.st.used + delta))
      BY <2>2
    <3>1. /\ IsStore(t)
          /\ t.data = a.st.data /\ t.timers = a.st.timers
          /\ t.bumped = a.st.bumped \cup {p} /\ t.logged = a.st.logged \cup {p}
      <4> HIDE DEF t
      <4> QED BY <2>1, <3>0, WrittenFields DEF Kept, Sound
    <3> HIDE DEF t
    <3>2. Sound(t)
      BY <2>1, <2>2, <3>1 DEF Kept, Sound, TimersStored, Steady
    <3>3. \A q \in Pair \ {p} : Same(a.st, t, q, X)
      BY <3>1 DEF Same
    <3>4. Covers(a.st.bumped, a.st, X) /\ Covers(a.st.logged, a.st, X)
      BY <2>1 DEF Kept, Recorded
    <3>5. a.st.bumped \cup {p} \subseteq t.bumped /\ a.st.logged \cup {p} \subseteq t.logged
      BY <3>1
    <3>6. Covers(t.bumped, t, X) /\ Covers(t.logged, t, X)
      BY <3>3, <3>4, <3>5, Covering
    <3> QED
      BY <3>2, <3>6 DEF Kept, Recorded, t
  <2>3. CASE ~(Has(s, p) /\ ~Has(a.st, p))
    BY <2>1, <2>3, WrittenKept
  <2> QED
    BY <2>2, <2>3
<1> HIDE DEF W
<1> QED
  BY <1>1, <1>2, EnforceKept

LEMMA PushKept ==
  ASSUME NEW X, Kept(Store, X), Recorded(Store, X), NEW p \in Pair, NEW added
  PROVE  \A o \in Push(p, added) : Kept(o.st, X) /\ Recorded(o.st, X)
BY ExpiredKept, InsertKept DEF Push

LEMMA HsetKept ==
  ASSUME NEW X, Kept(Store, X), Recorded(Store, X), NEW p \in Pair, NEW pairs
  PROVE  \A o \in Hset(p, pairs) : Kept(o.st, X) /\ Recorded(o.st, X)
BY ExpiredKept, InsertKept DEF Hset

LEMMA AddKept ==
  ASSUME NEW X, Kept(Store, X), Recorded(Store, X), NEW p \in Pair, NEW S, NEW xx
  PROVE  /\ \A o \in SetAdd(p, S) : Kept(o.st, X) /\ Recorded(o.st, X)
         /\ \A o \in ZsetAdd(p, S, xx) : Kept(o.st, X) /\ Recorded(o.st, X)
BY ExpiredKept, InsertKept DEF AddMembers, SetAdd, ZsetAdd

\* A removal writes what is left, or deletes the key with its last element.
LEMMA RemoveKept ==
  ASSUME NEW X, Kept(Store, X), Recorded(Store, X), NEW p \in Pair, NEW type, NEW members
  PROVE  \A o \in Remove(p, type, members) : Kept(o.st, X) /\ Recorded(o.st, X)
<1> DEFINE s == CheckExpired(Store, p)
           gone == members \cap DOMAIN ItemsOf(s, p)
           left == Without(ItemsOf(s, p), gone)
           freed == MapThenSumSet(LAMBDA x : ItemsOf(s, p)[x], gone)
           W == Written(s, Put(s.data, p, [type |-> type, items |-> left]), p,
                        AtLeast0(MemOf(s, p) - freed), AtLeast0(s.used - freed))
<1>1. Kept(s, X) /\ Recorded(s, X)
  BY ExpiredKept
<1>2. \A o \in Remove(p, type, members) :
        \/ o = Outcome(s, "wrongtype") \/ o = Outcome(s, "nil")
        \/ o = Outcome(Log(DeleteKeys(s, {p}), {p}), "ok")
        \/ o = Outcome(W, "ok")
  BY DEF Remove, Written
<1>3. Kept(W, X) /\ Recorded(W, X)
  BY <1>1, WrittenKept
<1>4. Kept(Log(DeleteKeys(s, {p}), {p}), X) /\ Recorded(Log(DeleteKeys(s, {p}), {p}), X)
  BY <1>1, DeleteKept, LogKept
<1> HIDE DEF W, s
<1> QED
  BY <1>1, <1>2, <1>3, <1>4 DEF Outcome

LEMMA RemovalsKept ==
  ASSUME NEW X, Kept(Store, X), Recorded(Store, X), NEW p \in Pair, NEW S
  PROVE  \A o \in ListPop(p, S) \cup HashDelete(p, S) \cup SetRemove(p, S) \cup ZsetRemove(p, S) :
           Kept(o.st, X) /\ Recorded(o.st, X)
BY RemoveKept DEF ListPop, HashDelete, SetRemove, ZsetRemove

\* LSET and LREM change a value in place and record nothing.
LEMMA MarkedKept ==
  ASSUME NEW X, NEW s, Kept(s, X), NEW p \in Pair, NEW v
  PROVE  Kept(MarkDirty(s, p, v), X)
<1> DEFINE t == MarkDirty(s, p, v)
<1>1. /\ IsStore(t)
      /\ t.data = Put(s.data, p, v) /\ t.mem = Put(s.mem, p, Bytes(p, v))
      /\ t.timers = s.timers /\ t.lru = s.lru \cup {p} /\ t.bumped = s.bumped \cup {p}
  BY DEF Kept, Sound, IsStore, MarkDirty, Bump, Touch
<1> HIDE DEF t
<1> QED
  BY <1>1, WriteKept DEF t

LEMMA LsetKept ==
  ASSUME NEW X, Kept(Store, X), Recorded(Store, X), NEW p \in Pair, NEW e, NEW size
  PROVE  \A o \in Lset(p, e, size) : Kept(o.st, X)
<1> DEFINE s == CheckExpired(Store, p)
           seen == IF Has(s, p) THEN Touch(s, p) ELSE s
<1>1. Kept(s, X) /\ Kept(seen, X)
  BY ExpiredKept, SeenKept
<1>2. \A o \in Lset(p, e, size) :
        \/ o = Outcome(s, "wrongtype") \/ o = Outcome(seen, "nil")
        \/ o = Outcome(MarkDirty(s, p, [s.data[p] EXCEPT !.items[e] = size]), "ok")
  BY DEF Lset
<1> HIDE DEF s, seen
<1> QED
  BY <1>1, <1>2, MarkedKept DEF Outcome

LEMMA LremKept ==
  ASSUME NEW X, Kept(Store, X), Recorded(Store, X), NEW p \in Pair, NEW equal
  PROVE  \A o \in Lrem(p, equal) : Kept(o.st, X)
<1> DEFINE s == CheckExpired(Store, p)
           seen == IF Has(s, p) THEN Touch(s, p) ELSE s
           left == Without(ItemsOf(s, p), equal \cap DOMAIN ItemsOf(s, p))
           t == MarkDirty(seen, p, [type |-> "list", items |-> left])
<1>1. Kept(s, X) /\ Kept(seen, X)
  BY ExpiredKept, SeenKept
<1>2. \A o \in Lrem(p, equal) :
        \/ o = Outcome(s, "wrongtype") \/ o = Outcome(seen, "nil")
        \/ o = Outcome(t, "ok") \/ o = Outcome(DeleteKeys(t, {p}), "ok")
  BY DEF Lrem
<1>3. Kept(t, X) /\ Kept(DeleteKeys(t, {p}), X)
  BY <1>1, MarkedKept, DeleteKept
<1> HIDE DEF s, seen, t
<1> QED
  BY <1>1, <1>2, <1>3 DEF Outcome

\* MSET clears the deadlines of its pairs even where the store refused a value.
LEMMA UntimedKept ==
  ASSUME NEW X, NEW s, Kept(s, X), NEW p \in X
  PROVE  LET t == [s EXCEPT !.timers = Without(@, {p})]
         IN  Kept(t, X) /\ (Recorded(s, X) => Recorded(t, X))
<1> DEFINE t == [s EXCEPT !.timers = Without(@, {p})]
<1>1. /\ IsStore(t) /\ t.timers = Without(s.timers, {p})
      /\ t.data = s.data /\ t.mem = s.mem /\ t.lru = s.lru
      /\ t.bumped = s.bumped /\ t.logged = s.logged
  BY DEF Kept, Sound, IsStore
<1> HIDE DEF t
<1>2. Sound(t)
  BY <1>1 DEF Kept, Sound, TimersStored, Agree, Without
<1>3. \A S : Covers(S, s, X) => Covers(S, t, X)
  BY <1>1 DEF Covers, Same, Without
<1> QED
  BY <1>1, <1>2, <1>3 DEF Kept, Recorded, t

LEMMA MsetKept ==
  ASSUME NEW X, Kept(Store, X), Recorded(Store, X), NEW p \in Pair \cap X, NEW q \in Pair \cap X,
         NEW m, NEW n
  PROVE  \A o \in Mset(p, m, q, n) : Kept(o.st, X) /\ Recorded(o.st, X)
<1> DEFINE Step(t, x, size) == {[r.st EXCEPT !.timers = Without(@, {x})] :
                                  r \in StoreSet(t, x, Str(size))}
           Delta(x, size) == Bytes(x, Str(size)) - MemOf(Store, x)
           A == EnforceGrowth(Store, Delta(p, m) + Delta(q, n))
<1>1. ASSUME NEW t, Kept(t, X), Recorded(t, X), NEW x \in Pair \cap X, NEW size
      PROVE  \A u \in Step(t, x, size) : Kept(u, X) /\ Recorded(u, X)
  <2>1. \A r \in StoreSet(t, x, Str(size)) : Kept(r.st, X) /\ Recorded(r.st, X)
    BY <1>1, StoreSetKept
  <2>2. \A r \in StoreSet(t, x, Str(size)) :
          LET u == [r.st EXCEPT !.timers = Without(@, {x})] IN Kept(u, X) /\ Recorded(u, X)
    BY <2>1, UntimedKept
  <2> QED
    BY <2>2
<1>2. \A a \in A : Kept(a.st, X) /\ Recorded(a.st, X)
  BY EnforceKept
<1>3. \A o \in Mset(p, m, q, n) : \E a \in A :
        \/ o = Outcome(a.st, "oom")
        \/ \E u \in UNION {Step(t, q, n) : t \in Step(a.st, p, m)} : o = Outcome(u, "ok")
  BY DEF Mset
<1> HIDE DEF Step, A
<1>4. \A a \in A : \A u \in UNION {Step(t, q, n) : t \in Step(a.st, p, m)} :
        Kept(u, X) /\ Recorded(u, X)
  BY <1>1, <1>2
<1> QED
  BY <1>2, <1>3, <1>4 DEF Outcome

\* RENAME reads the source before admission, and writes it whatever happened.
LEMMA RenameKept ==
  ASSUME NEW X, Kept(Store, X), Recorded(Store, X), NEW from \in Pair, NEW to \in Pair
  PROVE  \A o \in Rename(from, to) : Kept(o.st, X) /\ Recorded(o.st, X)
<1> DEFINE s == DeleteKeys(Store, {p \in {from, to} : p \in DOMAIN timers
                                                     /\ timers[p] = "elapsed"})
           delta == RenameDelta(s, from, to)
           indexed(t) == IF Has(t, to) THEN {from, to} ELSE {from}
           ttl(t) == Without(t.timers, indexed(t))
           Moved(t) ==
             [t EXCEPT
              !.data = Put(Without(@, {from}), to, s.data[from]),
              !.mem = Put(Without(@, {from}), to, Bytes(to, s.data[from])),
              !.used = AtLeast0(@ + delta),
              !.lru = (@ \ indexed(t)) \cup {to},
              !.timers = IF from \in DOMAIN s.timers
                         THEN Put(ttl(t), to, s.timers[from]) ELSE ttl(t)]
           W(t) == Log(Bump(Moved(t), {from, to}), {from, to})
<1>1. Kept(s, X) /\ Recorded(s, X)
  BY DeleteKept
<1>2. \A o \in Rename(from, to) :
        \/ o = Outcome(s, "nil") \/ o = Outcome(s, "ok")
        \/ \E a \in EnforceGrowth(s, delta) :
             \/ o = Outcome(a.st, "oom")
             \/ from # to /\ o = Outcome(W(a.st), "ok")
  BY DEF Rename, Renamed
<1> HIDE DEF s, delta
<1>3. ASSUME NEW t, Kept(t, X), Recorded(t, X), from # to
      PROVE  Kept(W(t), X) /\ Recorded(W(t), X)
  <2> DEFINE u == W(t)
  <2>1. /\ IsStore(u)
        /\ u.data = Put(Without(t.data, {from}), to, s.data[from])
        /\ u.mem = Put(Without(t.mem, {from}), to, Bytes(to, s.data[from]))
        /\ u.lru = (t.lru \ indexed(t)) \cup {to}
        /\ u.timers = IF from \in DOMAIN s.timers
                      THEN Put(ttl(t), to, s.timers[from]) ELSE ttl(t)
        /\ u.bumped = t.bumped \cup {from, to} /\ u.logged = t.logged \cup {from, to}
    <3> HIDE DEF indexed, ttl
    <3> QED BY <1>3 DEF Kept, Sound, IsStore, Log, Bump
  <2>2. DOMAIN ttl(t) = DOMAIN t.timers \ {from, to}
    BY <1>3 DEF Kept, Sound, TimersStored, Has, Without
  <2>3. DOMAIN u.timers \ {to} = DOMAIN t.timers \ {from, to}
    <3> HIDE DEF u, ttl
    <3> QED BY <2>1, <2>2 DEF Put
  <2>4. DOMAIN u.data = (DOMAIN t.data \ {from}) \cup {to}
    <3> HIDE DEF u
    <3> QED BY <2>1, <1>3 DEF Put, Without
  <2>5. \A p \in Pair \ {from, to} : p \in DOMAIN t.data => u.data[p] = t.data[p]
    <3> HIDE DEF u
    <3> QED BY <2>1 DEF Put, Without
  <2>6. Steady => DOMAIN u.mem = DOMAIN u.data /\ u.lru = DOMAIN u.data
    <3> HIDE DEF u
    <3> QED BY <2>1, <2>4, <1>3 DEF Kept, Sound, Agree, Put, Without, Has
  <2> HIDE DEF u
  <2>7. Sound(u)
    BY <2>1, <2>3, <2>4, <2>6, <1>3 DEF Kept, Sound, TimersStored, Agree
  <2>8. \A p \in Pair \ {from, to} : Same(t, u, p, X)
    BY <2>3, <2>4, <2>5 DEF Same
  <2>9. t.bumped \cup {from, to} \subseteq u.bumped /\ t.logged \cup {from, to} \subseteq u.logged
    BY <2>1
  <2>10. Covers(u.bumped, u, X)
    BY <1>3, <2>8, <2>9, Covering DEF Kept
  <2>11. Covers(u.logged, u, X)
    BY <1>3, <2>8, <2>9, Covering DEF Recorded
  <2> QED
    BY <2>7, <2>10, <2>11 DEF Kept, Recorded, u
<1> HIDE DEF W
<1> QED
  BY <1>1, <1>2, <1>3, EnforceKept DEF Outcome

LEMMA GetKept ==
  ASSUME NEW X, Kept(Store, X), Recorded(Store, X), NEW p \in Pair
  PROVE  \A o \in Get(p) : Kept(o.st, X) /\ Recorded(o.st, X)
<1>1. \A s : LET t == IF Has(s, p) THEN Touch(s, p) ELSE s
             IN  Kept(s, X) /\ Recorded(s, X) => Kept(t, X) /\ Recorded(t, X)
  BY SeenKept
<1> QED
  BY <1>1, ExpiredKept DEF Get, Outcome

\* DEL, a scan and the sweep delete and do nothing else.
LEMMA DeletionsKept ==
  ASSUME NEW X, Kept(Store, X), Recorded(Store, X)
  PROVE  /\ \A p : \A o \in Del(p) : Kept(o.st, X) /\ Recorded(o.st, X)
         /\ \A db : \A o \in Scan(db) : Kept(o.st, X) /\ Recorded(o.st, X)
         /\ \A o \in Sweep : Kept(o.st, X) /\ Recorded(o.st, X)
<1>1. \A P : Kept(DeleteKeys(Store, P), X) /\ Recorded(DeleteKeys(Store, P), X)
  BY DeleteKept
<1>2. \A o \in Sweep : \E P : o = Outcome(DeleteKeys(Store, P), "ok")
  BY DEF Sweep
<1> QED
  BY <1>1, <1>2 DEF Del, Scan, Outcome

\* EXPIRE and PERSIST change a deadline and name its pair.
LEMMA DeadlineKept ==
  ASSUME NEW X, NEW s, Kept(s, X), Recorded(s, X), NEW p \in Pair, Has(s, p), NEW f,
         DOMAIN f \ {p} = DOMAIN s.timers \ {p}
  PROVE  LET t == Log(Bump(Touch([s EXCEPT !.timers = f], p), {p}), {p})
         IN  Kept(t, X) /\ Recorded(t, X)
<1> DEFINE t == Log(Bump(Touch([s EXCEPT !.timers = f], p), {p}), {p})
<1>1. /\ IsStore(t) /\ t.timers = f
      /\ t.data = s.data /\ t.mem = s.mem /\ t.lru = s.lru \cup {p}
      /\ t.bumped = s.bumped \cup {p} /\ t.logged = s.logged \cup {p}
  BY DEF Kept, Sound, IsStore, Log, Bump, Touch
<1> HIDE DEF t
<1>2. Sound(t)
  BY <1>1 DEF Kept, Sound, TimersStored, Agree, Has
<1>3. \A q \in Pair \ {p} : Same(s, t, q, X)
  BY <1>1 DEF Same
<1>4. Covers(t.bumped, t, X)
  BY <1>1, <1>3, Covering DEF Kept
<1>5. Covers(t.logged, t, X)
  BY <1>1, <1>3, Covering DEF Recorded
<1> QED
  BY <1>2, <1>4, <1>5 DEF Kept, Recorded, t

LEMMA ExpireKept ==
  ASSUME NEW X, Kept(Store, X), Recorded(Store, X), NEW p \in Pair, NEW past \in BOOLEAN
  PROVE  \A o \in Expire(p, past) : Kept(o.st, X) /\ Recorded(o.st, X)
<1> DEFINE s == CheckExpired(Store, p)
           t == Log(Bump(Touch([s EXCEPT !.timers = Put(@, p, "live")], p), {p}), {p})
<1>1. Kept(s, X) /\ Recorded(s, X)
  BY ExpiredKept
<1>2. \A o \in Expire(p, past) :
        \/ o = Outcome(s, "nil") \/ o = Outcome(DeleteKeys(s, {p}), "ok")
        \/ Has(s, p) /\ o = Outcome(t, "ok")
  BY DEF Expire
<1> HIDE DEF s
<1>3. DOMAIN Put(s.timers, p, "live") \ {p} = DOMAIN s.timers \ {p}
  BY DEF Put
<1>4. Has(s, p) => Kept(t, X) /\ Recorded(t, X)
  BY <1>1, <1>3, DeadlineKept
<1> HIDE DEF t
<1> QED
  BY <1>1, <1>2, <1>4, DeleteKept DEF Outcome

LEMMA PersistKept ==
  ASSUME NEW X, Kept(Store, X), Recorded(Store, X), NEW p \in Pair
  PROVE  \A o \in Persist(p) : Kept(o.st, X) /\ Recorded(o.st, X)
<1> DEFINE s == CheckExpired(Store, p)
           t == Log(Bump(Touch([s EXCEPT !.timers = Without(@, {p})], p), {p}), {p})
<1>1. Kept(s, X) /\ Recorded(s, X)
  BY ExpiredKept
<1>2. \A o \in Persist(p) : o = Outcome(s, "nil") \/ (Has(s, p) /\ o = Outcome(t, "ok"))
  BY DEF Persist
<1> HIDE DEF s
<1>3. DOMAIN Without(s.timers, {p}) \ {p} = DOMAIN s.timers \ {p}
  BY DEF Without
<1>4. Has(s, p) => Kept(t, X) /\ Recorded(t, X)
  BY <1>1, <1>3, DeadlineKept
<1> HIDE DEF t
<1> QED
  BY <1>1, <1>2, <1>4 DEF Outcome

\* FLUSHDB and FLUSHALL clear every table of the databases and name every key.
LEMMA FlushKept ==
  ASSUME NEW X, Kept(Store, X), Recorded(Store, X), NEW P \in SUBSET Pair, NEW n
  PROVE  LET t == Log(Bump([Cleared(Store, P) EXCEPT !.used = n], P), P)
         IN  Kept(t, X) /\ Recorded(t, X)
<1> DEFINE t == Log(Bump([Cleared(Store, P) EXCEPT !.used = n], P), P)
<1>1. /\ IsStore(t)
      /\ t.data = Without(data, P) /\ t.timers = Without(timers, P)
      /\ t.mem = Without(keyMemories, P) /\ t.lru = lru \ P
      /\ t.bumped = P /\ t.logged = P
  BY DEF IsStore, Store, Cleared, Log, Bump
<1>2. /\ Store.data = data /\ Store.timers = timers /\ Store.mem = keyMemories
      /\ Store.lru = lru /\ Store.bumped = {} /\ Store.logged = {}
  BY DEF Store
<1> HIDE DEF t
<1>3. Sound(t)
  BY <1>1, <1>2 DEF Kept, Sound, TimersStored, Agree, Without
<1>4. \A q \in Pair \ P : Same(Store, t, q, X)
  BY <1>1, <1>2 DEF Same, Without
<1> QED
  BY <1>1, <1>3, <1>4 DEF Kept, Recorded, Covers, t

\* SWAPDB names every key of both databases, and records nothing.
LEMMA SwapKept ==
  ASSUME NEW X, Kept(Store, X), NEW a \in Db, NEW b \in Db
  PROVE  \A o \in SwapDb(a, b) : Kept(o.st, X)
<1> DEFINE Swapped(f) == [p \in {Other(q, a, b) : q \in DOMAIN f} |-> f[Other(p, a, b)]]
           P == {a, b} \X Key
           t == Bump([Store EXCEPT !.data = Swapped(@), !.mem = Swapped(@),
                                   !.timers = Swapped(@), !.lru = SwappedPool(@, a, b)], P)
<1>1. /\ IsStore(t)
      /\ t.data = Swapped(data) /\ t.timers = Swapped(timers) /\ t.mem = Swapped(keyMemories)
      /\ t.lru = {Other(q, a, b) : q \in lru} /\ t.bumped = P
  <2> HIDE DEF Swapped, P
  <2> QED BY DEF IsStore, Store, Bump, SwappedPool
<1>2. \A o \in SwapDb(a, b) : o = Outcome(t, "ok")
  BY DEF SwapDb
<1>3. /\ Store.data = data /\ Store.timers = timers /\ Store.mem = keyMemories
      /\ Store.lru = lru /\ Store.bumped = {}
  BY DEF Store
<1>4. DOMAIN timers \subseteq DOMAIN data /\ DOMAIN data \subseteq Pair
  BY <1>3 DEF Kept, Sound, TimersStored
<1>5. /\ \A p \in Pair : Other(p, a, b) \in Pair
      /\ \A p \in Pair \ P : Other(p, a, b) = p
      /\ \A p \in Pair : Other(p, a, b) \in Pair \ P => p \in Pair \ P
  BY DEF Other, Pair
<1> HIDE DEF t
<1>6. Sound(t)
  BY <1>1, <1>3, <1>4, <1>5 DEF Kept, Sound, TimersStored, Agree
<1>7. \A p \in Pair \ P : Same(Store, t, p, X)
  BY <1>1, <1>3, <1>4, <1>5 DEF Same
<1>8. Covers(t.bumped, t, X)
  BY <1>1, <1>7 DEF Covers
<1> QED
  BY <1>2, <1>6, <1>8 DEF Kept, Outcome

-----------------------------------------------------------------------------
(* The steps.                                                              *)

Stored == DOMAIN timers \subseteq DOMAIN data /\ DOMAIN data \subseteq Pair
Matched == DOMAIN keyMemories = DOMAIN data /\ lru = DOMAIN data

VersionStep ==
  \A p \in Pair : Changed(p) \/ (TtlChanged(p) /\ last'.call # "mset") => p \in last'.bumped
LogStep ==
  last'.call \notin {"lset", "lrem", "swapdb"} =>
    \A p \in Pair :
      Changed(p) \/ (TtlChanged(p) /\ last'.call \notin {"set", "mset"}) =>
        p \in last'.logged

StepOK ==
  /\ Stored' /\ VersionStep /\ LogStep
  /\ policy = "noeviction" /\ Matched => Matched'

LEMMA StoredKept ==
  ASSUME NEW X, Stored
  PROVE  Kept(Store, X) /\ Recorded(Store, X)
<1>1. TimersStored(Store)
  BY DEF Stored, TimersStored, Store
<1> QED
  BY <1>1, StoreKept

\* A step that takes an outcome an operation keeps; X is empty but for MSET.
LEMMA DoOK ==
  ASSUME NEW X, NEW call, NEW P, NEW outcomes, Do(call, P, outcomes),
         \A o \in outcomes : Kept(o.st, X),
         \/ \A o \in outcomes : Recorded(o.st, X)
         \/ call \in {"lset", "lrem", "swapdb"},
         X = {} \/ call = "mset"
  PROVE  StepOK
<1> PICK o \in outcomes :
      /\ data' = o.st.data /\ keyMemories' = o.st.mem /\ timers' = o.st.timers
      /\ lru' = o.st.lru
      /\ last' = [call |-> call, keys |-> P, reply |-> o.reply,
                  bumped |-> o.st.bumped, logged |-> o.st.logged]
  BY DEF Do
<1>1. /\ Store.data = data /\ Store.timers = timers /\ Store.mem = keyMemories
      /\ Store.lru = lru
  BY DEF Store
<1>2. Stored'
  BY DEF Kept, Sound, TimersStored, Stored
<1>3. policy = "noeviction" /\ Matched => Matched'
  BY <1>1 DEF Kept, Sound, Steady, Agree, Matched
<1>4. VersionStep
  BY <1>1 DEF Kept, Covers, Same, VersionStep, Changed, TtlChanged
<1>5. LogStep
  BY <1>1 DEF Recorded, Covers, Same, LogStep, Changed, TtlChanged
<1> QED
  BY <1>2, <1>3, <1>4, <1>5 DEF StepOK

LEMMA CommandsOK ==
  ASSUME Stored, NEW p \in Pair, Commands(p)
  PROVE  StepOK
<1> Kept(Store, {}) /\ Recorded(Store, {})
  BY StoredKept
<1>1. CASE \E size \in Size, ttl \in {"none", "keep", "ex", "past"} :
             Do("set", {p}, Set(p, size, ttl))
  BY <1>1, SetKept, DoOK
<1>2. CASE \E size \in Size : Do("incr", {p}, Rewrite(p, size))
  BY <1>2, RewriteKept, DoOK
<1>3. CASE \E S \in (SUBSET Elem) \ {{}} : \E added \in [S -> Size] :
             Do("push", {p}, Push(p, added))
  BY <1>3, PushKept, DoOK
<1>4. CASE \E n \in 1..2 : \E pairs \in [1..n -> Elem \X Size] :
             Do("hset", {p}, Hset(p, pairs))
  BY <1>4, HsetKept, DoOK
<1>5. CASE \E S \in (SUBSET Elem) \ {{}} :
             \/ Do("sadd", {p}, SetAdd(p, S))
             \/ Do("zadd", {p}, ZsetAdd(p, S, FALSE))
             \/ Do("zaddxx", {p}, ZsetAdd(p, S, TRUE))
  <2>1. \A S : \A o \in SetAdd(p, S) : Kept(o.st, {}) /\ Recorded(o.st, {})
    BY AddKept
  <2>2. \A S, xx : \A o \in ZsetAdd(p, S, xx) : Kept(o.st, {}) /\ Recorded(o.st, {})
    BY AddKept
  <2> QED
    BY <1>5, <2>1, <2>2, DoOK
<1>6. CASE \E S \in (SUBSET Elem) \ {{}} :
             Do("rem", {p}, ListPop(p, S) \cup HashDelete(p, S)
                              \cup SetRemove(p, S) \cup ZsetRemove(p, S))
  BY <1>6, RemovalsKept, DoOK
<1>7. CASE \E e \in Elem, size \in Size : Do("lset", {p}, Lset(p, e, size))
  BY <1>7, LsetKept, DoOK
<1>8. CASE \E S \in SUBSET Elem : Do("lrem", {p}, Lrem(p, S))
  BY <1>8, LremKept, DoOK
<1>9. CASE Do("get", {p}, Get(p))
  BY <1>9, GetKept, DoOK
<1>10. CASE Do("del", {p}, Del(p))
  BY <1>10, DeletionsKept, DoOK
<1>11. CASE \E past \in BOOLEAN : Do("expire", {p}, Expire(p, past))
  BY <1>11, ExpireKept, DoOK
<1>12. CASE Do("persist", {p}, Persist(p))
  BY <1>12, PersistKept, DoOK
<1>13. CASE Elapse(p)
  BY <1>13 DEF Elapse, StepOK, Stored, Matched, VersionStep, LogStep, Changed, TtlChanged
<1> QED
  BY <1>1, <1>2, <1>3, <1>4, <1>5, <1>6, <1>7, <1>8, <1>9, <1>10, <1>11, <1>12, <1>13
     DEF Commands

LEMMA NextOK ==
  ASSUME Stored, [Next]_vars
  PROVE  [StepOK]_vars /\ Stored' /\ (policy = "noeviction" /\ Matched => Matched')
<1> \A X : Kept(Store, X) /\ Recorded(Store, X)
  BY StoredKept
<1>1. ASSUME NEW p \in Pair, Commands(p) PROVE StepOK
  BY <1>1, CommandsOK
<1>2. ASSUME NEW p \in Pair, NEW q \in Pair, NEW m \in Size, NEW n \in Size,
             Do("mset", {p, q}, Mset(p, m, q, n))
      PROVE  StepOK
  <2>1. \A o \in Mset(p, m, q, n) : Kept(o.st, {p, q}) /\ Recorded(o.st, {p, q})
    BY MsetKept
  <2> QED
    BY <1>2, <2>1, DoOK
<1>3. ASSUME NEW p \in Pair, NEW q \in Pair, Do("rename", {p, q}, Rename(p, q))
      PROVE  StepOK
  BY <1>3, RenameKept, DoOK
<1>4. ASSUME NEW db \in Db, Do("scan", {db} \X Key, Scan(db)) PROVE StepOK
  BY <1>4, DeletionsKept, DoOK
<1>5. ASSUME NEW db \in Db, Do("flushdb", {db} \X Key, FlushDb(db)) PROVE StepOK
  <2>1. {db} \X Key \in SUBSET Pair
    BY DEF Pair
  <2>2. \A o \in FlushDb(db) : Kept(o.st, {}) /\ Recorded(o.st, {})
    BY <2>1, FlushKept DEF FlushDb, Outcome
  <2> QED
    BY <1>5, <2>2, DoOK
<1>6. ASSUME Do("flushall", Pair, FlushAll) PROVE StepOK
  <2>1. \A o \in FlushAll : Kept(o.st, {}) /\ Recorded(o.st, {})
    BY FlushKept DEF FlushAll, Outcome
  <2> QED
    BY <1>6, <2>1, DoOK
<1>7. ASSUME NEW a \in Db, NEW b \in Db, Do("swapdb", {a, b} \X Key, SwapDb(a, b))
      PROVE  StepOK
  BY <1>7, SwapKept, DoOK
<1>8. ASSUME Do("sweep", Elapsed, Sweep) PROVE StepOK
  BY <1>8, DeletionsKept, DoOK
<1>9. ASSUME NEW limit \in Limit, NEW name \in Policy, ConfigSet(limit, name) PROVE StepOK
  BY <1>9 DEF ConfigSet, StepOK, Stored, Matched, VersionStep, LogStep, Changed, TtlChanged
<1>10. CASE UNCHANGED vars
  BY <1>10 DEF vars, Stored, Matched
<1>11. CASE Next
  <2>1. StepOK
    BY <1>1, <1>2, <1>3, <1>4, <1>5, <1>6, <1>7, <1>8, <1>9, <1>11 DEF Next
  <2> QED
    BY <2>1 DEF StepOK
<1> QED
  BY <1>10, <1>11

-----------------------------------------------------------------------------
(* What a refused operation leaves.                                        *)

\* The store with some keys gone, and without eviction only expired ones.
Shrunk(s) ==
  /\ IsStore(s)
  /\ \A p \in Pair :
       \/ Same(Store, s, p, Pair)
       \/ p \notin DOMAIN s.data /\ (policy = "noeviction" => p \in Elapsed)

\* An operation that is refused has only deleted.
Refusals(outcomes) == \A o \in outcomes : o.reply = "oom" => Shrunk(o.st)
NeverRefuses(outcomes) == \A o \in outcomes : o.reply # "oom"

LEMMA StoreShrunk == Shrunk(Store)
BY DEF Shrunk, IsStore, Same, Store

LEMMA ExpiredShrunk ==
  ASSUME NEW E, \A p \in E : p \in DOMAIN timers /\ timers[p] = "elapsed"
  PROVE  Shrunk(DeleteKeys(Store, E))
<1> DEFINE t == DeleteKeys(Store, E)
<1>1. IsStore(Store) /\ Store.data = data /\ Store.timers = timers
  BY DEF IsStore, Store
<1>2. IsStore(t) /\ t.data = Without(data, E)
  BY <1>1, DeleteFields
<1> HIDE DEF t
<1>3. Shrunk(t)
  BY <1>1, <1>2 DEF Shrunk, Same, Without, Elapsed
<1> QED
  BY <1>3 DEF t

LEMMA CheckShrunk ==
  ASSUME NEW p
  PROVE  Shrunk(CheckExpired(Store, p))
<1>1. Store.timers = timers
  BY DEF Store
<1>2. CASE p \in DOMAIN timers /\ timers[p] = "elapsed"
  BY <1>1, <1>2, ExpiredShrunk DEF CheckExpired
<1>3. CASE ~(p \in DOMAIN timers /\ timers[p] = "elapsed")
  BY <1>1, <1>3, StoreShrunk DEF CheckExpired
<1> QED
  BY <1>2, <1>3

LEMMA SeenShrunk ==
  ASSUME NEW s, Shrunk(s), NEW p
  PROVE  Shrunk(IF Has(s, p) THEN Touch(s, p) ELSE s)
BY DEF Shrunk, IsStore, Same, Touch

LEMMA EnforceShrunk ==
  ASSUME NEW s, Shrunk(s), NEW delta
  PROVE  /\ \A a \in Enforce(s, delta) : Shrunk(a.st)
         /\ \A a \in EnforceGrowth(s, delta) : Shrunk(a.st)
<1>1. policy # "noeviction" => \A E : Shrunk(DeleteKeys(s, E))
  <2> SUFFICES ASSUME policy # "noeviction", NEW E PROVE Shrunk(DeleteKeys(s, E))
    OBVIOUS
  <2> DEFINE t == DeleteKeys(s, E)
  <2>1. IsStore(t) /\ t.data = Without(s.data, E)
    BY DeleteFields DEF Shrunk
  <2> HIDE DEF t
  <2>2. Shrunk(t)
    BY <2>1 DEF Shrunk, Same, Without
  <2> QED
    BY <2>2 DEF t
<1>2. \A a \in Enforce(s, delta) :
        a.st = s \/ (policy # "noeviction" /\ \E E : a.st = DeleteKeys(s, E))
  BY DEF Enforce
<1>3. \A a \in EnforceGrowth(s, delta) : a \in Enforce(s, delta) \/ a.st = s
  BY DEF EnforceGrowth
<1> QED
  BY <1>1, <1>2, <1>3

LEMMA StoreSetRefuses ==
  ASSUME NEW s, Shrunk(s), NEW p, NEW v
  PROVE  Refusals(StoreSet(s, p, v))
<1> DEFINE delta == Bytes(p, v) - MemOf(s, p)
<1>1. \A o \in StoreSet(s, p, v) : \E a \in Enforce(s, delta) :
        o = Outcome(a.st, "oom") \/ \E t : o = Outcome(t, "ok")
  BY DEF StoreSet
<1> HIDE DEF delta
<1> QED
  BY <1>1, EnforceShrunk DEF Refusals, Outcome

LEMMA SetRefuses ==
  ASSUME NEW p, NEW size, NEW ttl
  PROVE  Refusals(Set(p, size, ttl)) /\ Refusals(Rewrite(p, size))
<1> DEFINE s == CheckExpired(Store, p)
           seen == IF Has(s, p) THEN Touch(s, p) ELSE s
<1>1. Shrunk(seen)
  BY CheckShrunk, SeenShrunk
<1>2. \A o \in Set(p, size, ttl) :
        o.reply = "oom" => o \in StoreSet(seen, p, Str(size))
  BY DEF Set, Outcome
<1>3. \A o \in Rewrite(p, size) :
        o.reply = "oom" => o \in StoreSet(seen, p, Str(size))
  BY DEF Rewrite, Outcome
<1> HIDE DEF seen
<1> QED
  BY <1>1, <1>2, <1>3, StoreSetRefuses DEF Refusals

LEMMA MsetRefuses ==
  ASSUME NEW p, NEW m, NEW q, NEW n
  PROVE  Refusals(Mset(p, m, q, n))
<1> DEFINE Delta(x, size) == Bytes(x, Str(size)) - MemOf(Store, x)
           A == EnforceGrowth(Store, Delta(p, m) + Delta(q, n))
<1>1. \A o \in Mset(p, m, q, n) : \E a \in A :
        o = Outcome(a.st, "oom") \/ \E t : o = Outcome(t, "ok")
  BY DEF Mset
<1> HIDE DEF Delta
<1> QED
  BY <1>1, StoreShrunk, EnforceShrunk DEF Refusals, Outcome

LEMMA InsertRefuses ==
  ASSUME NEW s, Shrunk(s), NEW p, NEW type, NEW items, NEW delta
  PROVE  Refusals(Insert(s, p, type, items, delta))
<1>1. \A o \in Insert(s, p, type, items, delta) :
        \/ o = Outcome(s, "wrongtype")
        \/ \E a \in EnforceGrowth(s, delta) :
             o = Outcome(a.st, "oom") \/ \E t : o = Outcome(t, "ok")
  BY DEF Insert
<1> QED
  BY <1>1, EnforceShrunk DEF Refusals, Outcome

LEMMA GrowthRefuses ==
  ASSUME NEW p
  PROVE  /\ \A added : Refusals(Push(p, added))
         /\ \A pairs : Refusals(Hset(p, pairs))
         /\ \A S : Refusals(SetAdd(p, S))
         /\ \A S, xx : Refusals(ZsetAdd(p, S, xx))
<1> DEFINE s == CheckExpired(Store, p)
<1>1. \A type, items, delta : Refusals(Insert(s, p, type, items, delta))
  BY CheckShrunk, InsertRefuses
<1> QED
  BY <1>1 DEF Push, Hset, SetAdd, ZsetAdd, AddMembers

LEMMA RenameRefuses ==
  ASSUME NEW from, NEW to
  PROVE  Refusals(Rename(from, to))
<1> DEFINE s == DeleteKeys(Store, {p \in {from, to} : p \in DOMAIN timers
                                                     /\ timers[p] = "elapsed"})
           delta == RenameDelta(s, from, to)
<1>1. Shrunk(s)
  BY ExpiredShrunk
<1>2. \A o \in Rename(from, to) :
        \/ o = Outcome(s, "nil") \/ o = Outcome(s, "ok")
        \/ \E a \in EnforceGrowth(s, delta) :
             o = Outcome(a.st, "oom") \/ \E t : o = Outcome(t, "ok")
  BY DEF Rename
<1> HIDE DEF s, delta
<1> QED
  BY <1>1, <1>2, EnforceShrunk DEF Refusals, Outcome

LEMMA OthersNeverRefuse ==
  /\ \A p, S : NeverRefuses(ListPop(p, S) \cup HashDelete(p, S)
                              \cup SetRemove(p, S) \cup ZsetRemove(p, S))
  /\ \A p, e, size : NeverRefuses(Lset(p, e, size))
  /\ \A p, S : NeverRefuses(Lrem(p, S))
  /\ \A p : NeverRefuses(Get(p)) /\ NeverRefuses(Del(p)) /\ NeverRefuses(Persist(p))
  /\ \A p, past : NeverRefuses(Expire(p, past))
  /\ \A db : NeverRefuses(Scan(db)) /\ NeverRefuses(FlushDb(db))
  /\ \A a, b : NeverRefuses(SwapDb(a, b))
  /\ NeverRefuses(FlushAll) /\ NeverRefuses(Sweep)
<1>1. \A p, type, S : NeverRefuses(Remove(p, type, S))
  BY DEF NeverRefuses, Remove, Outcome
<1>2. \A p, S : NeverRefuses(ListPop(p, S) \cup HashDelete(p, S)
                              \cup SetRemove(p, S) \cup ZsetRemove(p, S))
  BY <1>1 DEF NeverRefuses, ListPop, HashDelete, SetRemove, ZsetRemove
<1>3. \A p, e, size : NeverRefuses(Lset(p, e, size))
  BY DEF NeverRefuses, Lset, Outcome
<1>4. \A p, S : NeverRefuses(Lrem(p, S))
  BY DEF NeverRefuses, Lrem, Outcome
<1>5. \A p : NeverRefuses(Get(p)) /\ NeverRefuses(Del(p))
  BY DEF NeverRefuses, Get, Del, Outcome
<1>6. \A p : NeverRefuses(Persist(p))
  BY DEF NeverRefuses, Persist, Outcome
<1>7. \A p, past : NeverRefuses(Expire(p, past))
  BY DEF NeverRefuses, Expire, Outcome
<1>8. \A db : NeverRefuses(Scan(db)) /\ NeverRefuses(FlushDb(db))
  BY DEF NeverRefuses, Scan, FlushDb, Outcome
<1>9. \A a, b : NeverRefuses(SwapDb(a, b))
  BY DEF NeverRefuses, SwapDb, Outcome
<1>10. NeverRefuses(FlushAll) /\ NeverRefuses(Sweep)
  BY DEF NeverRefuses, FlushAll, Sweep, Outcome
<1> QED
  BY <1>2, <1>3, <1>4, <1>5, <1>6, <1>7, <1>8, <1>9, <1>10

RefusalStep ==
  last'.reply = "oom" =>
    \A p \in Pair : Changed(p) =>
      /\ p \notin DOMAIN data'
      /\ policy = "noeviction" => p \in Elapsed

LEMMA DoRefuses ==
  ASSUME NEW call, NEW P, NEW outcomes, Do(call, P, outcomes),
         Refusals(outcomes) \/ NeverRefuses(outcomes)
  PROVE  RefusalStep
<1> PICK o \in outcomes :
      /\ data' = o.st.data
      /\ last' = [call |-> call, keys |-> P, reply |-> o.reply,
                  bumped |-> o.st.bumped, logged |-> o.st.logged]
  BY DEF Do
<1>1. Store.data = data
  BY DEF Store
<1>2. CASE o.reply = "oom"
  <2>1. Shrunk(o.st)
    BY <1>2 DEF Refusals, NeverRefuses
  <2> QED
    BY <1>1, <2>1 DEF Shrunk, Same, Changed, RefusalStep
<1>3. CASE o.reply # "oom"
  BY <1>3 DEF RefusalStep
<1> QED
  BY <1>2, <1>3

LEMMA CommandsRefuse ==
  ASSUME NEW p \in Pair, Commands(p)
  PROVE  RefusalStep
<1>1. CASE Elapse(p)
  BY <1>1 DEF Elapse, RefusalStep
<1>2. CASE ~Elapse(p)
  <2>1. \E call, P, outcomes : Do(call, P, outcomes)
                               /\ (Refusals(outcomes) \/ NeverRefuses(outcomes))
    BY <1>2, SetRefuses, GrowthRefuses, OthersNeverRefuse DEF Commands
  <2> QED
    BY <2>1, DoRefuses
<1> QED
  BY <1>1, <1>2

LEMMA NextRefuses ==
  ASSUME Next
  PROVE  RefusalStep
<1>1. ASSUME NEW p \in Pair, Commands(p) PROVE RefusalStep
  BY <1>1, CommandsRefuse
<1>2. ASSUME NEW limit, NEW name, ConfigSet(limit, name) PROVE RefusalStep
  BY <1>2 DEF ConfigSet, RefusalStep
<1>3. ASSUME ~\E p \in Pair : Commands(p),
             ~\E limit \in Limit, name \in Policy : ConfigSet(limit, name)
      PROVE  \E call, P, outcomes : Do(call, P, outcomes)
                                    /\ (Refusals(outcomes) \/ NeverRefuses(outcomes))
  BY <1>3, MsetRefuses, RenameRefuses, OthersNeverRefuse DEF Next
<1> QED
  BY <1>1, <1>2, <1>3, DoRefuses

-----------------------------------------------------------------------------
(* Whom an operation may delete.                                           *)

\* Under volatile-lru, s lacks nothing that had no deadline, and holds no new
\* deadline, outside the pairs P the operation names.
Spares(s, P) ==
  /\ IsStore(s)
  /\ policy = "volatile-lru" =>
       \A q \in Pair \ P :
         /\ q \in DOMAIN data \ DOMAIN timers => q \in DOMAIN s.data
         /\ q \in DOMAIN s.timers => q \in DOMAIN timers

AllSpare(outcomes, P) == \A o \in outcomes : Spares(o.st, P)

LEMMA StoreSpares == ASSUME NEW P PROVE Spares(Store, P)
BY DEF Spares, IsStore, Store

\* A change at the pairs the operation names.
LEMMA EditSpares ==
  ASSUME NEW P, NEW s, Spares(s, P), NEW t, IsStore(t),
         \A q \in Pair \ P : /\ q \in DOMAIN s.data => q \in DOMAIN t.data
                             /\ q \in DOMAIN t.timers => q \in DOMAIN s.timers
  PROVE  Spares(t, P)
BY DEF Spares

LEMMA DeleteSpares ==
  ASSUME NEW P, NEW s, Spares(s, P), NEW E,
         policy = "volatile-lru" => E \subseteq P \cup DOMAIN s.timers
  PROVE  Spares(DeleteKeys(s, E), P)
<1> DEFINE t == DeleteKeys(s, E)
<1>1. IsStore(t) /\ t.data = Without(s.data, E) /\ t.timers = Without(s.timers, E)
  BY DeleteFields DEF Spares
<1> HIDE DEF t
<1> QED
  BY <1>1 DEF Spares, Without, t

LEMMA ExpiredSpares ==
  ASSUME NEW P, NEW p
  PROVE  Spares(CheckExpired(Store, p), P)
<1>1. CASE p \in DOMAIN Store.timers
  BY <1>1, StoreSpares, DeleteSpares DEF CheckExpired
<1>2. CASE p \notin DOMAIN Store.timers
  BY <1>2, StoreSpares DEF CheckExpired
<1> QED
  BY <1>1, <1>2

LEMMA TouchSpares ==
  ASSUME NEW P, NEW s, Spares(s, P), NEW p
  PROVE  Spares(Touch(s, p), P) /\ Spares(IF Has(s, p) THEN Touch(s, p) ELSE s, P)
BY DEF Spares, IsStore, Touch

\* Victims are candidates, and under volatile-lru candidates have deadlines.
LEMMA EnforceSpares ==
  ASSUME NEW P, NEW s, Spares(s, P), NEW delta
  PROVE  /\ \A a \in Enforce(s, delta) : Spares(a.st, P)
         /\ \A a \in EnforceGrowth(s, delta) : Spares(a.st, P)
<1>1. \A E \in Victims(s, delta) : Spares(DeleteKeys(s, E), P)
  <2>1. \A E \in Victims(s, delta) : E \subseteq Candidates(s)
    BY DEF Victims
  <2>2. policy = "volatile-lru" => Candidates(s) = DOMAIN s.timers
    BY DEF Candidates
  <2> QED
    BY <2>1, <2>2, DeleteSpares
<1>2. \A a \in Enforce(s, delta) :
        a.st = s \/ \E E \in Victims(s, delta) : a.st = DeleteKeys(s, E)
  BY DEF Enforce
<1>3. \A a \in EnforceGrowth(s, delta) : a \in Enforce(s, delta) \/ a.st = s
  BY DEF EnforceGrowth
<1> QED
  BY <1>1, <1>2, <1>3

LEMMA WrittenSpares ==
  ASSUME NEW P, NEW s, Spares(s, P), NEW p \in P, NEW d, NEW m, NEW n,
         \A q \in Pair \ P : q \in DOMAIN s.data => q \in DOMAIN d
  PROVE  Spares(Written(s, d, p, m, n), P)
<1> DEFINE t == Written(s, d, p, m, n)
<1>1. IsStore(t) /\ t.data = d /\ t.timers = s.timers
  BY WrittenFields DEF Spares
<1> HIDE DEF t
<1> QED
  BY <1>1, EditSpares DEF t

LEMMA TimersSpare ==
  ASSUME NEW P, NEW s, Spares(s, P), NEW p \in P, NEW f,
         DOMAIN f \ {p} = DOMAIN s.timers \ {p}
  PROVE  LET t == [s EXCEPT !.timers = f]
         IN  Spares(t, P) /\ Spares(Log(Bump(Touch(t, p), {p}), {p}), P)
<1> DEFINE t == [s EXCEPT !.timers = f]
           u == Log(Bump(Touch(t, p), {p}), {p})
<1>1. IsStore(t) /\ t.data = s.data /\ t.timers = f
  BY DEF Spares, IsStore
<1>2. IsStore(u) /\ u.data = s.data /\ u.timers = f
  BY DEF Spares, IsStore, Log, Bump, Touch
<1> HIDE DEF t, u
<1>3. Spares(t, P)
  BY <1>1, EditSpares
<1>4. Spares(u, P)
  BY <1>2, EditSpares
<1> QED
  BY <1>3, <1>4 DEF t, u

LEMMA StoreSetSpares ==
  ASSUME NEW P, NEW s, Spares(s, P), NEW p \in P, NEW v
  PROVE  AllSpare(StoreSet(s, p, v), P)
<1> DEFINE delta == Bytes(p, v) - MemOf(s, p)
           W(t) == Written(t, Put(t.data, p, v), p, Bytes(p, v), AtLeast0(t.used + delta))
<1>1. \A o \in StoreSet(s, p, v) : \E a \in Enforce(s, delta) :
        o = IF a.full THEN Outcome(a.st, "oom") ELSE Outcome(W(a.st), "ok")
  BY DEF StoreSet, Written
<1>2. \A t : Spares(t, P) => Spares(W(t), P)
  <2>1. \A t : DOMAIN t.data \subseteq DOMAIN Put(t.data, p, v)
    BY DEF Put
  <2> QED
    BY <2>1, WrittenSpares
<1> HIDE DEF W, delta
<1> QED
  BY <1>1, <1>2, EnforceSpares DEF Outcome, AllSpare

LEMMA SetSpares ==
  ASSUME NEW P, NEW p \in P, NEW size, NEW ttl \in {"none", "keep", "ex", "past"}
  PROVE  AllSpare(Set(p, size, ttl), P) /\ AllSpare(Rewrite(p, size), P)
<1> DEFINE s == CheckExpired(Store, p)
           seen == IF Has(s, p) THEN Touch(s, p) ELSE s
           WithTtl(t) ==
             CASE ttl = "past" -> DeleteKeys(t, {p})
               [] ttl = "keep" -> IF p \in DOMAIN s.timers
                                  THEN [t EXCEPT !.timers = Put(@, p, s.timers[p])] ELSE t
               [] ttl = "ex"   -> [t EXCEPT !.timers = Put(@, p, "live")]
               [] ttl = "none" -> [t EXCEPT !.timers = Without(@, {p})]
<1>1. Spares(s, P) /\ Spares(seen, P)
  BY ExpiredSpares, TouchSpares
<1>2. ASSUME NEW t, Spares(t, P)
      PROVE  Spares(WithTtl(t), P)
  <2>1. \A v : DOMAIN Put(t.timers, p, v) \ {p} = DOMAIN t.timers \ {p}
    BY DEF Put
  <2>2. \A v : Spares([t EXCEPT !.timers = Put(t.timers, p, v)], P)
    BY <1>2, <2>1, TimersSpare
  <2>3. DOMAIN Without(t.timers, {p}) \ {p} = DOMAIN t.timers \ {p}
    BY DEF Without
  <2>4. Spares([t EXCEPT !.timers = Without(t.timers, {p})], P)
    BY <1>2, <2>3, TimersSpare
  <2>5. Spares(DeleteKeys(t, {p}), P)
    BY <1>2, DeleteSpares
  <2>6. CASE ttl = "past"
    BY <2>5, <2>6
  <2>7. CASE ttl = "keep"
    BY <1>2, <2>2, <2>7
  <2>8. CASE ttl = "ex"
    BY <2>2, <2>8
  <2>9. CASE ttl = "none"
    BY <2>4, <2>9
  <2> QED
    BY <2>6, <2>7, <2>8, <2>9
<1>3. \A o \in Set(p, size, ttl) :
        \/ o = Outcome(s, "wrongtype") \/ o = Outcome(seen, "nil")
        \/ \E r \in StoreSet(seen, p, Str(size)) :
             o = IF r.reply = "ok" THEN Outcome(WithTtl(r.st), "ok") ELSE r
  BY DEF Set
<1>4. \A o \in Rewrite(p, size) :
        o = Outcome(s, "wrongtype") \/ o \in StoreSet(seen, p, Str(size))
  BY DEF Rewrite
<1> HIDE DEF s, seen, WithTtl
<1> QED
  BY <1>1, <1>2, <1>3, <1>4, StoreSetSpares DEF Outcome, AllSpare

LEMMA MsetSpares ==
  ASSUME NEW P, NEW p \in P, NEW q \in P, NEW m, NEW n
  PROVE  AllSpare(Mset(p, m, q, n), P)
<1> DEFINE Step(t, x, size) == {[r.st EXCEPT !.timers = Without(@, {x})] :
                                  r \in StoreSet(t, x, Str(size))}
           Delta(x, size) == Bytes(x, Str(size)) - MemOf(Store, x)
           A == EnforceGrowth(Store, Delta(p, m) + Delta(q, n))
<1>1. ASSUME NEW t, Spares(t, P), NEW x \in P, NEW size
      PROVE  \A u \in Step(t, x, size) : Spares(u, P)
  <2>1. \A r \in StoreSet(t, x, Str(size)) : Spares(r.st, P)
    BY <1>1, StoreSetSpares DEF AllSpare
  <2>2. \A f : DOMAIN Without(f, {x}) \ {x} = DOMAIN f \ {x}
    BY DEF Without
  <2>3. \A r \in StoreSet(t, x, Str(size)) :
          Spares([r.st EXCEPT !.timers = Without(@, {x})], P)
    BY <2>1, <2>2, TimersSpare
  <2> QED
    BY <2>3
<1>2. \A a \in A : Spares(a.st, P)
  BY StoreSpares, EnforceSpares
<1>3. \A o \in Mset(p, m, q, n) : \E a \in A :
        \/ o = Outcome(a.st, "oom")
        \/ \E u \in UNION {Step(t, q, n) : t \in Step(a.st, p, m)} : o = Outcome(u, "ok")
  BY DEF Mset
<1> HIDE DEF Step, A
<1>4. \A a \in A : \A u \in UNION {Step(t, q, n) : t \in Step(a.st, p, m)} : Spares(u, P)
  BY <1>1, <1>2
<1> QED
  BY <1>2, <1>3, <1>4 DEF Outcome, AllSpare

LEMMA InsertSpares ==
  ASSUME NEW P, NEW s, Spares(s, P), NEW p \in P, NEW type, NEW items, NEW delta
  PROVE  AllSpare(Insert(s, p, type, items, delta), P)
<1> DEFINE v == [type |-> type, items |-> items]
           D(t) == IF Has(s, p) /\ ~Has(t, p) THEN t.data ELSE Put(t.data, p, v)
           W(t) == Written(t, D(t), p, AtLeast0(MemOf(t, p) + delta), AtLeast0(t.used + delta))
<1>1. \A o \in Insert(s, p, type, items, delta) :
        \/ o = Outcome(s, "wrongtype")
        \/ \E a \in EnforceGrowth(s, delta) :
             o = IF a.full THEN Outcome(a.st, "oom") ELSE Outcome(W(a.st), "ok")
  BY DEF Insert, Written
<1>2. \A t : Spares(t, P) => Spares(W(t), P)
  <2>1. \A t : DOMAIN t.data \subseteq DOMAIN D(t)
    BY DEF Put
  <2> HIDE DEF D
  <2> QED
    BY <2>1, WrittenSpares
<1> HIDE DEF W
<1> QED
  BY <1>1, <1>2, EnforceSpares DEF Outcome, AllSpare

LEMMA GrowthSpares ==
  ASSUME NEW P, NEW p \in P
  PROVE  /\ \A added : AllSpare(Push(p, added), P)
         /\ \A pairs : AllSpare(Hset(p, pairs), P)
         /\ \A S : AllSpare(SetAdd(p, S), P)
         /\ \A S, xx : AllSpare(ZsetAdd(p, S, xx), P)
<1> DEFINE s == CheckExpired(Store, p)
<1>1. \A type, items, delta : AllSpare(Insert(s, p, type, items, delta), P)
  BY ExpiredSpares, InsertSpares
<1> QED
  BY <1>1 DEF Push, Hset, SetAdd, ZsetAdd, AddMembers

LEMMA RemoveSpares ==
  ASSUME NEW P, NEW p \in P, NEW type, NEW members
  PROVE  AllSpare(Remove(p, type, members), P)
<1> DEFINE s == CheckExpired(Store, p)
           gone == members \cap DOMAIN ItemsOf(s, p)
           left == Without(ItemsOf(s, p), gone)
           freed == MapThenSumSet(LAMBDA x : ItemsOf(s, p)[x], gone)
           W == Written(s, Put(s.data, p, [type |-> type, items |-> left]), p,
                        AtLeast0(MemOf(s, p) - freed), AtLeast0(s.used - freed))
           D == Log(DeleteKeys(s, {p}), {p})
<1>1. Spares(s, P)
  BY ExpiredSpares
<1>2. \A o \in Remove(p, type, members) :
        \/ o = Outcome(s, "wrongtype") \/ o = Outcome(s, "nil")
        \/ o = Outcome(D, "ok") \/ o = Outcome(W, "ok")
  BY DEF Remove, Written
<1>3. \A v : DOMAIN s.data \subseteq DOMAIN Put(s.data, p, v)
  BY DEF Put
<1>4. Spares(W, P)
  BY <1>1, <1>3, WrittenSpares
<1>5. Spares(DeleteKeys(s, {p}), P)
  BY <1>1, DeleteSpares
<1> HIDE DEF W, s
<1>6. Spares(D, P)
  BY <1>5 DEF Spares, IsStore, Log
<1> HIDE DEF D
<1> QED
  BY <1>1, <1>2, <1>4, <1>6 DEF Outcome, AllSpare

LEMMA MarkedSpares ==
  ASSUME NEW P, NEW s, Spares(s, P), NEW p \in P, NEW v
  PROVE  Spares(MarkDirty(s, p, v), P)
<1> DEFINE t == MarkDirty(s, p, v)
<1>1. IsStore(t) /\ t.data = Put(s.data, p, v) /\ t.timers = s.timers
  BY DEF Spares, IsStore, MarkDirty, Bump, Touch
<1> HIDE DEF t
<1> QED
  BY <1>1, EditSpares DEF Put, t

LEMMA InPlaceSpares ==
  ASSUME NEW P, NEW p \in P
  PROVE  /\ \A e, size : AllSpare(Lset(p, e, size), P)
         /\ \A S : AllSpare(Lrem(p, S), P)
<1> DEFINE s == CheckExpired(Store, p)
           seen == IF Has(s, p) THEN Touch(s, p) ELSE s
<1>1. Spares(s, P) /\ Spares(seen, P)
  BY ExpiredSpares, TouchSpares
<1>2. \A v : /\ Spares(MarkDirty(s, p, v), P) /\ Spares(MarkDirty(seen, p, v), P)
             /\ Spares(DeleteKeys(MarkDirty(seen, p, v), {p}), P)
  BY <1>1, MarkedSpares, DeleteSpares
<1>3. \A e, size : \A o \in Lset(p, e, size) :
        o.st = s \/ o.st = seen \/ \E v : o.st = MarkDirty(s, p, v)
  BY DEF Lset, Outcome
<1>4. \A S : \A o \in Lrem(p, S) :
        \/ o.st = s \/ o.st = seen
        \/ \E v : \/ o.st = MarkDirty(seen, p, v)
                 \/ o.st = DeleteKeys(MarkDirty(seen, p, v), {p})
  BY DEF Lrem, Outcome
<1> HIDE DEF s, seen
<1> QED
  BY <1>1, <1>2, <1>3, <1>4 DEF AllSpare

LEMMA RenameSpares ==
  ASSUME NEW P, NEW from \in P, NEW to \in P
  PROVE  AllSpare(Rename(from, to), P)
<1> DEFINE s == DeleteKeys(Store, {p \in {from, to} : p \in DOMAIN timers
                                                     /\ timers[p] = "elapsed"})
           delta == RenameDelta(s, from, to)
           indexed(t) == IF Has(t, to) THEN {from, to} ELSE {from}
           ttl(t) == Without(t.timers, indexed(t))
           Moved(t) ==
             [t EXCEPT
              !.data = Put(Without(@, {from}), to, s.data[from]),
              !.mem = Put(Without(@, {from}), to, Bytes(to, s.data[from])),
              !.used = AtLeast0(@ + delta),
              !.lru = (@ \ indexed(t)) \cup {to},
              !.timers = IF from \in DOMAIN s.timers
                         THEN Put(ttl(t), to, s.timers[from]) ELSE ttl(t)]
           W(t) == Log(Bump(Moved(t), {from, to}), {from, to})
<1>1. Spares(s, P)
  BY StoreSpares, DeleteSpares
<1>2. \A o \in Rename(from, to) :
        \/ o = Outcome(s, "nil") \/ o = Outcome(s, "ok")
        \/ \E a \in EnforceGrowth(s, delta) :
             o = Outcome(a.st, "oom") \/ o = Outcome(W(a.st), "ok")
  BY DEF Rename, Renamed
<1> HIDE DEF s, delta
<1>3. ASSUME NEW t, Spares(t, P)
      PROVE  Spares(W(t), P)
  <2> DEFINE u == W(t)
  <2>1. /\ IsStore(u)
        /\ u.data = Put(Without(t.data, {from}), to, s.data[from])
        /\ u.timers = IF from \in DOMAIN s.timers
                      THEN Put(ttl(t), to, s.timers[from]) ELSE ttl(t)
    <3> HIDE DEF indexed, ttl
    <3> QED BY <1>3 DEF Spares, IsStore, Log, Bump
  <2>2. DOMAIN ttl(t) \subseteq DOMAIN t.timers
    BY DEF Without
  <2> HIDE DEF u, ttl
  <2>3. DOMAIN u.timers \subseteq DOMAIN t.timers \cup {to}
    BY <2>1, <2>2 DEF Put
  <2>4. DOMAIN t.data \subseteq DOMAIN u.data \cup {from}
    BY <2>1 DEF Put, Without
  <2>5. Spares(u, P)
    BY <1>3, <2>1, <2>3, <2>4, EditSpares
  <2> QED
    BY <2>5 DEF u
<1> HIDE DEF W
<1> QED
  BY <1>1, <1>2, <1>3, EnforceSpares DEF Outcome, AllSpare

LEMMA DeadlineSpares ==
  ASSUME NEW P, NEW p \in P
  PROVE  /\ \A past \in BOOLEAN : AllSpare(Expire(p, past), P)
         /\ AllSpare(Persist(p), P) /\ AllSpare(Get(p), P) /\ AllSpare(Del(p), P)
<1> DEFINE s == CheckExpired(Store, p)
           Named(f) == Log(Bump(Touch([s EXCEPT !.timers = f], p), {p}), {p})
<1>1. Spares(s, P) /\ Spares(IF Has(s, p) THEN Touch(s, p) ELSE s, P)
  BY ExpiredSpares, TouchSpares
<1>2. Spares(DeleteKeys(s, {p}), P) /\ Spares(DeleteKeys(Store, {p}), P)
  BY <1>1, StoreSpares, DeleteSpares
<1>3. \A f : DOMAIN f \ {p} = DOMAIN s.timers \ {p} => Spares(Named(f), P)
  BY <1>1, TimersSpare
<1>4. /\ DOMAIN Put(s.timers, p, "live") \ {p} = DOMAIN s.timers \ {p}
      /\ DOMAIN Without(s.timers, {p}) \ {p} = DOMAIN s.timers \ {p}
  BY DEF Put, Without
<1>5. \A past \in BOOLEAN : \A o \in Expire(p, past) :
        \/ o = Outcome(s, "nil") \/ o = Outcome(DeleteKeys(s, {p}), "ok")
        \/ o = Outcome(Named(Put(s.timers, p, "live")), "ok")
  BY DEF Expire
<1>6. \A o \in Persist(p) :
        o = Outcome(s, "nil") \/ o = Outcome(Named(Without(s.timers, {p})), "ok")
  BY DEF Persist
<1>7. AllSpare(Get(p), P) /\ AllSpare(Del(p), P)
  BY <1>1, <1>2 DEF Get, Del, Outcome, AllSpare
<1>8. Spares(Named(Put(s.timers, p, "live")), P) /\ Spares(Named(Without(s.timers, {p})), P)
  BY <1>3, <1>4
<1> HIDE DEF s, Named
<1>9. \A past \in BOOLEAN : AllSpare(Expire(p, past), P)
  BY <1>1, <1>2, <1>5, <1>8 DEF Outcome, AllSpare
<1>10. AllSpare(Persist(p), P)
  BY <1>1, <1>6, <1>8 DEF Outcome, AllSpare
<1> QED
  BY <1>7, <1>9, <1>10

\* A scan and the sweep delete what has expired; so it had a deadline.
LEMMA ElapsedSpares ==
  ASSUME NEW P
  PROVE  AllSpare(Sweep, P) /\ \A db : AllSpare(Scan(db), P)
<1>1. Store.timers = timers
  BY DEF Store
<1>2. \A E : E \subseteq DOMAIN timers => Spares(DeleteKeys(Store, E), P)
  BY <1>1, StoreSpares, DeleteSpares
<1>3. \A o \in Sweep : \E E : E \subseteq DOMAIN timers /\ o = Outcome(DeleteKeys(Store, E), "ok")
  BY DEF Sweep, Elapsed
<1>4. \A db : \A o \in Scan(db) :
        \E E : E \subseteq DOMAIN timers /\ o = Outcome(DeleteKeys(Store, E), "ok")
  BY DEF Scan
<1> QED
  BY <1>2, <1>3, <1>4 DEF Outcome, AllSpare

\* A flush and SWAPDB name every key of their databases.
LEMMA ClearedSpares ==
  ASSUME NEW P, NEW n
  PROVE  Spares(Log(Bump([Cleared(Store, P) EXCEPT !.used = n], P), P), P)
<1> DEFINE t == Log(Bump([Cleared(Store, P) EXCEPT !.used = n], P), P)
<1>1. IsStore(t) /\ t.data = Without(data, P) /\ t.timers = Without(timers, P)
  BY DEF IsStore, Store, Cleared, Log, Bump
<1>2. Store.data = data /\ Store.timers = timers
  BY DEF Store
<1> HIDE DEF t
<1>3. Spares(t, P)
  BY <1>1, <1>2, StoreSpares, EditSpares DEF Without
<1> QED
  BY <1>3 DEF t

LEMMA SwapSpares ==
  ASSUME NEW a \in Db, NEW b \in Db, DOMAIN timers \subseteq Pair
  PROVE  AllSpare(SwapDb(a, b), {a, b} \X Key)
<1> DEFINE Swapped(f) == [p \in {Other(q, a, b) : q \in DOMAIN f} |-> f[Other(p, a, b)]]
           P == {a, b} \X Key
           t == Bump([Store EXCEPT !.data = Swapped(@), !.mem = Swapped(@),
                                   !.timers = Swapped(@), !.lru = SwappedPool(@, a, b)], P)
<1>1. IsStore(t) /\ t.data = Swapped(data) /\ t.timers = Swapped(timers)
  <2> HIDE DEF Swapped, P
  <2> QED BY DEF IsStore, Store, Bump, SwappedPool
<1>2. \A o \in SwapDb(a, b) : o = Outcome(t, "ok")
  BY DEF SwapDb
<1>3. Store.data = data /\ Store.timers = timers
  BY DEF Store
<1>4. /\ \A p \in Pair \ P : Other(p, a, b) = p
      /\ \A p \in Pair : Other(p, a, b) \in Pair \ P => Other(p, a, b) = p
  BY DEF Other, Pair
<1> HIDE DEF t, P
<1>5. \A q \in Pair \ P : q \in DOMAIN Store.data => q \in DOMAIN t.data
  BY <1>1, <1>3, <1>4
<1>6. \A q \in Pair \ P : q \in DOMAIN t.timers => q \in DOMAIN Store.timers
  BY <1>1, <1>3, <1>4
<1> HIDE DEF Swapped
<1>7. Spares(t, P)
  BY <1>1, <1>5, <1>6, StoreSpares, EditSpares
<1> QED
  BY <1>2, <1>7 DEF Outcome, AllSpare, P

SpareStep ==
  policy = "volatile-lru" =>
    \A p \in DOMAIN data \ DOMAIN timers : p \notin DOMAIN data' => p \in last'.keys

LEMMA DoSpares ==
  ASSUME Stored, NEW call, NEW P, NEW outcomes, Do(call, P, outcomes), AllSpare(outcomes, P)
  PROVE  SpareStep
<1> PICK o \in outcomes :
      /\ data' = o.st.data
      /\ last' = [call |-> call, keys |-> P, reply |-> o.reply,
                  bumped |-> o.st.bumped, logged |-> o.st.logged]
  BY DEF Do
<1>1. last'.keys = P
  OBVIOUS
<1> QED
  BY <1>1 DEF AllSpare, Spares, Stored, SpareStep

LEMMA CommandsSpare ==
  ASSUME Stored, NEW p \in Pair, Commands(p)
  PROVE  SpareStep
<1>1. CASE Elapse(p)
  BY <1>1 DEF Elapse, SpareStep
<1>2. CASE ~Elapse(p)
  <2>1. \A size : \A ttl \in {"none", "keep", "ex", "past"} :
          AllSpare(Set(p, size, ttl), {p}) /\ AllSpare(Rewrite(p, size), {p})
    BY SetSpares
  <2>2. \A S : AllSpare(ListPop(p, S) \cup HashDelete(p, S)
                         \cup SetRemove(p, S) \cup ZsetRemove(p, S), {p})
    BY RemoveSpares DEF ListPop, HashDelete, SetRemove, ZsetRemove, AllSpare
  <2>3. \E call, outcomes : Do(call, {p}, outcomes) /\ AllSpare(outcomes, {p})
    BY <1>2, <2>1, <2>2, GrowthSpares, InPlaceSpares, DeadlineSpares DEF Commands
  <2> QED
    BY <2>3, DoSpares
<1> QED
  BY <1>1, <1>2

LEMMA NextSpares ==
  ASSUME Stored, Next
  PROVE  SpareStep
<1>1. ASSUME NEW p \in Pair, Commands(p) PROVE SpareStep
  BY <1>1, CommandsSpare
<1>2. ASSUME NEW p \in Pair, NEW q \in Pair, NEW m, NEW n,
             Do("mset", {p, q}, Mset(p, m, q, n))
      PROVE  SpareStep
  BY <1>2, MsetSpares, DoSpares
<1>3. ASSUME NEW p \in Pair, NEW q \in Pair, Do("rename", {p, q}, Rename(p, q))
      PROVE  SpareStep
  BY <1>3, RenameSpares, DoSpares
<1>4. ASSUME NEW db, Do("scan", {db} \X Key, Scan(db)) PROVE SpareStep
  BY <1>4, ElapsedSpares, DoSpares
<1>5. ASSUME NEW db, Do("flushdb", {db} \X Key, FlushDb(db)) PROVE SpareStep
  <2>1. AllSpare(FlushDb(db), {db} \X Key)
    BY ClearedSpares DEF FlushDb, AllSpare, Outcome
  <2> QED
    BY <1>5, <2>1, DoSpares
<1>6. ASSUME Do("flushall", Pair, FlushAll) PROVE SpareStep
  <2>1. AllSpare(FlushAll, Pair)
    BY ClearedSpares DEF FlushAll, AllSpare, Outcome
  <2> QED
    BY <1>6, <2>1, DoSpares
<1>7. ASSUME NEW a \in Db, NEW b \in Db, Do("swapdb", {a, b} \X Key, SwapDb(a, b))
      PROVE  SpareStep
  <2>1. AllSpare(SwapDb(a, b), {a, b} \X Key)
    BY SwapSpares DEF Stored
  <2> QED
    BY <1>7, <2>1, DoSpares
<1>8. ASSUME Do("sweep", Elapsed, Sweep) PROVE SpareStep
  BY <1>8, ElapsedSpares, DoSpares
<1>9. ASSUME NEW limit, NEW name, ConfigSet(limit, name) PROVE SpareStep
  BY <1>9 DEF ConfigSet, SpareStep
<1> QED
  BY <1>1, <1>2, <1>3, <1>4, <1>5, <1>6, <1>7, <1>8, <1>9 DEF Next

-----------------------------------------------------------------------------
(* The theorems.                                                           *)

LEMMA InitStored == Init => Stored /\ Matched
BY DEF Init, Stored, Matched

\* Whatever a step does to a value or its deadline, its version moves
\* (_bumpVersion), MSET's deadlines aside.
THEOREM ChangesBump == Spec => EveryChangeBumps
<1>1. Stored /\ [Next]_vars => Stored'
  BY NextOK
<1>2. Stored /\ [Next]_vars =>
        [\A p \in Pair : Changed(p) \/ (TtlChanged(p) /\ last'.call # "mset")
                           => p \in last'.bumped]_vars
  BY NextOK DEF StepOK, VersionStep
<1> QED
  BY <1>1, <1>2, InitStored, PTL DEF Spec, EveryChangeBumps

\* Whatever a step changes is named by a mutation for the AOF and the replicas,
\* the commands EveryChangeLogged exempts aside.
THEOREM ChangesAreLogged == Spec => EveryChangeLogged
<1>1. Stored /\ [Next]_vars => Stored'
  BY NextOK
<1>2. Stored /\ [Next]_vars =>
        [last'.call \notin {"lset", "lrem", "swapdb"} =>
           \A p \in Pair :
             Changed(p) \/ (TtlChanged(p) /\ last'.call \notin {"set", "mset"}) =>
               p \in last'.logged]_vars
  BY NextOK DEF StepOK, LogStep
<1> QED
  BY <1>1, <1>2, InitStored, PTL DEF Spec, EveryChangeLogged

\* As long as nothing may be evicted, the tables of the store name the same keys.
THEOREM TablesAgree == Spec /\ [](policy = "noeviction") => []IndexesAgree
<1>1. Stored /\ Matched /\ policy = "noeviction" /\ [Next]_vars => Stored' /\ Matched'
  BY NextOK
<1>2. Stored /\ Matched => IndexesAgree
  BY DEF Stored, Matched, IndexesAgree
<1> QED
  BY <1>1, <1>2, InitStored, PTL DEF Spec

\* An operation that is answered OOM has written nothing: what it changed is
\* gone, and without eviction it had expired (enforceMemoryLimit).
THEOREM RefusedWritesNothing == Spec => RejectedWritesNothing
<1>1. [Next]_vars =>
        [last'.reply = "oom" =>
           \A p \in Pair : Changed(p) =>
             /\ p \notin DOMAIN data'
             /\ policy = "noeviction" => p \in Elapsed]_vars
  BY NextRefuses DEF RefusalStep
<1> QED
  BY <1>1, PTL DEF Spec, RejectedWritesNothing

\* Under volatile-lru a key without a deadline is nobody's victim: it goes only
\* in an operation that names it (_pickCandidate).
THEOREM VolatileVictims == Spec => VictimsAreVolatile
<1>1. Stored /\ [Next]_vars => Stored'
  BY NextOK
<1>2. Stored /\ [Next]_vars =>
        [policy = "volatile-lru" =>
           \A p \in DOMAIN data \ DOMAIN timers :
             p \notin DOMAIN data' => p \in last'.keys]_vars
  BY NextSpares DEF SpareStep
<1> QED
  BY <1>1, <1>2, InitStored, PTL DEF Spec, VictimsAreVolatile

-----------------------------------------------------------------------------
(* Sums of the tables.                                                     *)

LEMMA PairsFinite ==
  /\ IsFiniteSet(Pair) /\ IsFiniteSet(Slot)
  /\ \A P \in SUBSET Pair : IsFiniteSet(P)
  /\ \A P \in SUBSET Slot : IsFiniteSet(P)
<1>1. IsFiniteSet(Pair)
  BY KeyspaceAssumption, FS_Product DEF Pair
<1>2. IsFiniteSet(Slot)
  BY KeyspaceAssumption, FS_Singleton, FS_Union DEF Slot
<1> QED
  BY <1>1, <1>2, FS_Subset

LEMMA TotalIs ==
  ASSUME NEW f
  PROVE  Total(f) = Summed(f, DOMAIN f)
BY DEF Total, Summed

LEMMA TotalNat ==
  ASSUME NEW f, IsFiniteSet(DOMAIN f), \A x \in DOMAIN f : f[x] \in Nat
  PROVE  Total(f) \in Nat
BY TotalIs, SummedNat

\* A value put in the place of another.
LEMMA TotalPut ==
  ASSUME NEW f, IsFiniteSet(DOMAIN f), \A x \in DOMAIN f : f[x] \in Nat, NEW y, NEW v \in Nat
  PROVE  Total(Put(f, y, v)) = Total(f) + v - IF y \in DOMAIN f THEN f[y] ELSE 0
<1> DEFINE g == Put(f, y, v)
           S == DOMAIN f \ {y}
<1>1. /\ DOMAIN g = S \cup {y} /\ g[y] = v
      /\ \A x \in S : g[x] = f[x]
  BY DEF Put
<1>2. IsFiniteSet(S) /\ IsFiniteSet(DOMAIN g)
  BY <1>1, FS_Subset, FS_AddElement
<1> HIDE DEF g
<1>3. \A x \in DOMAIN g : g[x] \in Nat
  BY <1>1
<1>4. Summed(g, DOMAIN g) = v + Summed(g, S)
  <2>1. (DOMAIN g) \ {y} = S
    BY <1>1
  <2>2. y \in DOMAIN g
    BY <1>1
  <2> QED
    BY <1>1, <1>2, <1>3, <2>1, <2>2, SummedRemove
<1>5. Summed(g, S) = Summed(f, S)
  BY <1>1, <1>2, SummedSame
<1>6. Summed(f, S) \in Nat
  BY <1>2, SummedNat
<1>7. CASE y \in DOMAIN f
  <2>1. Summed(f, DOMAIN f) = f[y] + Summed(f, S)
    BY <1>7, SummedRemove
  <2>2. f[y] \in Nat
    BY <1>7
  <2> DEFINE a == Summed(f, S)
  <2>3. Total(g) = v + a /\ Total(f) = f[y] + a
    BY <1>4, <1>5, <2>1, TotalIs
  <2>4. a \in Nat
    BY <1>6
  <2> HIDE DEF a
  <2>5. Total(g) = Total(f) + v - f[y]
    BY <2>2, <2>3, <2>4
  <2> QED
    BY <1>7, <2>5 DEF g
<1>8. CASE y \notin DOMAIN f
  <2>1. S = DOMAIN f
    BY <1>8
  <2> DEFINE a == Summed(f, S)
  <2>2. Total(g) = v + a /\ Total(f) = a
    BY <1>4, <1>5, <2>1, TotalIs
  <2>3. a \in Nat
    BY <1>6
  <2> HIDE DEF a
  <2>4. Total(g) = Total(f) + v - 0
    BY <2>2, <2>3
  <2> QED
    BY <1>8, <2>4 DEF g
<1> QED
  BY <1>7, <1>8

\* Some entries taken out.
LEMMA TotalWithout ==
  ASSUME NEW f, IsFiniteSet(DOMAIN f), \A x \in DOMAIN f : f[x] \in Nat, NEW P
  PROVE  /\ Total(f) = Total(Without(f, P)) + Summed(f, P \cap DOMAIN f)
         /\ Total(Without(f, P)) \in Nat /\ Summed(f, P \cap DOMAIN f) \in Nat
<1> DEFINE g == Without(f, P)
           S == DOMAIN f
<1>1. DOMAIN g = S \ P /\ \A x \in S \ P : g[x] = f[x]
  BY DEF Without
<1>2. IsFiniteSet(S \ P) /\ IsFiniteSet(S \cap P) /\ S \cap P = P \cap DOMAIN f
  BY FS_Subset
<1> HIDE DEF g
<1>3. Summed(f, S) = Summed(f, S \cap P) + Summed(f, S \ P)
  BY SummedSplit
<1>4. Summed(g, S \ P) = Summed(f, S \ P)
  BY <1>1, <1>2, SummedSame
<1>5. Summed(f, S \ P) \in Nat /\ Summed(f, S \cap P) \in Nat
  BY <1>2, SummedNat
<1> DEFINE a == Summed(f, S \ P)
           b == Summed(f, P \cap DOMAIN f)
<1>6. Total(g) = a /\ Total(f) = b + a /\ a \in Nat /\ b \in Nat
  BY <1>1, <1>2, <1>3, <1>4, <1>5, TotalIs
<1> HIDE DEF a, b
<1>7. Total(f) = Total(g) + b /\ Total(g) \in Nat /\ b \in Nat
  BY <1>6
<1> QED
  BY <1>7 DEF a, b, g

\* Entries added beside those that are there.
LEMMA TotalMerge ==
  ASSUME NEW f, IsFiniteSet(DOMAIN f), \A x \in DOMAIN f : f[x] \in Nat,
         NEW g, IsFiniteSet(DOMAIN g), \A x \in DOMAIN g : g[x] \in Nat,
         DOMAIN f \cap DOMAIN g = {}
  PROVE  Total(Merge(f, g)) = Total(f) + Total(g)
<1> DEFINE h == Merge(f, g)
           S == DOMAIN f \cup DOMAIN g
<1>1. /\ DOMAIN h = S
      /\ \A x \in DOMAIN f : h[x] = f[x]
      /\ \A x \in DOMAIN g : h[x] = g[x]
  BY DEF Merge
<1>2. IsFiniteSet(S)
  BY FS_Union
<1>3. S \cap DOMAIN f = DOMAIN f /\ S \ DOMAIN f = DOMAIN g
  OBVIOUS
<1> HIDE DEF h
<1>4. \A x \in S : h[x] \in Int
  BY <1>1
<1>5. Summed(h, S) = Summed(h, DOMAIN f) + Summed(h, DOMAIN g)
  <2> HIDE DEF S
  <2>1. Summed(h, S) = Summed(h, S \cap DOMAIN f) + Summed(h, S \ DOMAIN f)
    BY <1>2, <1>4, SummedSplit
  <2> QED
    BY <1>3, <2>1
<1>6. Summed(h, DOMAIN f) = Summed(f, DOMAIN f) /\ Summed(h, DOMAIN g) = Summed(g, DOMAIN g)
  BY <1>1, SummedSame
<1>7. Total(h) = Total(f) + Total(g)
  BY <1>1, <1>5, <1>6, TotalIs
<1> QED
  BY <1>7 DEF h

\* One unit for each member.
LEMMA TotalOnes ==
  ASSUME NEW S, IsFiniteSet(S)
  PROVE  Total([x \in S |-> 1]) = Cardinality(S)
<1> DEFINE f == [x \in S |-> 1]
           Q == {T \in SUBSET S : Summed(f, T) = Cardinality(T)}
<1>1. ASSUME NEW T \in SUBSET S, \A x \in T : T \ {x} \in Q
      PROVE  T \in Q
  <2>0. IsFiniteSet(T)
    BY FS_Subset
  <2>1. Summed(f, T) = IF T = {} THEN 0 ELSE f[First(T)] + Summed(f, T \ {First(T)})
    BY <2>0, SummedFirst
  <2>2. CASE T = {}
    BY <2>1, <2>2, FS_EmptySet
  <2>3. CASE T # {}
    <3> DEFINE z == First(T)
    <3>1. z \in T /\ f[z] = 1
      BY <2>3, FirstIn
    <3>2. Summed(f, T) = 1 + Summed(f, T \ {z})
      BY <2>1, <2>3, <3>1
    <3>3. Summed(f, T \ {z}) = Cardinality(T \ {z})
      BY <1>1, <3>1
    <3>4. Cardinality(T) = Cardinality(T \ {z}) + 1 /\ Cardinality(T \ {z}) \in Nat
      BY <2>0, <3>1, Smaller
    <3>5. Summed(f, T) = Cardinality(T)
      <4> HIDE DEF z, f
      <4> QED
        BY <3>2, <3>3, <3>4
    <3> QED
      BY <3>5
  <2> QED
    BY <2>2, <2>3
<1>2. S \in Q
  <2> HIDE DEF Q
  <2> QED
    BY <1>1, FiniteInduction
<1>3. DOMAIN f = S
  OBVIOUS
<1> HIDE DEF f
<1> QED
  BY <1>2, <1>3, TotalIs DEF f

\* What MemOf says of the keys of P, added up.
LEMMA FreedIsSum ==
  ASSUME NEW s, NEW P
  PROVE  MapThenSumSet(LAMBDA p : MemOf(s, p), P) = Summed([p \in P |-> MemOf(s, p)], P)
<1> DEFINE f == [p \in P |-> MemOf(s, p)]
           A(g) == g = [t \in SUBSET P |-> IF t = {} THEN 0 ELSE MemOf(s, First(t)) + g[t \ {First(t)}]]
           B(g) == g = [t \in SUBSET P |-> IF t = {} THEN 0 ELSE f[First(t)] + g[t \ {First(t)}]]
<1>1. MapThenSumSet(LAMBDA p : MemOf(s, p), P) = (CHOOSE g : A(g))[P]
  BY DEF MapThenSumSet, MapThenFoldSet, First
<1>2. Summed(f, P) = (CHOOSE g : B(g))[P]
  BY DEF Summed, MapThenSumSet, MapThenFoldSet, First
<1>3. \A g : A(g) <=> B(g)
  <2>1. \A t \in SUBSET P : t # {} => f[First(t)] = MemOf(s, First(t))
    BY FirstIn
  <2> HIDE DEF f
  <2> QED
    BY <2>1
<1>4. (CHOOSE g : A(g)) = (CHOOSE g : B(g))
  <2> HIDE DEF A, B
  <2> QED
    BY <1>3
<1> QED
  BY <1>1, <1>2, <1>4

LEMMA FreedIs ==
  ASSUME NEW s, NEW P, IsFiniteSet(P), \A p \in DOMAIN s.mem : s.mem[p] \in Nat
  PROVE  MapThenSumSet(LAMBDA p : MemOf(s, p), P) = Summed(s.mem, P \cap DOMAIN s.mem)
<1> DEFINE f == [p \in P |-> MemOf(s, p)]
           D == DOMAIN s.mem
<1>1. MapThenSumSet(LAMBDA p : MemOf(s, p), P) = Summed(f, P)
  BY FreedIsSum
<1>2. \A p \in P : f[p] = IF p \in D THEN s.mem[p] ELSE 0
  BY DEF MemOf
<1>3. \A p \in P : f[p] \in Nat
  BY <1>2
<1>4. IsFiniteSet(P \cap D) /\ IsFiniteSet(P \ D)
  BY FS_Subset
<1>5. (\A p \in P \cap D : f[p] = s.mem[p]) /\ \A p \in P \ D : f[p] = 0
  BY <1>2
<1> HIDE DEF f
<1>6. Summed(f, P) = Summed(f, P \cap D) + Summed(f, P \ D)
  <2>1. \A p \in P : f[p] \in Int
    BY <1>3
  <2> HIDE DEF D
  <2> QED
    BY <2>1, SummedSplit
<1>7. Summed(f, P \cap D) = Summed(s.mem, P \cap D)
  BY <1>4, <1>5, SummedSame
<1>8. Summed(f, P \ D) = 0
  BY <1>4, <1>5, SummedZero
<1>9. Summed(f, P \cap D) \in Nat
  BY <1>3, <1>4, SummedNat
<1> DEFINE a == Summed(f, P \cap D)
<1>10. Summed(f, P) = a + 0 /\ a \in Nat
  BY <1>6, <1>8, <1>9
<1> HIDE DEF a
<1>11. Summed(f, P) = a
  BY <1>10
<1> QED
  BY <1>1, <1>7, <1>11 DEF a

\* The same sum under other names: g has at o[x] what f has at x.
LEMMA TotalRenamed ==
  ASSUME NEW f, IsFiniteSet(DOMAIN f), \A x \in DOMAIN f : f[x] \in Nat, NEW g, NEW o,
         DOMAIN g = {o[x] : x \in DOMAIN f},
         \A x \in DOMAIN f : g[o[x]] = f[x],
         \A x, y \in DOMAIN f : o[x] = o[y] => x = y
  PROVE  Total(g) = Total(f)
<1> DEFINE S == DOMAIN f
           Im(T) == {o[x] : x \in T}
           Q == {T \in SUBSET S : IsFiniteSet(Im(T)) /\ Summed(g, Im(T)) = Summed(f, T)}
<1>1. ASSUME NEW T \in SUBSET S, \A x \in T : T \ {x} \in Q
      PROVE  T \in Q
  <2>1. CASE T = {}
    <3>1. Im(T) = {}
      BY <2>1
    <3> HIDE DEF Im
    <3> QED
      BY <2>1, <3>1, SummedEmpty, FS_EmptySet
  <2>2. ASSUME NEW x \in T PROVE T \in Q
    <3> DEFINE U == T \ {x}
    <3>1. IsFiniteSet(Im(U)) /\ Summed(g, Im(U)) = Summed(f, U)
      BY <1>1
    <3>2. Im(T) = Im(U) \cup {o[x]} /\ o[x] \notin Im(U) /\ g[o[x]] = f[x]
      OBVIOUS
    <3>3. IsFiniteSet(T)
      BY FS_Subset
    <3>4. \A y \in Im(T) : g[y] \in Int
      OBVIOUS
    <3>5. \A y \in T : f[y] \in Int
      OBVIOUS
    <3> HIDE DEF Im
    <3>6. IsFiniteSet(Im(T)) /\ Im(T) \ {o[x]} = Im(U) /\ o[x] \in Im(T)
      <4>1. IsFiniteSet(Im(U) \cup {o[x]})
        BY <3>1, FS_AddElement
      <4>2. Im(T) \ {o[x]} = Im(U) /\ o[x] \in Im(T)
        BY <3>2
      <4> QED
        BY <3>2, <4>1, <4>2
    <3>7. Summed(g, Im(T)) = g[o[x]] + Summed(g, Im(U))
      <4>1. Summed(g, Im(T)) = g[o[x]] + Summed(g, Im(T) \ {o[x]})
        BY <3>4, <3>6, SummedRemove
      <4> QED
        BY <3>6, <4>1
    <3>8. Summed(f, T) = f[x] + Summed(f, U)
      BY <3>3, <3>5, SummedRemove
    <3> QED
      BY <3>1, <3>2, <3>6, <3>7, <3>8
  <2> QED
    BY <2>1, <2>2
<1>2. S \in Q
  <2> HIDE DEF Q
  <2> QED
    BY <1>1, FiniteInduction
<1> QED
  BY <1>2, TotalIs

-----------------------------------------------------------------------------
(* A store and its books.                                                  *)

IsValue(v) ==
  /\ v = [type |-> v.type, items |-> v.items]
  /\ v.type \in Container \cup {"string"}
  /\ DOMAIN v.items \subseteq Slot
  /\ \A x \in DOMAIN v.items : v.items[x] \in Size \cup {1}

Typed(s) ==
  /\ IsStore(s)
  /\ DOMAIN s.data \subseteq Pair /\ \A p \in DOMAIN s.data : IsValue(s.data[p])
  /\ DOMAIN s.mem \subseteq Pair /\ \A p \in DOMAIN s.mem : s.mem[p] \in Nat
  /\ s.used \in Nat
  /\ DOMAIN s.timers \subseteq Pair /\ \A p \in DOMAIN s.timers : s.timers[p] \in {"live", "elapsed"}
  /\ s.lru \subseteq Pair /\ s.bumped \subseteq Pair /\ s.logged \subseteq Pair

\* The books are exact: the keys charged are those stored, each for its value,
\* and the counter is what they are charged together.
Exact(s) ==
  /\ DOMAIN s.mem = DOMAIN s.data
  /\ \A p \in DOMAIN s.data : s.mem[p] = Bytes(p, s.data[p])
  /\ s.used = Total(s.mem)

\* Whatever the policy evicts on the way, a list is charged at least its bytes.
Paid(s) ==
  \A p \in DOMAIN s.data :
    s.data[p].type = "list" => p \in DOMAIN s.mem /\ s.mem[p] >= Bytes(p, s.data[p])

Filled(s) == \A p \in DOMAIN s.data : DOMAIN s.data[p].items # {}

\* When the books stay exact, and when no container stays empty.
Exacting ==
  policy = "noeviction" /\ ~RepeatFields /\ "zaddxx" \notin Calls /\ Exact(Store)
Filling == "zaddxx" \notin Calls /\ Filled(Store)

Booked(s) == Typed(s) /\ Paid(s) /\ (Exacting => Exact(s))
Well(s) == Booked(s) /\ (Filling => Filled(s))

LEMMA BytesNat ==
  ASSUME NEW p \in Pair, NEW v, IsValue(v)
  PROVE  Bytes(p, v) \in Nat /\ Total(v.items) \in Nat /\ KeyCost[p[2]] \in Nat
<1>1. KeyCost[p[2]] \in Nat
  BY KeyspaceAssumption DEF Pair
<1>2. IsFiniteSet(DOMAIN v.items)
  BY PairsFinite DEF IsValue
<1>3. \A x \in DOMAIN v.items : v.items[x] \in Nat
  BY KeyspaceAssumption DEF IsValue
<1>4. Total(v.items) \in Nat
  BY <1>2, <1>3, TotalNat
<1> QED
  BY <1>1, <1>4 DEF Bytes

Freed(s, P) == MapThenSumSet(LAMBDA p : MemOf(s, p), P)

LEMMA DeleteUsed ==
  ASSUME NEW s, IsStore(s), NEW P
  PROVE  DeleteKeys(s, P).used = AtLeast0(s.used - Freed(s, P))
BY DEF DeleteKeys, IsStore, Log, Bump, Freed

LEMMA FreedNat ==
  ASSUME NEW s, Typed(s), NEW P \in SUBSET Pair
  PROVE  /\ Freed(s, P) = Summed(s.mem, P \cap DOMAIN s.mem) /\ Freed(s, P) \in Nat
         /\ Total(s.mem) = Total(Without(s.mem, P)) + Freed(s, P)
         /\ Total(Without(s.mem, P)) \in Nat /\ Total(s.mem) \in Nat
<1>1. IsFiniteSet(P) /\ IsFiniteSet(DOMAIN s.mem) /\ \A p \in DOMAIN s.mem : s.mem[p] \in Nat
  BY PairsFinite DEF Typed
<1>2. Freed(s, P) = Summed(s.mem, P \cap DOMAIN s.mem)
  BY <1>1, FreedIs DEF Freed
<1> QED
  BY <1>1, <1>2, TotalWithout, TotalNat

\* Deleting keys keeps the books and never makes the counter larger.
LEMMA DeleteBooked ==
  ASSUME NEW s, Booked(s), NEW P \in SUBSET Pair
  PROVE  Booked(DeleteKeys(s, P)) /\ DeleteKeys(s, P).used <= s.used
<1> DEFINE t == DeleteKeys(s, P)
<1>1. /\ IsStore(t)
      /\ t.data = Without(s.data, P) /\ t.timers = Without(s.timers, P)
      /\ t.mem = Without(s.mem, P) /\ t.lru = s.lru \ P
      /\ t.bumped = s.bumped \cup (P \cap DOMAIN s.data)
      /\ t.logged = s.logged \cup (P \cap DOMAIN s.data)
  BY DeleteFields DEF Booked, Typed
<1>2. t.used = AtLeast0(s.used - Freed(s, P))
  BY DeleteUsed DEF Booked, Typed
<1>3. Freed(s, P) \in Nat /\ s.used \in Nat
  BY FreedNat DEF Booked, Typed
<1>4. Total(s.mem) = Total(t.mem) + Freed(s, P) /\ Total(t.mem) \in Nat
  BY <1>1, FreedNat DEF Booked
<1> HIDE DEF t
<1>5. t.used \in Nat /\ t.used <= s.used
  BY <1>2, <1>3 DEF AtLeast0
<1>6. Typed(t)
  BY <1>1, <1>5 DEF Booked, Typed, Without
<1>7. Paid(t)
  BY <1>1 DEF Booked, Paid, Without
<1>8. ASSUME Exacting PROVE Exact(t)
  <2>1. DOMAIN t.mem = DOMAIN t.data /\ \A p \in DOMAIN t.data : t.mem[p] = Bytes(p, t.data[p])
    BY <1>1, <1>8 DEF Booked, Exact, Without
  <2>2. s.used = Total(s.mem)
    BY <1>8 DEF Booked, Exact
  <2>3. t.used = Total(t.mem)
    BY <1>2, <1>3, <1>4, <2>2 DEF AtLeast0
  <2> QED
    BY <2>1, <2>3 DEF Exact
<1> QED
  BY <1>5, <1>6, <1>7, <1>8 DEF Booked, t

LEMMA DeleteWell ==
  ASSUME NEW s, Well(s), NEW P \in SUBSET Pair
  PROVE  Well(DeleteKeys(s, P)) /\ DeleteKeys(s, P).used <= s.used
<1>1. DeleteKeys(s, P).data = Without(s.data, P)
  BY DeleteFields DEF Well, Booked, Typed
<1>2. Filling => Filled(DeleteKeys(s, P))
  BY <1>1 DEF Well, Filled, Without
<1> QED
  BY <1>2, DeleteBooked DEF Well

LEMMA ExpiredWell ==
  ASSUME NEW s, Well(s), NEW p \in Pair
  PROVE  Well(CheckExpired(s, p)) /\ CheckExpired(s, p).used <= s.used
<1>1. {p} \in SUBSET Pair
  OBVIOUS
<1>2. s.used <= s.used
  BY DEF Well, Booked, Typed
<1> QED
  BY <1>1, <1>2, DeleteWell DEF CheckExpired

\* What changes no value and no byte count.
LEMMA EditWell ==
  ASSUME NEW s, Well(s), NEW t, IsStore(t),
         t.data = s.data, t.mem = s.mem, t.used = s.used,
         DOMAIN t.timers \subseteq Pair, \A p \in DOMAIN t.timers : t.timers[p] \in {"live", "elapsed"},
         t.lru \subseteq Pair, t.bumped \subseteq Pair, t.logged \subseteq Pair
  PROVE  Well(t) /\ t.used <= s.used
BY DEF Well, Booked, Typed, Paid, Exact, Filled

LEMMA TouchWell ==
  ASSUME NEW s, Well(s), NEW p \in Pair
  PROVE  Well(Touch(s, p)) /\ Touch(s, p).used = s.used /\ Touch(s, p).data = s.data
         /\ Touch(s, p).timers = s.timers /\ Touch(s, p).mem = s.mem
<1> DEFINE t == Touch(s, p)
<1>1. /\ IsStore(t) /\ t.data = s.data /\ t.mem = s.mem /\ t.used = s.used
      /\ t.timers = s.timers /\ t.lru = s.lru \cup {p}
      /\ t.bumped = s.bumped /\ t.logged = s.logged
  BY DEF Well, Booked, Typed, IsStore, Touch
<1> HIDE DEF t
<1>2. Well(t)
  BY <1>1, EditWell DEF Well, Booked, Typed
<1> QED
  BY <1>1, <1>2 DEF t

\* Within: no larger than before, or within the limit.
Within(s) == s.used <= usedMemory \/ maxmemory = 0 \/ s.used <= maxmemory

\* Admission: what it deletes keeps the books, and what it lets through fits.
LEMMA EnforceWell ==
  ASSUME NEW s, Well(s), NEW delta \in Int
  PROVE  \A a \in Enforce(s, delta) :
           /\ Well(a.st) /\ a.st.used <= s.used
           /\ policy = "noeviction" => a.st = s
           /\ ~a.full => maxmemory = 0 \/ a.st.used + delta <= maxmemory
<1>0. s.used <= s.used
  BY DEF Well, Booked, Typed
<1>1. CASE maxmemory = 0 \/ s.used + delta <= maxmemory
  BY <1>0, <1>1 DEF Enforce
<1>2. CASE ~(maxmemory = 0 \/ s.used + delta <= maxmemory) /\ policy = "noeviction"
  BY <1>0, <1>2 DEF Enforce
<1>3. CASE ~(maxmemory = 0 \/ s.used + delta <= maxmemory) /\ policy # "noeviction"
  <2> SUFFICES ASSUME NEW a \in Enforce(s, delta)
               PROVE  /\ Well(a.st) /\ a.st.used <= s.used
                      /\ ~a.full => a.st.used + delta <= maxmemory
    BY <1>3
  <2>1. PICK E \in Victims(s, delta) : a = [st |-> DeleteKeys(s, E), full |-> ~Fits(s, E, delta)]
    BY <1>3 DEF Enforce
  <2>2. E \in SUBSET Pair
    BY DEF Victims, Candidates, Well, Booked, Typed
  <2>3. Well(DeleteKeys(s, E)) /\ DeleteKeys(s, E).used <= s.used
    BY <2>2, DeleteWell
  <2>4. DeleteKeys(s, E).used = AtLeast0(s.used - Freed(s, E))
    BY DeleteUsed DEF Well, Booked, Typed
  <2>5. Fits(s, E, delta) = (AtLeast0(s.used - Freed(s, E)) + delta <= maxmemory)
    BY DEF Fits, Freed
  <2> QED
    BY <2>1, <2>3, <2>4, <2>5
<1> QED
  BY <1>1, <1>2, <1>3

LEMMA GrowthWell ==
  ASSUME NEW s, Well(s), NEW delta \in Int
  PROVE  \A a \in EnforceGrowth(s, delta) :
           /\ Well(a.st) /\ a.st.used <= s.used
           /\ policy = "noeviction" => a.st = s
           /\ ~a.full => maxmemory = 0 \/ a.st.used + delta <= maxmemory \/ delta <= 0
<1>0. s.used <= s.used
  BY DEF Well, Booked, Typed
<1>1. CASE delta > 0
  BY <1>1, EnforceWell DEF EnforceGrowth
<1>2. CASE ~(delta > 0)
  BY <1>0, <1>2 DEF EnforceGrowth
<1> QED
  BY <1>1, <1>2

-----------------------------------------------------------------------------
(* The calls an operation is made of.                                      *)

LEMMA MemOfNat ==
  ASSUME NEW s, Typed(s), NEW p
  PROVE  /\ MemOf(s, p) \in Nat
         /\ \A m \in Nat : /\ Total(Put(s.mem, p, m)) = Total(s.mem) + m - MemOf(s, p)
                           /\ Total(Put(s.mem, p, m)) \in Nat /\ Total(s.mem) \in Nat
<1>1. IsFiniteSet(DOMAIN s.mem) /\ \A q \in DOMAIN s.mem : s.mem[q] \in Nat
  BY PairsFinite DEF Typed
<1>2. MemOf(s, p) \in Nat
  BY <1>1 DEF MemOf
<1>3. ASSUME NEW m \in Nat
      PROVE  Total(Put(s.mem, p, m)) = Total(s.mem) + m - MemOf(s, p)
  BY <1>1, TotalPut DEF MemOf
<1>4. ASSUME NEW m \in Nat
      PROVE  Total(Put(s.mem, p, m)) \in Nat
  <2> DEFINE f == Put(s.mem, p, m)
  <2>1. DOMAIN f = DOMAIN s.mem \cup {p} /\ \A q \in DOMAIN f : f[q] \in Nat
    BY <1>1 DEF Put
  <2>2. IsFiniteSet(DOMAIN s.mem \cup {p})
    BY <1>1, FS_AddElement
  <2> HIDE DEF f
  <2>3. Total(f) \in Nat
    BY <2>1, <2>2, TotalNat
  <2> QED
    BY <2>3 DEF f
<1>5. Total(s.mem) \in Nat
  BY <1>1, TotalNat
<1> QED
  BY <1>2, <1>3, <1>4, <1>5

\* A value written, with what is charged for it.
LEMMA WriteBooked ==
  ASSUME NEW s, Booked(s), NEW t, IsStore(t), NEW p \in Pair, NEW v, IsValue(v), NEW m \in Nat,
         t.data = Put(s.data, p, v), t.mem = Put(s.mem, p, m), t.used \in Nat,
         t.timers = s.timers, t.lru = s.lru \cup {p}, t.bumped \subseteq Pair,
         t.logged \subseteq Pair,
         v.type = "list" => m >= Bytes(p, v),
         Exacting => m = Bytes(p, v) /\ t.used = s.used + m - MemOf(s, p)
  PROVE  Booked(t)
<1>1. Typed(t)
  BY DEF Booked, Typed, Put
<1>2. Paid(t)
  BY DEF Booked, Paid, Put
<1>3. ASSUME Exacting PROVE Exact(t)
  <2>1. t.used = Total(t.mem)
    BY <1>3, MemOfNat DEF Booked, Exact
  <2>2. DOMAIN t.mem = DOMAIN t.data /\ \A q \in DOMAIN t.data : t.mem[q] = Bytes(q, t.data[q])
    BY <1>3 DEF Booked, Exact, Put
  <2> QED
    BY <2>1, <2>2 DEF Exact
<1> QED
  BY <1>1, <1>2, <1>3 DEF Booked

LEMMA WrittenUsed ==
  ASSUME NEW s, IsStore(s), NEW d, NEW p, NEW m, NEW n
  PROVE  Written(s, d, p, m, n).used = n
BY DEF Written, Log, Bump, Touch, IsStore

LEMMA WrittenWell ==
  ASSUME NEW s, Well(s), NEW p \in Pair, NEW v, IsValue(v), NEW m \in Nat, NEW n \in Nat,
         v.type = "list" => m >= Bytes(p, v),
         Exacting => m = Bytes(p, v) /\ n = s.used + m - MemOf(s, p),
         Filling => DOMAIN v.items # {}
  PROVE  LET t == Written(s, Put(s.data, p, v), p, m, n)
         IN  Well(t) /\ t.used = n
<1> DEFINE t == Written(s, Put(s.data, p, v), p, m, n)
<1>1. /\ IsStore(t)
      /\ t.data = Put(s.data, p, v) /\ t.mem = Put(s.mem, p, m) /\ t.timers = s.timers
      /\ t.lru = s.lru \cup {p}
      /\ t.bumped = s.bumped \cup {p} /\ t.logged = s.logged \cup {p}
      /\ t.used = n
  BY WrittenFields, WrittenUsed DEF Well, Booked, Typed
<1>2. s.bumped \cup {p} \subseteq Pair /\ s.logged \cup {p} \subseteq Pair
  BY DEF Well, Booked, Typed
<1> HIDE DEF t
<1>3. Booked(t)
  BY <1>1, <1>2, WriteBooked DEF Well
<1>4. Filling => Filled(t)
  BY <1>1 DEF Well, Filled, Put
<1> QED
  BY <1>1, <1>3, <1>4 DEF Well, t

\* store.set
LEMMA StoreSetWell ==
  ASSUME NEW s, Well(s), NEW p \in Pair, NEW v, IsValue(v), DOMAIN v.items # {}, maxmemory \in Nat,
         usedMemory \in Nat
  PROVE  \A o \in StoreSet(s, p, v) : Well(o.st) /\ (Within(s) => Within(o.st))
<1> DEFINE m == Bytes(p, v)
           delta == m - MemOf(s, p)
           W(t) == Written(t, Put(t.data, p, v), p, m, AtLeast0(t.used + delta))
<1>1. \A o \in StoreSet(s, p, v) : \E a \in Enforce(s, delta) :
        o = IF a.full THEN Outcome(a.st, "oom") ELSE Outcome(W(a.st), "ok")
  BY DEF StoreSet, Written
<1>2. m \in Nat /\ MemOf(s, p) \in Nat /\ delta \in Int /\ s.used \in Nat
  <2>1. m \in Nat /\ MemOf(s, p) \in Nat /\ s.used \in Nat
    BY BytesNat, MemOfNat DEF Well, Booked, Typed
  <2> HIDE DEF m
  <2> QED
    BY <2>1
<1> HIDE DEF delta
<1>3. \A a \in Enforce(s, delta) :
        /\ Well(a.st) /\ a.st.used <= s.used
        /\ policy = "noeviction" => a.st = s
        /\ ~a.full => maxmemory = 0 \/ a.st.used + delta <= maxmemory
  BY <1>2, EnforceWell
<1>4. ASSUME NEW a \in Enforce(s, delta)
      PROVE  Well(a.st) /\ (Within(s) => Within(a.st))
  <2>1. a.st.used \in Nat
    BY <1>3 DEF Well, Booked, Typed
  <2> QED
    BY <1>2, <1>3, <2>1 DEF Within
<1>5. ASSUME NEW a \in Enforce(s, delta), ~a.full
      PROVE  Well(W(a.st)) /\ Within(W(a.st))
  <2> DEFINE t == a.st
             n == AtLeast0(t.used + delta)
  <2>1. Well(t) /\ t.used \in Nat
    BY <1>3 DEF Well, Booked, Typed
  <2>2. n \in Nat
    BY <1>2, <2>1 DEF AtLeast0
  <2>3. maxmemory = 0 \/ n <= maxmemory
    BY <1>2, <1>3, <1>5, <2>1 DEF AtLeast0
  <2>4. ASSUME Exacting PROVE n = t.used + m - MemOf(t, p)
    <3>1. t = s
      BY <1>3, <2>4 DEF Exacting
    <3>2. t.used = Total(t.mem)
      BY <2>1, <2>4 DEF Well, Booked, Exact
    <3>3. Total(t.mem) + m - MemOf(t, p) \in Nat
      <4>1. Total(Put(t.mem, p, m)) = Total(t.mem) + m - MemOf(t, p)
            /\ Total(Put(t.mem, p, m)) \in Nat
        BY <1>2, <2>1, MemOfNat DEF Well, Booked
      <4> QED
        BY <4>1
    <3>4. t.used + m - MemOf(t, p) \in Nat /\ t.used + delta = t.used + m - MemOf(t, p)
      BY <1>2, <2>1, <3>1, <3>2, <3>3 DEF delta
    <3> QED
      BY <3>4 DEF AtLeast0
  <2>5. m >= Bytes(p, v)
    BY <1>2
  <2> HIDE DEF n, t
  <2>6. Well(Written(t, Put(t.data, p, v), p, m, n))
        /\ Written(t, Put(t.data, p, v), p, m, n).used = n
    BY <1>2, <2>1, <2>2, <2>4, <2>5, WrittenWell
  <2> QED
    BY <2>3, <2>6 DEF Within, n, t
<1> HIDE DEF W
<1> QED
  BY <1>1, <1>4, <1>5 DEF Outcome

-----------------------------------------------------------------------------
(* The operations.                                                         *)

\* In order, and within the limit if it grew.
Fine(s) == Well(s) /\ Within(s) /\ maxmemory \in Nat /\ usedMemory \in Nat
AllFine(outcomes) == \A o \in outcomes : Fine(o.st)
AllWell(outcomes) == \A o \in outcomes : Well(o.st)

LEMMA DeleteFine ==
  ASSUME NEW s, Fine(s), NEW P \in SUBSET Pair
  PROVE  Fine(DeleteKeys(s, P))
<1> DEFINE t == DeleteKeys(s, P)
<1>1. Well(t) /\ t.used <= s.used
  BY DeleteWell DEF Fine
<1>2. t.used \in Nat /\ s.used \in Nat
  BY <1>1 DEF Fine, Well, Booked, Typed
<1> HIDE DEF t
<1>3. Within(t)
  BY <1>1, <1>2 DEF Fine, Within
<1> QED
  BY <1>1, <1>3 DEF Fine, t

LEMMA ExpiredFine ==
  ASSUME Fine(Store), NEW p \in Pair
  PROVE  Fine(CheckExpired(Store, p))
<1>1. {p} \in SUBSET Pair
  OBVIOUS
<1> QED
  BY <1>1, DeleteFine DEF CheckExpired

LEMMA EditFine ==
  ASSUME NEW s, Fine(s), NEW t, IsStore(t),
         t.data = s.data, t.mem = s.mem, t.used = s.used,
         DOMAIN t.timers \subseteq Pair, \A p \in DOMAIN t.timers : t.timers[p] \in {"live", "elapsed"},
         t.lru \subseteq Pair, t.bumped \subseteq Pair, t.logged \subseteq Pair
  PROVE  Fine(t)
<1>1. Well(t)
  BY EditWell DEF Fine
<1> QED
  BY <1>1 DEF Fine, Within

LEMMA SeenFine ==
  ASSUME NEW s, Fine(s), NEW p \in Pair
  PROVE  Fine(IF Has(s, p) THEN Touch(s, p) ELSE s)
<1>1. Fine(Touch(s, p))
  BY TouchWell DEF Fine, Within
<1> QED
  BY <1>1

\* A deadline set, moved or taken away.
LEMMA RetimedFine ==
  ASSUME NEW s, Fine(s), NEW f, DOMAIN f \subseteq Pair,
         \A p \in DOMAIN f : f[p] \in {"live", "elapsed"}
  PROVE  Fine([s EXCEPT !.timers = f])
<1> DEFINE t == [s EXCEPT !.timers = f]
<1>1. /\ IsStore(t) /\ t.timers = f
      /\ t.data = s.data /\ t.mem = s.mem /\ t.used = s.used /\ t.lru = s.lru
      /\ t.bumped = s.bumped /\ t.logged = s.logged
  BY DEF Fine, Well, Booked, Typed, IsStore
<1>2. s.lru \subseteq Pair /\ s.bumped \subseteq Pair /\ s.logged \subseteq Pair
  BY DEF Fine, Well, Booked, Typed
<1> HIDE DEF t
<1>3. Fine(t)
  BY <1>1, <1>2, EditFine
<1> QED
  BY <1>3 DEF t

LEMMA UntimedFine ==
  ASSUME NEW s, Fine(s), NEW p
  PROVE  Fine([s EXCEPT !.timers = Without(@, {p})])
<1> DEFINE f == Without(s.timers, {p})
<1>1. DOMAIN f \subseteq Pair /\ \A x \in DOMAIN f : f[x] \in {"live", "elapsed"}
  BY DEF Without, Fine, Well, Booked, Typed
<1> HIDE DEF f
<1>2. Fine([s EXCEPT !.timers = f])
  BY <1>1, RetimedFine
<1> QED
  BY <1>2 DEF f

LEMMA TimedFine ==
  ASSUME NEW s, Fine(s), NEW p \in Pair, NEW v \in {"live", "elapsed"}
  PROVE  Fine([s EXCEPT !.timers = Put(@, p, v)])
<1> DEFINE f == Put(s.timers, p, v)
<1>1. DOMAIN f \subseteq Pair /\ \A x \in DOMAIN f : f[x] \in {"live", "elapsed"}
  BY DEF Put, Fine, Well, Booked, Typed
<1> HIDE DEF f
<1>2. Fine([s EXCEPT !.timers = f])
  BY <1>1, RetimedFine
<1> QED
  BY <1>2 DEF f

LEMMA StrIsValue ==
  ASSUME NEW size \in Size
  PROVE  IsValue(Str(size)) /\ DOMAIN Str(size).items # {} /\ Str(size).type = "string"
BY DEF IsValue, Str, Slot

LEMMA StoreSetFine ==
  ASSUME NEW s, Fine(s), NEW p \in Pair, NEW size \in Size
  PROVE  AllFine(StoreSet(s, p, Str(size)))
BY StrIsValue, StoreSetWell DEF Fine, AllFine

LEMMA SetFine ==
  ASSUME Fine(Store), NEW p \in Pair, NEW size \in Size,
         NEW ttl \in {"none", "keep", "ex", "past"}
  PROVE  AllFine(Set(p, size, ttl)) /\ AllFine(Rewrite(p, size))
<1> DEFINE s == CheckExpired(Store, p)
           seen == IF Has(s, p) THEN Touch(s, p) ELSE s
           WithTtl(t) ==
             CASE ttl = "past" -> DeleteKeys(t, {p})
               [] ttl = "keep" -> IF p \in DOMAIN s.timers
                                  THEN [t EXCEPT !.timers = Put(@, p, s.timers[p])] ELSE t
               [] ttl = "ex"   -> [t EXCEPT !.timers = Put(@, p, "live")]
               [] ttl = "none" -> [t EXCEPT !.timers = Without(@, {p})]
<1>1. Fine(s) /\ Fine(seen)
  BY ExpiredFine, SeenFine
<1>2. p \in DOMAIN s.timers => s.timers[p] \in {"live", "elapsed"}
  BY <1>1 DEF Fine, Well, Booked, Typed
<1>3. ASSUME NEW t, Fine(t)
      PROVE  Fine(WithTtl(t))
  <2>1. Fine(DeleteKeys(t, {p}))
    <3>1. {p} \in SUBSET Pair
      OBVIOUS
    <3> QED
      BY <1>3, <3>1, DeleteFine
  <2>2. p \in DOMAIN s.timers => Fine([t EXCEPT !.timers = Put(@, p, s.timers[p])])
    BY <1>2, <1>3, TimedFine
  <2>3. Fine([t EXCEPT !.timers = Put(@, p, "live")])
    BY <1>3, TimedFine
  <2>4. Fine([t EXCEPT !.timers = Without(@, {p})])
    BY <1>3, UntimedFine
  <2>5. CASE ttl = "past"
    BY <2>1, <2>5
  <2>6. CASE ttl = "keep"
    BY <1>3, <2>2, <2>6
  <2>7. CASE ttl = "ex"
    BY <2>3, <2>7
  <2>8. CASE ttl = "none"
    BY <2>4, <2>8
  <2> QED
    BY <2>5, <2>6, <2>7, <2>8
<1>4. \A o \in Set(p, size, ttl) :
        \/ o = Outcome(s, "wrongtype") \/ o = Outcome(seen, "nil")
        \/ \E r \in StoreSet(seen, p, Str(size)) :
             o = IF r.reply = "ok" THEN Outcome(WithTtl(r.st), "ok") ELSE r
  BY DEF Set
<1>5. \A o \in Rewrite(p, size) : o.st = s \/ o \in StoreSet(seen, p, Str(size))
  BY DEF Rewrite, Outcome
<1>6. \A r \in StoreSet(seen, p, Str(size)) : Fine(r.st)
  BY <1>1, StoreSetFine DEF AllFine
<1> HIDE DEF s, seen, WithTtl
<1> QED
  BY <1>1, <1>3, <1>4, <1>5, <1>6 DEF Outcome, AllFine

LEMMA MsetFine ==
  ASSUME Fine(Store), NEW p \in Pair, NEW q \in Pair, NEW m \in Size, NEW n \in Size
  PROVE  AllFine(Mset(p, m, q, n))
<1> DEFINE Step(t, x, size) == {[r.st EXCEPT !.timers = Without(@, {x})] :
                                  r \in StoreSet(t, x, Str(size))}
           Delta(x, size) == Bytes(x, Str(size)) - MemOf(Store, x)
           A == EnforceGrowth(Store, Delta(p, m) + Delta(q, n))
<1>1. ASSUME NEW t, Fine(t), NEW x \in Pair, NEW size \in Size
      PROVE  \A u \in Step(t, x, size) : Fine(u)
  <2>1. \A r \in StoreSet(t, x, Str(size)) : Fine(r.st)
    BY <1>1, StoreSetFine DEF AllFine
  <2>2. \A r \in StoreSet(t, x, Str(size)) :
          LET u == [r.st EXCEPT !.timers = Without(@, {x})] IN Fine(u)
    BY <2>1, UntimedFine
  <2> QED
    BY <2>2
<1>2. Delta(p, m) + Delta(q, n) \in Int
  <2>1. \A x \in Pair : \A size \in Size : Bytes(x, Str(size)) \in Nat
    BY StrIsValue, BytesNat
  <2>2. \A x : MemOf(Store, x) \in Nat
    BY MemOfNat DEF Fine, Well, Booked
  <2> QED
    BY <2>1, <2>2
<1>3. \A a \in A : Fine(a.st)
  <2> DEFINE d == Delta(p, m) + Delta(q, n)
  <2>1. d \in Int
    BY <1>2
  <2> HIDE DEF d
  <2>2. \A a \in EnforceGrowth(Store, d) : Well(a.st) /\ a.st.used <= Store.used
    BY <2>1, GrowthWell DEF Fine
  <2>3. Store.used = usedMemory
    BY DEF Store
  <2>4. \A a \in EnforceGrowth(Store, d) : Fine(a.st)
    BY <2>2, <2>3 DEF Fine, Within
  <2> QED
    BY <2>4 DEF d
<1>4. \A o \in Mset(p, m, q, n) : \E a \in A :
        \/ o = Outcome(a.st, "oom")
        \/ \E u \in UNION {Step(t, q, n) : t \in Step(a.st, p, m)} : o = Outcome(u, "ok")
  BY DEF Mset
<1> HIDE DEF Step, A
<1>5. \A a \in A : \A u \in UNION {Step(t, q, n) : t \in Step(a.st, p, m)} : Fine(u)
  BY <1>1, <1>3
<1> QED
  BY <1>3, <1>4, <1>5 DEF Outcome, AllFine

\* What admission leaves at a pair is what was there, or nothing.
LEMMA GrowthData ==
  ASSUME NEW s, Fine(s), NEW delta
  PROVE  \A a \in EnforceGrowth(s, delta) : \A p :
           Has(a.st, p) => Has(s, p) /\ a.st.data[p] = s.data[p]
<1>1. \A E : DeleteKeys(s, E).data = Without(s.data, E)
  BY DeleteFields DEF Fine, Well, Booked, Typed
<1>2. \A a \in EnforceGrowth(s, delta) : a.st = s \/ \E E : a.st = DeleteKeys(s, E)
  BY DEF EnforceGrowth, Enforce
<1>3. \A E, p : LET t == DeleteKeys(s, E)
                IN  Has(t, p) => Has(s, p) /\ t.data[p] = s.data[p]
  BY <1>1 DEF Has, Without
<1> QED
  BY <1>2, <1>3

\* A container the operation read is gone: only the byte counts are written.
LEMMA LostWell ==
  ASSUME NEW s, Well(s), ~Exacting, NEW p \in Pair, ~Has(s, p), NEW m \in Nat, NEW n \in Nat
  PROVE  LET t == Written(s, s.data, p, m, n) IN Well(t) /\ t.used = n
<1> DEFINE t == Written(s, s.data, p, m, n)
<1>1. /\ IsStore(t)
      /\ t.data = s.data /\ t.mem = Put(s.mem, p, m) /\ t.timers = s.timers
      /\ t.lru = s.lru \cup {p}
      /\ t.bumped = s.bumped \cup {p} /\ t.logged = s.logged \cup {p}
      /\ t.used = n
  BY WrittenFields, WrittenUsed DEF Well, Booked, Typed
<1> HIDE DEF t
<1>2. Typed(t)
  BY <1>1 DEF Well, Booked, Typed, Put
<1>3. Paid(t)
  BY <1>1 DEF Well, Booked, Paid, Put, Has
<1>4. Filling => Filled(t)
  BY <1>1 DEF Well, Filled
<1>5. Well(t)
  BY <1>2, <1>3, <1>4 DEF Well, Booked
<1> QED
  BY <1>1, <1>5 DEF t

LEMMA InsertFine ==
  ASSUME NEW s, Fine(s), NEW p \in Pair, NEW type, NEW items, IsValue([type |-> type, items |-> items]),
         NEW delta \in Int, Filling => DOMAIN items # {},
         (type = "list" \/ Exacting) /\ OfType(s, p, type) =>
           delta = Bytes(p, [type |-> type, items |-> items])
                     - (IF Has(s, p) THEN Bytes(p, s.data[p]) ELSE 0)
  PROVE  AllFine(Insert(s, p, type, items, delta))
<1> DEFINE v == [type |-> type, items |-> items]
           D(t) == IF Has(s, p) /\ ~Has(t, p) THEN t.data ELSE Put(t.data, p, v)
           W(t) == Written(t, D(t), p, AtLeast0(MemOf(t, p) + delta), AtLeast0(t.used + delta))
<1>1. \A o \in Insert(s, p, type, items, delta) :
        \/ o.st = s
        \/ OfType(s, p, type) /\ \E a \in EnforceGrowth(s, delta) :
             o.st = IF a.full THEN a.st ELSE W(a.st)
  <2>1. \A o \in Insert(s, p, type, items, delta) :
          \/ o = Outcome(s, "wrongtype")
          \/ OfType(s, p, type) /\ \E a \in EnforceGrowth(s, delta) :
               o = IF a.full THEN Outcome(a.st, "oom") ELSE Outcome(W(a.st), "ok")
    BY DEF Insert, Written
  <2> HIDE DEF W
  <2> QED
    BY <2>1 DEF Outcome
<1>2. \A a \in EnforceGrowth(s, delta) :
        /\ Well(a.st) /\ a.st.used <= s.used
        /\ policy = "noeviction" => a.st = s
        /\ ~a.full => maxmemory = 0 \/ a.st.used + delta <= maxmemory \/ delta <= 0
  BY GrowthWell DEF Fine
<1>3. s.used \in Nat
  BY DEF Fine, Well, Booked, Typed
<1>4. ASSUME NEW a \in EnforceGrowth(s, delta)
      PROVE  Fine(a.st) /\ a.st.used \in Nat
  <2>1. a.st.used \in Nat
    BY <1>2 DEF Well, Booked, Typed
  <2> QED
    BY <1>2, <1>3, <2>1 DEF Fine, Within
<1>5. ASSUME NEW a \in EnforceGrowth(s, delta), ~a.full, OfType(s, p, type)
      PROVE  Fine(W(a.st))
  <2> DEFINE t == a.st
             m == AtLeast0(MemOf(t, p) + delta)
             n == AtLeast0(t.used + delta)
  <2>1. Well(t) /\ t.used \in Nat /\ MemOf(t, p) \in Nat /\ t.used <= s.used
    BY <1>2, <1>4, MemOfNat DEF Well, Booked
  <2>2. m \in Nat /\ n \in Nat
    BY <2>1 DEF AtLeast0
  <2>3. n <= usedMemory \/ maxmemory = 0 \/ n <= maxmemory
    <3> DEFINE u == t.used
    <3>1. /\ u \in Nat /\ u <= s.used
          /\ maxmemory = 0 \/ u + delta <= maxmemory \/ delta <= 0
          /\ s.used <= usedMemory \/ maxmemory = 0 \/ s.used <= maxmemory
          /\ maxmemory \in Nat /\ usedMemory \in Nat
      BY <1>2, <1>5, <2>1 DEF Fine, Within
    <3> HIDE DEF u
    <3>2. LET k == AtLeast0(u + delta)
          IN  k <= usedMemory \/ maxmemory = 0 \/ k <= maxmemory
      BY <1>3, <3>1 DEF AtLeast0
    <3> QED
      BY <3>2 DEF u
  <2>4. Has(t, p) => Has(s, p) /\ t.data[p] = s.data[p]
    BY GrowthData
  <2>5. Bytes(p, v) \in Nat
    BY BytesNat
  <2>6. CASE Has(s, p) /\ ~Has(t, p)
    <3>1. ~Exacting
      BY <1>2, <2>6 DEF Exacting
    <3>2. W(t) = Written(t, t.data, p, m, n)
      BY <2>6
    <3> HIDE DEF W, m, n
    <3>3. Well(W(t)) /\ W(t).used = n
      BY <2>1, <2>2, <2>6, <3>1, <3>2, LostWell
    <3> QED
      BY <2>3, <3>3 DEF Fine, Within
  <2>7. CASE ~(Has(s, p) /\ ~Has(t, p))
    <3> DEFINE old == IF Has(s, p) THEN Bytes(p, s.data[p]) ELSE 0
    <3>1. W(t) = Written(t, Put(t.data, p, v), p, m, n)
      BY <2>7
    <3>2. old \in Nat
      <4>1. Has(s, p) => IsValue(s.data[p])
        BY DEF Has, Fine, Well, Booked, Typed
      <4> QED
        BY <4>1, BytesNat
    <3>3. ASSUME type = "list" PROVE m >= Bytes(p, v)
      <4>1. delta = Bytes(p, v) - old
        BY <1>5, <3>3
      <4>2. MemOf(t, p) >= old
        <5>1. CASE Has(s, p)
          <6>1. p \in DOMAIN t.data /\ t.data[p].type = "list" /\ t.data[p] = s.data[p]
            BY <1>5, <2>4, <2>7, <3>3, <5>1 DEF OfType, Has
          <6>2. p \in DOMAIN t.mem /\ t.mem[p] >= Bytes(p, t.data[p])
            BY <2>1, <6>1 DEF Well, Booked, Paid
          <6> QED
            BY <5>1, <6>1, <6>2 DEF MemOf
        <5>2. CASE ~Has(s, p)
          BY <2>1, <5>2
        <5> QED
          BY <5>1, <5>2
      <4> DEFINE b == Bytes(p, v)
      <4> HIDE DEF b, old
      <4>3. AtLeast0(MemOf(t, p) + delta) >= b
        BY <2>1, <2>5, <3>2, <4>1, <4>2 DEF AtLeast0, b
      <4> QED
        BY <4>3 DEF b
    <3>4. ASSUME Exacting
          PROVE  m = Bytes(p, v) /\ n = t.used + m - MemOf(t, p)
      <4>1. t = s /\ delta = Bytes(p, v) - old
        BY <1>2, <1>5, <3>4 DEF Exacting
      <4>2. Exact(t)
        BY <2>1, <3>4 DEF Well, Booked
      <4>3. MemOf(t, p) = old
        BY <4>1, <4>2 DEF MemOf, Exact, Has
      <4> DEFINE b == Bytes(p, v)
      <4>4. m = b
        <5> HIDE DEF b, old
        <5> QED
          BY <2>1, <2>5, <3>2, <4>1, <4>3 DEF AtLeast0, b
      <4>5. t.used + b - MemOf(t, p) \in Nat
        <5>1. \A k \in Nat : /\ Total(Put(t.mem, p, k)) = Total(t.mem) + k - MemOf(t, p)
                             /\ Total(Put(t.mem, p, k)) \in Nat
          BY <2>1, MemOfNat DEF Well, Booked
        <5>2. b \in Nat /\ t.used = Total(t.mem)
          BY <2>5, <4>2 DEF Exact
        <5> HIDE DEF b
        <5> QED
          BY <5>1, <5>2
      <4>6. n = t.used + b - MemOf(t, p)
        <5> HIDE DEF b, old, m
        <5> QED
          BY <2>1, <2>5, <3>2, <4>1, <4>3, <4>5 DEF AtLeast0, b
      <4> QED
        BY <4>4, <4>6
    <3> HIDE DEF W, m, n
    <3>5. Well(Written(t, Put(t.data, p, v), p, m, n))
          /\ Written(t, Put(t.data, p, v), p, m, n).used = n
      BY <2>1, <2>2, <3>3, <3>4, WrittenWell
    <3> QED
      BY <2>3, <3>1, <3>5 DEF Fine, Within
  <2> QED
    BY <2>6, <2>7
<1> HIDE DEF W
<1> QED
  BY <1>1, <1>4, <1>5 DEF AllFine

\* The items of a container of a store in order.
LEMMA ItemsFine ==
  ASSUME NEW s, Well(s), NEW p \in Pair
  PROVE  LET f == ItemsOf(s, p)
         IN  /\ DOMAIN f \subseteq Slot /\ IsFiniteSet(DOMAIN f)
             /\ \A x \in DOMAIN f : f[x] \in Size \cup {1} /\ f[x] \in Nat
             /\ Has(s, p) => IsValue(s.data[p]) /\ f = s.data[p].items
             /\ Has(s, p) => Bytes(p, s.data[p]) = KeyCost[p[2]] + Total(f)
             /\ Total(f) \in Nat /\ KeyCost[p[2]] \in Nat
<1> DEFINE f == ItemsOf(s, p)
<1>1. Has(s, p) => IsValue(s.data[p]) /\ f = s.data[p].items
  BY DEF Has, Well, Booked, Typed, ItemsOf
<1>2. DOMAIN f \subseteq Slot /\ \A x \in DOMAIN f : f[x] \in Size \cup {1}
  BY <1>1 DEF ItemsOf, IsValue
<1>3. \A x \in DOMAIN f : f[x] \in Nat
  <2> HIDE DEF f
  <2>1. \A n \in Size \cup {1} : n \in Nat
    BY KeyspaceAssumption
  <2> QED
    BY <1>2, <2>1
<1>4. IsFiniteSet(DOMAIN f)
  BY <1>2, PairsFinite
<1>5. Has(s, p) => Bytes(p, s.data[p]) = KeyCost[p[2]] + Total(f)
  BY <1>1 DEF Bytes
<1>6. KeyCost[p[2]] \in Nat
  BY KeyspaceAssumption DEF Pair
<1> HIDE DEF f
<1>7. Total(f) \in Nat
  BY <1>3, <1>4, TotalNat
<1> QED
  BY <1>1, <1>2, <1>3, <1>4, <1>5, <1>6, <1>7 DEF f

\* Elements added to a container make a value.
LEMMA MergedValue ==
  ASSUME NEW f, DOMAIN f \subseteq Slot, \A x \in DOMAIN f : f[x] \in Size \cup {1},
         NEW g, DOMAIN g \subseteq Slot, \A x \in DOMAIN g : g[x] \in Size \cup {1},
         NEW type \in Container \cup {"string"}
  PROVE  IsValue([type |-> type, items |-> Merge(f, g)])
         /\ DOMAIN Merge(f, g) = DOMAIN f \cup DOMAIN g
BY DEF IsValue, Merge

LEMMA PushFine ==
  ASSUME Fine(Store), NEW p \in Pair, NEW S \in (SUBSET Elem) \ {{}}, NEW added \in [S -> Size],
         S \cap DOMAIN ItemsOf(CheckExpired(Store, p), p) = {}
  PROVE  AllFine(Push(p, added))
<1> DEFINE s == CheckExpired(Store, p)
           f == ItemsOf(s, p)
           v == [type |-> "list", items |-> Merge(f, added)]
           delta == NewCost(s, p) + Total(added)
<1>1. Fine(s)
  BY ExpiredFine
<1> HIDE DEF s
<1>2. /\ DOMAIN f \subseteq Slot /\ IsFiniteSet(DOMAIN f)
      /\ \A x \in DOMAIN f : f[x] \in Size \cup {1}
      /\ \A x \in DOMAIN f : f[x] \in Nat
      /\ Has(s, p) => Bytes(p, s.data[p]) = KeyCost[p[2]] + Total(f)
      /\ Total(f) \in Nat /\ KeyCost[p[2]] \in Nat
  BY <1>1, ItemsFine DEF Fine
<1>3. /\ DOMAIN added = S /\ S \subseteq Slot /\ S # {}
      /\ \A x \in S : added[x] \in Size \cup {1} /\ added[x] \in Nat
  BY KeyspaceAssumption DEF Slot
<1>4. IsFiniteSet(S)
  BY <1>3, PairsFinite
<1>5. Total(added) \in Nat
  BY <1>3, <1>4, TotalNat
<1>6. IsValue(v) /\ DOMAIN v.items = DOMAIN f \cup S
  BY <1>2, <1>3, MergedValue DEF Container
<1>7. Total(Merge(f, added)) = Total(f) + Total(added)
  <2>1. DOMAIN f \cap DOMAIN added = {}
    BY <1>3 DEF s
  <2> QED
    BY <1>2, <1>3, <1>4, <2>1, TotalMerge
<1>8. Bytes(p, v) = KeyCost[p[2]] + (Total(f) + Total(added))
  BY <1>7 DEF Bytes
<1>9. ~Has(s, p) => Total(f) = 0
  <2>1. ~Has(s, p) => DOMAIN f = {}
    BY DEF ItemsOf
  <2> QED
    BY <2>1, TotalIs, SummedEmpty
<1>10. delta \in Int /\ delta = Bytes(p, v) - (IF Has(s, p) THEN Bytes(p, s.data[p]) ELSE 0)
  <2> DEFINE a == Total(f)
             b == Total(added)
             c == KeyCost[p[2]]
  <2>1. a \in Nat /\ b \in Nat /\ c \in Nat
    BY <1>2, <1>5
  <2>2. delta = (IF Has(s, p) THEN 0 ELSE c) + b
    BY DEF NewCost
  <2>3. Bytes(p, v) = c + (a + b) /\ (Has(s, p) => Bytes(p, s.data[p]) = c + a) /\ (~Has(s, p) => a = 0)
    BY <1>2, <1>8, <1>9
  <2> HIDE DEF a, b, c, delta, v
  <2> QED
    BY <2>1, <2>2, <2>3
<1>11. Push(p, added) = Insert(s, p, "list", Merge(f, added), delta)
  BY DEF Push, s
<1>12. DOMAIN Merge(f, added) # {}
  BY <1>3, <1>6
<1> HIDE DEF f, delta
<1> QED
  BY <1>1, <1>6, <1>10, <1>11, <1>12, InsertFine

LEMMA TwoEnds ==
  ASSUME NEW B \in SUBSET (1..2), B # {}
  PROVE  Min(B) \in B /\ Max(B) \in B
<1>1. (1 \in B \/ 2 \in B) /\ \A i \in B : i = 1 \/ i = 2
  <2>1. \A i \in 1..2 : i = 1 \/ i = 2
    OBVIOUS
  <2>2. \A i \in B : i = 1 \/ i = 2
    BY <2>1
  <2> QED
    BY <2>2
<1>2. \E i \in B : \A j \in B : i <= j
  <2>1. CASE 1 \in B
    BY <1>1, <2>1
  <2>2. CASE 1 \notin B
    BY <1>1, <2>2
  <2> QED
    BY <2>1, <2>2
<1>3. \E i \in B : \A j \in B : i >= j
  <2>1. CASE 2 \in B
    BY <1>1, <2>1
  <2>2. CASE 2 \notin B
    BY <1>1, <2>2
  <2> QED
    BY <2>1, <2>2
<1> QED
  BY <1>2, <1>3 DEF Min, Max

\* An overwritten field is charged the difference (hashSet), whatever the pairs repeat.
LEMMA HsetFine ==
  ASSUME Fine(Store), NEW p \in Pair, NEW n \in 1..2, NEW pairs \in [1..n -> Elem \X Size],
         RepeatFields \/ \A i, j \in 1..n : i # j => pairs[i][1] # pairs[j][1]
  PROVE  AllFine(Hset(p, pairs))
<1> DEFINE s == CheckExpired(Store, p)
           f == ItemsOf(s, p)
           fields == {pairs[i][1] : i \in DOMAIN pairs}
           At(x) == {i \in DOMAIN pairs : pairs[i][1] = x}
           first == [x \in fields |-> pairs[Min(At(x))][2]]
           final == [x \in fields |-> pairs[Max(At(x))][2]]
           v == [type |-> "hash", items |-> Merge(f, final)]
           delta == HashDelta(s, p, first, final)
<1>1. Fine(s)
  BY ExpiredFine
<1> HIDE DEF s
<1>2. /\ DOMAIN f \subseteq Slot /\ IsFiniteSet(DOMAIN f)
      /\ \A x \in DOMAIN f : f[x] \in Size \cup {1}
      /\ Has(s, p) => Bytes(p, s.data[p]) = KeyCost[p[2]] + Total(f)
      /\ Total(f) \in Nat /\ KeyCost[p[2]] \in Nat
  BY <1>1, ItemsFine DEF Fine
<1>3. fields \subseteq Slot /\ fields # {}
  <2>1. DOMAIN pairs = 1..n /\ 1 \in 1..n /\ \A i \in 1..n : pairs[i] \in Elem \X Size
    OBVIOUS
  <2> QED
    BY <2>1 DEF Slot
<1>4. \A x \in fields : Min(At(x)) \in At(x) /\ Max(At(x)) \in At(x)
  <2> SUFFICES ASSUME NEW x \in fields PROVE Min(At(x)) \in At(x) /\ Max(At(x)) \in At(x)
    OBVIOUS
  <2>1. At(x) # {} /\ At(x) \subseteq 1..2
    OBVIOUS
  <2> HIDE DEF At
  <2> QED
    BY <2>1, TwoEnds
<1>5. \A x \in fields : first[x] \in Size /\ final[x] \in Size
  <2>1. \A i \in DOMAIN pairs : pairs[i][2] \in Size
    OBVIOUS
  <2> QED
    BY <1>4, <2>1
<1>6. DOMAIN first = fields /\ DOMAIN final = fields
  OBVIOUS
<1>7. ~RepeatFields => first = final
  <2> SUFFICES ASSUME ~RepeatFields, NEW x \in fields PROVE Min(At(x)) = Max(At(x))
    OBVIOUS
  <2>1. \A i, j \in At(x) : i = j
    OBVIOUS
  <2> HIDE DEF At
  <2> QED
    BY <1>4, <2>1
<1> HIDE DEF fields, first, final
<1>8. IsValue(v) /\ DOMAIN v.items = DOMAIN f \cup fields
  BY <1>2, <1>3, <1>5, <1>6, MergedValue DEF Container
<1>9. Total(first) \in Nat /\ Total(Merge(f, final)) \in Nat /\ Bytes(p, v) \in Nat
  <2>1. IsFiniteSet(fields) /\ \A x \in fields : first[x] \in Nat
    BY <1>3, <1>5, PairsFinite, KeyspaceAssumption
  <2>2. Total(first) \in Nat
    BY <1>6, <2>1, TotalNat
  <2> QED
    BY <1>8, <2>2, BytesNat
<1>10. Bytes(p, v) = KeyCost[p[2]] + Total(Merge(f, final))
  BY DEF Bytes
<1>11. delta = IF Has(s, p) THEN Total(Merge(f, final)) - Total(f) ELSE KeyCost[p[2]] + Total(first)
  BY DEF HashDelta
<1>12. ~Has(s, p) /\ ~RepeatFields => Total(Merge(f, final)) = Total(first)
  <2> SUFFICES ASSUME ~Has(s, p), ~RepeatFields PROVE Total(Merge(f, final)) = Total(final)
    BY <1>7
  <2>1. DOMAIN f = {}
    BY DEF ItemsOf
  <2>2. Merge(f, final) = [x \in fields |-> final[x]]
    BY <1>6, <2>1 DEF Merge
  <2>3. \A x \in fields : Merge(f, final)[x] = final[x]
    BY <2>2
  <2>4. DOMAIN Merge(f, final) = fields
    BY <2>2
  <2>5. IsFiniteSet(fields)
    BY <1>3, PairsFinite
  <2>6. Summed(Merge(f, final), fields) = Summed(final, fields)
    BY <2>3, <2>5, SummedSame
  <2> QED
    BY <1>6, <2>4, <2>6, TotalIs
<1>13. /\ delta \in Int
       /\ Exacting => delta = Bytes(p, v) - (IF Has(s, p) THEN Bytes(p, s.data[p]) ELSE 0)
  <2> DEFINE a == Total(f)
             b == Total(first)
             c == KeyCost[p[2]]
             d == Total(Merge(f, final))
  <2>1. a \in Nat /\ b \in Nat /\ c \in Nat /\ d \in Nat
    BY <1>2, <1>9
  <2>2. delta = IF Has(s, p) THEN d - a ELSE c + b
    BY <1>11
  <2>3. Bytes(p, v) = c + d /\ (Has(s, p) => Bytes(p, s.data[p]) = c + a)
        /\ (~Has(s, p) /\ ~RepeatFields => d = b)
    BY <1>2, <1>10, <1>12
  <2>4. Exacting => ~RepeatFields
    BY DEF Exacting
  <2> HIDE DEF a, b, c, d, delta, v
  <2> QED
    BY <2>1, <2>2, <2>3, <2>4
<1>14. Hset(p, pairs) = Insert(s, p, "hash", Merge(f, final), delta)
  BY DEF Hset, s, fields, first, final
<1>15. DOMAIN Merge(f, final) # {}
  BY <1>3, <1>8
<1> HIDE DEF f, delta
<1> QED
  BY <1>1, <1>8, <1>13, <1>14, <1>15, InsertFine

\* SADD and ZADD charge one unit for each member that is new.
LEMMA AddFine ==
  ASSUME Fine(Store), NEW p \in Pair, NEW type \in {"set", "zset"},
         NEW members \in (SUBSET Elem) \ {{}}, NEW xx \in BOOLEAN, xx => "zaddxx" \in Calls
  PROVE  AllFine(AddMembers(p, type, members, xx))
<1> DEFINE s == CheckExpired(Store, p)
           f == ItemsOf(s, p)
           added == IF xx THEN {} ELSE members \ DOMAIN f
           ones == [m \in added |-> 1]
           v == [type |-> type, items |-> Merge(f, ones)]
           delta == Cardinality(added) + IF added = {} THEN 0 ELSE NewCost(s, p)
<1>1. Fine(s)
  BY ExpiredFine
<1> HIDE DEF s
<1>2. /\ DOMAIN f \subseteq Slot /\ IsFiniteSet(DOMAIN f)
      /\ \A x \in DOMAIN f : f[x] \in Size \cup {1}
      /\ \A x \in DOMAIN f : f[x] \in Nat
      /\ Has(s, p) => Bytes(p, s.data[p]) = KeyCost[p[2]] + Total(f)
      /\ Total(f) \in Nat /\ KeyCost[p[2]] \in Nat
  BY <1>1, ItemsFine DEF Fine
<1>3. added \subseteq Slot /\ added \cap DOMAIN f = {} /\ (~xx => DOMAIN f \cup added # {})
  BY DEF Slot
<1>4. IsFiniteSet(added) /\ Cardinality(added) \in Nat
  BY <1>3, PairsFinite, FS_CardinalityType
<1>5. /\ DOMAIN ones = added
      /\ \A x \in added : ones[x] \in Size \cup {1} /\ ones[x] \in Nat
  OBVIOUS
<1>6. Total(ones) = Cardinality(added)
  BY <1>4, TotalOnes
<1>7. ~xx /\ ~Has(s, p) => added # {} /\ DOMAIN f = {}
  BY DEF ItemsOf
<1> HIDE DEF f, added, ones
<1>8. IsValue(v) /\ DOMAIN v.items = DOMAIN f \cup added
  BY <1>2, <1>3, <1>5, MergedValue DEF Container
<1>9. Total(Merge(f, ones)) = Total(f) + Cardinality(added)
  BY <1>2, <1>3, <1>4, <1>5, <1>6, TotalMerge
<1>10. Bytes(p, v) = KeyCost[p[2]] + (Total(f) + Cardinality(added))
  BY <1>9 DEF Bytes
<1>11. ~xx /\ ~Has(s, p) => Total(f) = 0
  BY <1>7, TotalIs, SummedEmpty
<1>12. Filling \/ Exacting => ~xx
  BY DEF Filling, Exacting
<1>13. /\ delta \in Int
       /\ Exacting => delta = Bytes(p, v) - (IF Has(s, p) THEN Bytes(p, s.data[p]) ELSE 0)
  <2> DEFINE a == Total(f)
             b == Cardinality(added)
             c == KeyCost[p[2]]
  <2>1. a \in Nat /\ b \in Nat /\ c \in Nat
    BY <1>2, <1>4
  <2>2. delta = b + (IF added = {} \/ Has(s, p) THEN 0 ELSE c)
    BY DEF NewCost
  <2>3. /\ Bytes(p, v) = c + (a + b)
        /\ Has(s, p) => Bytes(p, s.data[p]) = c + a
        /\ Exacting /\ ~Has(s, p) => a = 0 /\ added # {}
    BY <1>2, <1>7, <1>10, <1>11, <1>12
  <2> HIDE DEF a, b, c, delta, v
  <2>4. delta \in Int
    BY <2>1, <2>2
  <2>5. ASSUME Exacting
        PROVE  delta = Bytes(p, v) - (IF Has(s, p) THEN Bytes(p, s.data[p]) ELSE 0)
    <3>1. CASE Has(s, p)
      BY <2>1, <2>2, <2>3, <3>1
    <3>2. CASE ~Has(s, p)
      BY <2>1, <2>2, <2>3, <2>5, <3>2
    <3> QED
      BY <3>1, <3>2
  <2> QED
    BY <2>4, <2>5
<1>14. AddMembers(p, type, members, xx) = Insert(s, p, type, Merge(f, ones), delta)
  BY DEF AddMembers, s, f, added, ones
<1>15. Filling => DOMAIN Merge(f, ones) # {}
  BY <1>3, <1>8, <1>12
<1> HIDE DEF delta
<1>16. type # "list"
  OBVIOUS
<1> QED
  BY <1>1, <1>8, <1>13, <1>14, <1>15, <1>16, InsertFine

\* What a container loses is what its elements were charged.
LEMMA RemoveFine ==
  ASSUME Fine(Store), NEW p \in Pair, NEW type \in Container, NEW members
  PROVE  AllFine(Remove(p, type, members))
<1> DEFINE s == CheckExpired(Store, p)
           f == ItemsOf(s, p)
           gone == members \cap DOMAIN f
           left == Without(f, gone)
           freed == MapThenSumSet(LAMBDA x : f[x], gone)
           v == [type |-> type, items |-> left]
           m == AtLeast0(MemOf(s, p) - freed)
           n == AtLeast0(s.used - freed)
           W == Written(s, Put(s.data, p, v), p, m, n)
           D == Log(DeleteKeys(s, {p}), {p})
<1>1. Fine(s)
  BY ExpiredFine
<1>2. \A o \in Remove(p, type, members) :
        \/ o = Outcome(s, "wrongtype") \/ o = Outcome(s, "nil")
        \/ o = Outcome(D, "ok")
        \/ OfType(s, p, type) /\ gone # {} /\ DOMAIN left # {} /\ o = Outcome(W, "ok")
  BY DEF Remove, Written, Emptied
<1> HIDE DEF s
<1>3. /\ DOMAIN f \subseteq Slot /\ IsFiniteSet(DOMAIN f)
      /\ \A x \in DOMAIN f : f[x] \in Size \cup {1}
      /\ \A x \in DOMAIN f : f[x] \in Nat
      /\ Has(s, p) => Bytes(p, s.data[p]) = KeyCost[p[2]] + Total(f)
      /\ Total(f) \in Nat /\ KeyCost[p[2]] \in Nat
  BY <1>1, ItemsFine DEF Fine
<1>4. Fine(D)
  <2> DEFINE t == DeleteKeys(s, {p})
  <2>1. {p} \in SUBSET Pair
    OBVIOUS
  <2>2. Fine(t)
    BY <1>1, <2>1, DeleteFine
  <2> HIDE DEF t
  <2>3. LET u == Log(t, {p})
        IN  /\ IsStore(u) /\ u.data = t.data /\ u.mem = t.mem /\ u.used = t.used
            /\ u.timers = t.timers /\ u.lru = t.lru /\ u.bumped = t.bumped
            /\ u.logged = t.logged \cup {p}
    BY <2>2 DEF Log, Fine, Well, Booked, Typed, IsStore
  <2>4. Typed(t)
    BY <2>2 DEF Fine, Well, Booked
  <2> DEFINE u == Log(t, {p})
  <2> HIDE DEF u
  <2>5. Fine(u)
    BY <2>2, <2>3, <2>4, EditFine DEF Typed, u
  <2> QED
    BY <2>5 DEF u, t
<1>5. ASSUME OfType(s, p, type), gone # {}, DOMAIN left # {}
      PROVE  Fine(W)
  <2>1. Well(s) /\ Typed(s) /\ s.used \in Nat /\ MemOf(s, p) \in Nat
    BY <1>1, MemOfNat DEF Fine, Well, Booked, Typed
  <2>2. Has(s, p) /\ s.data[p].type = type
    BY <1>5 DEF ItemsOf, OfType
  <2>3. /\ Total(f) = Total(left) + freed
        /\ Total(left) \in Nat /\ freed \in Nat
    <3>1. gone \cap DOMAIN f = gone /\ freed = Summed(f, gone)
      BY DEF Summed
    <3> HIDE DEF gone, freed
    <3> QED
      BY <1>3, <3>1, TotalWithout
  <2>4. IsValue(v)
    BY <1>3 DEF IsValue, Without
  <2>5. Bytes(p, v) = KeyCost[p[2]] + Total(left)
    BY DEF Bytes
  <2>6. m \in Nat /\ n \in Nat /\ n <= s.used
    BY <2>1, <2>3 DEF AtLeast0
  <2> DEFINE c == KeyCost[p[2]]
             a == Total(left)
             k == MemOf(s, p)
  <2> HIDE DEF freed
  <2>7. /\ a \in Nat /\ freed \in Nat /\ c \in Nat /\ k \in Nat
        /\ Bytes(p, v) = c + a /\ Bytes(p, s.data[p]) = c + (a + freed)
    BY <1>3, <2>1, <2>2, <2>3, <2>5
  <2>8. type = "list" => k >= c + (a + freed)
    BY <2>1, <2>2, <2>7 DEF Well, Booked, Paid, Has, MemOf
  <2>9. ASSUME Exacting
        PROVE  /\ k = c + (a + freed) /\ s.used = Total(s.mem)
               /\ \A j \in Nat : /\ Total(Put(s.mem, p, j)) = Total(s.mem) + j - k
                                 /\ Total(Put(s.mem, p, j)) \in Nat
    <3>1. Exact(s)
      BY <2>1, <2>9 DEF Well, Booked
    <3> QED
      BY <2>1, <2>2, <2>7, <3>1, MemOfNat DEF Exact, Has, MemOf
  <2>10. type = "list" => m >= Bytes(p, v)
    <3> HIDE DEF a, c, k, v
    <3> QED
      BY <2>7, <2>8 DEF AtLeast0, k
  <2>11. ASSUME Exacting
         PROVE  m = Bytes(p, v) /\ n = s.used + m - MemOf(s, p)
    <3> HIDE DEF a, c, v
    <3>1. m = c + a
      <4> HIDE DEF k
      <4> QED BY <2>7, <2>9, <2>11 DEF AtLeast0, k
    <3> HIDE DEF m
    <3>2. s.used + m - k \in Nat
      <4> HIDE DEF k
      <4>1. m \in Nat
        BY <2>6
      <4> QED BY <2>9, <2>11, <4>1
    <3>3. s.used + m - k = s.used - freed
      <4> HIDE DEF k
      <4> QED BY <2>1, <2>7, <2>9, <2>11, <3>1
    <3>4. n = s.used + m - k
      <4> HIDE DEF k
      <4> QED BY <3>2, <3>3 DEF AtLeast0
    <3> QED
      BY <2>7, <3>1, <3>4
  <2> HIDE DEF a, c, k, m, n, left
  <2>12. Well(W) /\ W.used = n
    BY <1>5, <2>1, <2>4, <2>6, <2>10, <2>11, WrittenWell
  <2> HIDE DEF W
  <2>13. Within(W)
    BY <1>1, <2>1, <2>6, <2>12 DEF Fine, Within
  <2> QED
    BY <1>1, <2>12, <2>13 DEF Fine
<1> HIDE DEF W, D
<1> QED
  BY <1>1, <1>2, <1>4, <1>5 DEF Outcome, AllFine

\* LSET and LREM re-estimate a list they changed in place.
LEMMA MarkedBooked ==
  ASSUME NEW s, Booked(s), NEW p \in Pair, NEW v, IsValue(v)
  PROVE  LET t == MarkDirty(s, p, v)
         IN  /\ Booked(t) /\ t.data = Put(s.data, p, v)
             /\ t.used = AtLeast0(s.used + Bytes(p, v) - MemOf(s, p))
<1> DEFINE t == MarkDirty(s, p, v)
           m == Bytes(p, v)
           k == MemOf(s, p)
<1>1. /\ IsStore(t)
      /\ t.data = Put(s.data, p, v) /\ t.mem = Put(s.mem, p, m) /\ t.timers = s.timers
      /\ t.lru = s.lru \cup {p} /\ t.bumped = s.bumped \cup {p} /\ t.logged = s.logged
      /\ t.used = AtLeast0(s.used + m - k)
  BY DEF MarkDirty, Bump, Touch, Booked, Typed, IsStore
<1>2. /\ m \in Nat /\ k \in Nat /\ s.used \in Nat
      /\ s.bumped \cup {p} \subseteq Pair /\ s.logged \subseteq Pair
  BY BytesNat, MemOfNat DEF Booked, Typed
<1>3. ASSUME Exacting PROVE s.used + m - k \in Nat
  <2>1. \A j \in Nat : /\ Total(Put(s.mem, p, j)) = Total(s.mem) + j - k
                       /\ Total(Put(s.mem, p, j)) \in Nat
    BY MemOfNat DEF Booked
  <2>2. s.used = Total(s.mem)
    BY <1>3 DEF Booked, Exact
  <2> HIDE DEF m, k
  <2> QED
    BY <1>2, <2>1, <2>2
<1> HIDE DEF t, k
<1>4. t.used \in Nat /\ m >= Bytes(p, v)
  <2> DEFINE b == Bytes(p, v)
  <2>1. b \in Nat
    BY <1>2
  <2> HIDE DEF b
  <2> QED
    BY <1>1, <1>2, <2>1 DEF AtLeast0, b
<1>5. Exacting => t.used = s.used + m - k
  <2> HIDE DEF m
  <2> QED
    BY <1>1, <1>3 DEF AtLeast0
<1>6. Booked(t)
  BY <1>1, <1>2, <1>4, <1>5, WriteBooked DEF k
<1> QED
  BY <1>1, <1>6 DEF t, k

LEMMA LsetWell ==
  ASSUME Fine(Store), NEW p \in Pair, NEW e \in Elem, NEW size \in Size
  PROVE  AllWell(Lset(p, e, size))
<1> DEFINE s == CheckExpired(Store, p)
           seen == IF Has(s, p) THEN Touch(s, p) ELSE s
           v == [s.data[p] EXCEPT !.items[e] = size]
           t == MarkDirty(s, p, v)
<1>1. Fine(s) /\ Fine(seen)
  BY ExpiredFine, SeenFine
<1>2. \A o \in Lset(p, e, size) :
        \/ o = Outcome(s, "wrongtype") \/ o = Outcome(seen, "nil")
        \/ e \in DOMAIN ItemsOf(s, p) /\ o = Outcome(t, "ok")
  BY DEF Lset
<1> HIDE DEF s, seen
<1>3. ASSUME e \in DOMAIN ItemsOf(s, p) PROVE Well(t)
  <2>1. p \in DOMAIN s.data /\ IsValue(s.data[p])
    BY <1>1, <1>3 DEF ItemsOf, Has, Fine, Well, Booked, Typed
  <2>2. /\ v = [type |-> s.data[p].type, items |-> [s.data[p].items EXCEPT ![e] = size]]
        /\ DOMAIN v.items = DOMAIN s.data[p].items
        /\ \A x \in DOMAIN v.items : v.items[x] \in Size \cup {1}
    BY <2>1 DEF IsValue
  <2>3. IsValue(v)
    BY <2>1, <2>2 DEF IsValue
  <2> HIDE DEF v
  <2>4. Booked(t) /\ t.data = Put(s.data, p, v)
    BY <1>1, <2>3, MarkedBooked DEF Fine, Well
  <2> HIDE DEF t
  <2>5. Filling => Filled(t)
    BY <1>1, <2>1, <2>2, <2>4 DEF Fine, Well, Filled, Put
  <2> QED
    BY <2>4, <2>5 DEF Well
<1> HIDE DEF t
<1> QED
  BY <1>1, <1>2, <1>3 DEF AllWell, Outcome, Fine

LEMMA LremFine ==
  ASSUME Fine(Store), NEW p \in Pair, NEW equal
  PROVE  AllFine(Lrem(p, equal))
<1> DEFINE s == CheckExpired(Store, p)
           seen == IF Has(s, p) THEN Touch(s, p) ELSE s
           f == ItemsOf(s, p)
           gone == equal \cap DOMAIN f
           left == Without(f, gone)
           v == [type |-> "list", items |-> left]
           t == MarkDirty(seen, p, v)
<1>1. Fine(s) /\ Fine(seen)
  BY ExpiredFine, SeenFine
<1>2. \A o \in Lrem(p, equal) :
        \/ o = Outcome(s, "wrongtype") \/ o = Outcome(seen, "nil")
        \/ /\ OfType(s, p, "list") /\ gone # {}
           /\ \/ o = Outcome(DeleteKeys(t, {p}), "ok")
              \/ DOMAIN left # {} /\ o = Outcome(t, "ok")
  BY DEF Lrem, Emptied
<1>3. seen.data = s.data /\ seen.mem = s.mem
  <2> HIDE DEF s
  <2> QED
    BY <1>1, TouchWell DEF Fine
<1> HIDE DEF s, seen
<1>4. /\ DOMAIN f \subseteq Slot /\ IsFiniteSet(DOMAIN f)
      /\ \A x \in DOMAIN f : f[x] \in Size \cup {1}
      /\ \A x \in DOMAIN f : f[x] \in Nat
      /\ Has(s, p) => Bytes(p, s.data[p]) = KeyCost[p[2]] + Total(f)
      /\ Total(f) \in Nat /\ KeyCost[p[2]] \in Nat
  BY <1>1, ItemsFine DEF Fine
<1>5. IsValue(v)
  BY <1>4 DEF IsValue, Without, Container
<1>6. /\ Booked(t) /\ t.data = Put(seen.data, p, v)
      /\ t.used = AtLeast0(seen.used + Bytes(p, v) - MemOf(seen, p))
  <2> HIDE DEF v
  <2> QED
    BY <1>1, <1>5, MarkedBooked DEF Fine, Well
<1> HIDE DEF t
<1>7. ASSUME OfType(s, p, "list"), gone # {}
      PROVE  t.used <= seen.used /\ t.used \in Nat /\ seen.used \in Nat
  <2>1. Has(s, p) /\ s.data[p].type = "list"
    BY <1>7 DEF ItemsOf, OfType
  <2>2. p \in DOMAIN seen.mem /\ seen.mem[p] >= Bytes(p, s.data[p])
    BY <1>1, <1>3, <2>1 DEF Fine, Well, Booked, Paid, Has
  <2>3. MemOf(seen, p) >= Bytes(p, s.data[p]) /\ MemOf(seen, p) \in Nat
    BY <1>1, <2>2, MemOfNat DEF MemOf, Fine, Well, Booked
  <2> DEFINE a == Total(left)
             b == Summed(f, gone \cap DOMAIN f)
             c == KeyCost[p[2]]
             k == MemOf(seen, p)
  <2>4. Total(f) = a + b /\ a \in Nat /\ b \in Nat /\ c \in Nat
    <3> HIDE DEF gone
    <3> QED
      BY <1>4, TotalWithout
  <2>5. Bytes(p, v) = c + a /\ k >= c + (a + b) /\ k \in Nat
    BY <1>4, <2>1, <2>3, <2>4 DEF Bytes
  <2>6. seen.used \in Nat
    BY <1>1 DEF Fine, Well, Booked, Typed
  <2>7. t.used = AtLeast0(seen.used + (c + a) - k)
    BY <1>6, <2>5
  <2> HIDE DEF a, b, c, k
  <2> QED
    BY <2>4, <2>5, <2>6, <2>7 DEF AtLeast0
<1>8. ASSUME OfType(s, p, "list"), gone # {} PROVE Within(t)
  BY <1>1, <1>7, <1>8 DEF Fine, Within
<1>9. ASSUME OfType(s, p, "list"), gone # {}, DOMAIN left # {} PROVE Fine(t)
  <2>1. Filling => Filled(t)
    <3>1. DOMAIN v.items # {}
      BY <1>9
    <3> HIDE DEF v
    <3> QED
      BY <1>1, <1>6, <3>1 DEF Fine, Well, Filled, Put
  <2> QED
    BY <1>1, <1>6, <1>8, <1>9, <2>1 DEF Fine, Well
<1>10. ASSUME OfType(s, p, "list"), gone # {} PROVE Fine(DeleteKeys(t, {p}))
  <2> DEFINE u == DeleteKeys(t, {p})
  <2>0. {p} \in SUBSET Pair
    OBVIOUS
  <2>1. Booked(u) /\ u.used <= t.used
    BY <1>6, <2>0, DeleteBooked
  <2>2. u.data = Without(t.data, {p})
    BY <1>6, DeleteFields DEF Booked, Typed
  <2> HIDE DEF u
  <2>3. Filling => Filled(u)
    BY <1>1, <1>6, <2>2 DEF Fine, Well, Filled, Put, Without
  <2>4. u.used \in Nat
    BY <2>1 DEF Booked, Typed
  <2>5. Within(u)
    BY <1>1, <1>7, <1>8, <1>10, <2>1, <2>4 DEF Fine, Within
  <2> QED
    BY <1>1, <2>1, <2>3, <2>5 DEF Fine, Well, u
<1> HIDE DEF gone, left, v
<1> QED
  BY <1>1, <1>2, <1>9, <1>10 DEF Outcome, AllFine

\* What an admitted write leaves of the counter is within the limit, or no
\* larger than it was.
LEMMA Admitted ==
  ASSUME NEW s, Fine(s), NEW delta \in Int, NEW a \in EnforceGrowth(s, delta), ~a.full,
         NEW w, w.used = AtLeast0(a.st.used + delta)
  PROVE  Within(w)
<1> DEFINE u == a.st.used
<1>1. Well(a.st) /\ u <= s.used /\ (maxmemory = 0 \/ u + delta <= maxmemory \/ delta <= 0)
  BY GrowthWell DEF Fine
<1>2. u \in Nat /\ s.used \in Nat
  BY <1>1 DEF Fine, Well, Booked, Typed
<1> HIDE DEF u
<1>3. /\ s.used <= usedMemory \/ maxmemory = 0 \/ s.used <= maxmemory
      /\ maxmemory \in Nat /\ usedMemory \in Nat
  BY DEF Fine, Within
<1>4. w.used = AtLeast0(u + delta)
  BY DEF u
<1> QED
  BY <1>1, <1>2, <1>3, <1>4 DEF AtLeast0, Within

\* The sums of a table one pair leaves and another joins.
LEMMA MovedTotal ==
  ASSUME NEW s, Typed(s), NEW from \in Pair, NEW to, from # to, NEW m \in Nat
  PROVE  LET g == Put(Without(s.mem, {from}), to, m)
         IN  Total(g) = Total(s.mem) + m - MemOf(s, to) - MemOf(s, from) /\ Total(g) \in Nat
             /\ Total(s.mem) \in Nat /\ MemOf(s, to) \in Nat /\ MemOf(s, from) \in Nat
<1> DEFINE h == Without(s.mem, {from})
           g == Put(h, to, m)
           D == DOMAIN s.mem
<1>1. IsFiniteSet(D) /\ \A p \in D : s.mem[p] \in Nat
  BY PairsFinite DEF Typed
<1>2. /\ Total(s.mem) = Total(h) + Summed(s.mem, {from} \cap D)
      /\ Total(h) \in Nat /\ Total(s.mem) \in Nat
  <2> HIDE DEF h, D
  <2> QED
    BY <1>1, TotalWithout, TotalNat DEF h, D
<1>3. Summed(s.mem, {from} \cap D) = MemOf(s, from)
  <2>1. CASE from \in D
    <3>1. {from} \cap D = {from} /\ {from} \ {from} = {} /\ from \in {from}
      BY <2>1
    <3>2. \A x \in {from} : s.mem[x] \in Int
      BY <1>1, <2>1
    <3>3. Summed(s.mem, {from}) = s.mem[from] + Summed(s.mem, {})
      <4>1. IsFiniteSet({from})
        BY FS_Singleton
      <4>2. Summed(s.mem, {from}) = s.mem[from] + Summed(s.mem, {from} \ {from})
        BY <3>1, <3>2, <4>1, SummedRemove
      <4> QED
        BY <3>1, <4>2
    <3>4. Summed(s.mem, {}) = 0 /\ s.mem[from] \in Nat
      BY <1>1, <2>1, SummedEmpty
    <3>5. Summed(s.mem, {from}) = s.mem[from]
      BY <3>3, <3>4
    <3>6. Summed(s.mem, {from} \cap D) = s.mem[from]
      <4> HIDE DEF D
      <4> QED
        BY <3>1, <3>5
    <3> HIDE DEF D
    <3> QED
      BY <2>1, <3>6 DEF MemOf, D
  <2>2. CASE from \notin D
    <3>1. {from} \cap D = {}
      BY <2>2
    <3> HIDE DEF D
    <3> QED
      BY <2>2, <3>1, SummedEmpty DEF MemOf, D
  <2> QED
    BY <2>1, <2>2
<1>4. /\ DOMAIN h = D \ {from} /\ \A p \in DOMAIN h : h[p] = s.mem[p]
  BY DEF Without
<1>5. IsFiniteSet(DOMAIN h) /\ \A p \in DOMAIN h : h[p] \in Nat
  <2>1. IsFiniteSet(D \ {from})
    BY <1>1, FS_Subset
  <2> HIDE DEF h
  <2> QED
    BY <1>1, <1>4, <2>1
<1>6. MemOf(s, to) \in Nat /\ MemOf(s, from) \in Nat
  BY MemOfNat
<1> HIDE DEF h
<1>7. Total(g) = Total(h) + m - MemOf(s, to)
  <2>1. Total(g) = Total(h) + m - IF to \in DOMAIN h THEN h[to] ELSE 0
    BY <1>5, TotalPut
  <2>2. MemOf(s, to) = IF to \in DOMAIN h THEN h[to] ELSE 0
    BY <1>4 DEF MemOf
  <2> QED
    BY <2>1, <2>2
<1>8. Total(g) \in Nat
  <2>1. DOMAIN g = DOMAIN h \cup {to} /\ \A p \in DOMAIN g : g[p] \in Nat
    BY <1>5 DEF Put
  <2>2. IsFiniteSet(DOMAIN h \cup {to})
    BY <1>5, FS_AddElement
  <2> HIDE DEF g
  <2> QED
    BY <2>1, <2>2, TotalNat
<1> DEFINE i == Total(g)
           j == Total(h)
           k == MemOf(s, to)
           l == MemOf(s, from)
           n == Total(s.mem)
<1>9. i = j + m - k /\ n = j + l /\ i \in Nat /\ j \in Nat /\ k \in Nat /\ l \in Nat /\ n \in Nat
  BY <1>2, <1>3, <1>6, <1>7, <1>8
<1> HIDE DEF i, j, k, l, n
<1>10. i = n + m - k - l
  BY <1>9
<1> QED
  BY <1>9, <1>10 DEF i, j, k, l, n, g, h

\* RENAME settles source and target in one admission.
LEMMA RenameFine ==
  ASSUME Fine(Store), NEW from \in Pair, NEW to \in Pair
  PROVE  AllFine(Rename(from, to))
<1> DEFINE s == DeleteKeys(Store, {p \in {from, to} : p \in DOMAIN timers
                                                     /\ timers[p] = "elapsed"})
           delta == RenameDelta(s, from, to)
           indexed(t) == IF Has(t, to) THEN {from, to} ELSE {from}
           ttl(t) == Without(t.timers, indexed(t))
           Moved(t) ==
             [t EXCEPT
              !.data = Put(Without(@, {from}), to, s.data[from]),
              !.mem = Put(Without(@, {from}), to, Bytes(to, s.data[from])),
              !.used = AtLeast0(@ + delta),
              !.lru = (@ \ indexed(t)) \cup {to},
              !.timers = IF from \in DOMAIN s.timers
                         THEN Put(ttl(t), to, s.timers[from]) ELSE ttl(t)]
           W(t) == Log(Bump(Moved(t), {from, to}), {from, to})
           m == Bytes(to, s.data[from])
           v == s.data[from]
<1>1. Fine(s)
  <2> DEFINE P == {p \in {from, to} : p \in DOMAIN timers /\ timers[p] = "elapsed"}
  <2>1. P \in SUBSET Pair
    OBVIOUS
  <2> HIDE DEF P
  <2> QED
    BY <2>1, DeleteFine
<1>2. \A o \in Rename(from, to) :
        \/ o = Outcome(s, "nil") \/ o = Outcome(s, "ok")
        \/ Has(s, from) /\ \E a \in EnforceGrowth(s, delta) :
             \/ o = Outcome(a.st, "oom")
             \/ from # to /\ ~a.full /\ o = Outcome(W(a.st), "ok")
  <2>1. \A o \in Rename(from, to) :
        \/ o = Outcome(s, "nil") \/ o = Outcome(s, "ok")
        \/ /\ Has(s, from) /\ from # to
           /\ \E a \in EnforceGrowth(s, delta) :
                o = IF a.full THEN Outcome(a.st, "oom") ELSE Outcome(W(a.st), "ok")
    BY DEF Rename, Renamed
  <2> HIDE DEF W, s, delta
  <2> QED
    BY <2>1
<1> HIDE DEF s
<1>3. s.used \in Nat /\ maxmemory \in Nat /\ usedMemory \in Nat
  BY <1>1 DEF Fine, Well, Booked, Typed
<1>4. ASSUME Has(s, from)
      PROVE  /\ IsValue(v) /\ (Filling => DOMAIN v.items # {})
             /\ m \in Nat /\ delta \in Int /\ delta = m - MemOf(s, to) - MemOf(s, from)
  <2>1. IsValue(v) /\ (Filling => DOMAIN v.items # {})
    BY <1>1, <1>4 DEF Has, Fine, Well, Booked, Typed, Filled
  <2>2. m \in Nat
    BY <2>1, BytesNat
  <2>3. MemOf(s, to) \in Nat /\ MemOf(s, from) \in Nat
    BY <1>1, MemOfNat DEF Fine, Well, Booked
  <2>4. delta = m - MemOf(s, to) - MemOf(s, from)
    BY DEF RenameDelta
  <2> HIDE DEF m, delta
  <2>5. delta \in Int
    BY <2>2, <2>3, <2>4
  <2> QED
    BY <2>1, <2>2, <2>4, <2>5
<1>5. ASSUME Has(s, from), NEW a \in EnforceGrowth(s, delta)
      PROVE  Fine(a.st) /\ a.st.used \in Nat /\ (policy = "noeviction" => a.st = s)
  <2> HIDE DEF delta
  <2>1. Well(a.st) /\ a.st.used <= s.used /\ (policy = "noeviction" => a.st = s)
    BY <1>1, <1>4, <1>5, GrowthWell DEF Fine
  <2>2. a.st.used \in Nat
    BY <2>1 DEF Well, Booked, Typed
  <2>3. Within(a.st)
    BY <1>1, <1>3, <2>1, <2>2 DEF Fine, Within
  <2> QED
    BY <1>3, <2>1, <2>2, <2>3 DEF Fine
<1>6. ASSUME NEW a \in EnforceGrowth(s, delta), Has(s, from), from # to, ~a.full
      PROVE  Fine(W(a.st))
  <2> DEFINE t == a.st
             u == W(t)
  <2>1. Fine(t) /\ t.used \in Nat /\ (policy = "noeviction" => t = s)
    BY <1>5, <1>6
  <2>2. /\ IsStore(u)
        /\ u.data = Put(Without(t.data, {from}), to, v)
        /\ u.mem = Put(Without(t.mem, {from}), to, m)
        /\ u.used = AtLeast0(t.used + delta)
        /\ u.lru = (t.lru \ indexed(t)) \cup {to}
        /\ u.timers = IF from \in DOMAIN s.timers
                      THEN Put(ttl(t), to, s.timers[from]) ELSE ttl(t)
        /\ u.bumped = t.bumped \cup {from, to} /\ u.logged = t.logged \cup {from, to}
    <3> HIDE DEF indexed, ttl, delta
    <3> QED BY <2>1 DEF Fine, Well, Booked, Typed, IsStore, Log, Bump
  <2>3. Typed(t)
    BY <2>1 DEF Fine, Well, Booked
  <2>4. DOMAIN u.timers \subseteq Pair /\ \A p \in DOMAIN u.timers : u.timers[p] \in {"live", "elapsed"}
    <3>1. DOMAIN ttl(t) \subseteq Pair /\ \A p \in DOMAIN ttl(t) : ttl(t)[p] \in {"live", "elapsed"}
      BY <2>3 DEF Without, Typed
    <3>2. from \in DOMAIN s.timers => s.timers[from] \in {"live", "elapsed"}
      BY <1>1 DEF Fine, Well, Booked, Typed
    <3> HIDE DEF u, ttl
    <3> QED
      BY <2>2, <3>1, <3>2 DEF Put
  <2> HIDE DEF u
  <2>5. Within(u)
    <3> HIDE DEF delta
    <3> QED BY <1>1, <1>4, <1>6, <2>2, Admitted
  <2>6. u.used \in Nat
    <3>1. delta \in Int
      BY <1>4, <1>6
    <3> HIDE DEF delta
    <3> QED
      BY <2>1, <2>2, <3>1 DEF AtLeast0
  <2>7. DOMAIN u.data \subseteq Pair /\ \A p \in DOMAIN u.data : IsValue(u.data[p])
    <3> HIDE DEF v
    <3> QED BY <1>4, <1>6, <2>2, <2>3 DEF Typed, Put, Without
  <2>8. DOMAIN u.mem \subseteq Pair /\ \A p \in DOMAIN u.mem : u.mem[p] \in Nat
    <3> HIDE DEF m
    <3> QED BY <1>4, <1>6, <2>2, <2>3 DEF Typed, Put, Without
  <2>9. u.lru \subseteq Pair /\ u.bumped \subseteq Pair /\ u.logged \subseteq Pair
    BY <2>2, <2>3 DEF Typed
  <2>10. Typed(u)
    BY <2>2, <2>4, <2>6, <2>7, <2>8, <2>9 DEF Typed
  <2>11. Paid(u)
    <3> SUFFICES ASSUME NEW p \in DOMAIN u.data, u.data[p].type = "list"
                 PROVE  p \in DOMAIN u.mem /\ u.mem[p] >= Bytes(p, u.data[p])
      BY DEF Paid
    <3>1. CASE p = to
      <4>1. u.data[p] = v /\ p \in DOMAIN u.mem /\ u.mem[p] = m
        BY <2>2, <3>1 DEF Put
      <4>2. m \in Nat
        BY <1>4, <1>6
      <4> DEFINE b == m
      <4> HIDE DEF m
      <4> QED
        BY <3>1, <4>1, <4>2 DEF m
    <3>2. CASE p # to
      <4>1. p \in DOMAIN t.data /\ u.data[p] = t.data[p] /\ p # from
        <5> HIDE DEF v
        <5> QED
          BY <2>2, <3>2 DEF Put, Without
      <4>2. p \in DOMAIN t.mem /\ t.mem[p] >= Bytes(p, t.data[p])
        BY <2>1, <4>1 DEF Fine, Well, Booked, Paid
      <4>3. p \in DOMAIN u.mem /\ u.mem[p] = t.mem[p]
        <5> HIDE DEF m
        <5> QED
          BY <2>2, <3>2, <4>1, <4>2 DEF Put, Without
      <4> QED
        BY <4>1, <4>2, <4>3
    <3> QED
      BY <3>1, <3>2
  <2>12. ASSUME Exacting PROVE Exact(u)
    <3>1. Exact(t) /\ t = s
      BY <2>1, <2>12 DEF Fine, Well, Booked, Exacting
    <3>2. DOMAIN u.mem = DOMAIN u.data
      <4> HIDE DEF m, v
      <4> QED BY <2>2, <3>1 DEF Exact, Put, Without
    <3>3. ASSUME NEW p \in DOMAIN u.data PROVE u.mem[p] = Bytes(p, u.data[p])
      <4>1. CASE p = to
        BY <2>2, <4>1 DEF Put
      <4>2. CASE p # to
        <5> HIDE DEF m, v
        <5> QED BY <2>2, <3>1, <3>3, <4>2 DEF Exact, Put, Without
      <4> QED
        BY <4>1, <4>2
    <3>4. u.used = Total(u.mem)
      <4>0. m \in Nat /\ delta = m - MemOf(s, to) - MemOf(s, from)
        BY <1>4, <1>6
      <4> DEFINE i == Total(u.mem)
                 k == MemOf(s, to)
                 l == MemOf(s, from)
      <4> HIDE DEF m, delta
      <4>1. i = Total(s.mem) + m - k - l /\ i \in Nat /\ Total(s.mem) \in Nat
            /\ k \in Nat /\ l \in Nat
        <5> DEFINE g == Put(Without(s.mem, {from}), to, m)
        <5>1. u.mem = g /\ Typed(s)
          BY <2>2, <2>3, <3>1
        <5>2. /\ Total(g) = Total(s.mem) + m - MemOf(s, to) - MemOf(s, from) /\ Total(g) \in Nat
              /\ Total(s.mem) \in Nat /\ MemOf(s, to) \in Nat /\ MemOf(s, from) \in Nat
          BY <1>6, <4>0, <5>1, MovedTotal
        <5> HIDE DEF g
        <5> QED
          BY <5>1, <5>2
      <4>2. t.used = Total(s.mem)
        BY <3>1 DEF Exact
      <4>3. u.used = AtLeast0(t.used + (m - k - l))
        BY <2>2, <4>0
      <4> HIDE DEF i, k, l
      <4>4. t.used + (m - k - l) = i
        BY <4>0, <4>1, <4>2
      <4>5. u.used = i
        BY <4>1, <4>3, <4>4 DEF AtLeast0
      <4> QED
        BY <4>5 DEF i
    <3> QED
      BY <3>2, <3>3, <3>4 DEF Exact
  <2>13. Filling => Filled(u)
    <3> HIDE DEF v
    <3> QED BY <1>4, <1>6, <2>1, <2>2 DEF Fine, Well, Filled, Put, Without
  <2> QED
    BY <1>3, <2>5, <2>10, <2>11, <2>12, <2>13 DEF Fine, Well, Booked, u
<1> HIDE DEF W, delta
<1>7. ASSUME NEW a \in EnforceGrowth(s, delta), Has(s, from) PROVE Fine(a.st)
  BY <1>5, <1>7
<1> QED
  BY <1>1, <1>2, <1>6, <1>7 DEF Outcome, AllFine

\* GET, DEL, a scan and the sweep write nothing.
LEMMA DeletionsFine ==
  ASSUME Fine(Store)
  PROVE  /\ \A p \in Pair : AllFine(Get(p)) /\ AllFine(Del(p))
         /\ \A db : AllFine(Scan(db))
         /\ AllFine(Sweep)
<1>1. \A P \in SUBSET Pair : Fine(DeleteKeys(Store, P))
  BY DeleteFine
<1>2. DOMAIN timers \subseteq Pair
  BY DEF Fine, Well, Booked, Typed, Store
<1>3. \A o \in Sweep : \E P \in SUBSET Pair : o = Outcome(DeleteKeys(Store, P), "ok")
  BY <1>2 DEF Sweep, Elapsed
<1>4. AllFine(Sweep)
  BY <1>1, <1>3 DEF Outcome, AllFine
<1>5. \A db : AllFine(Scan(db))
  <2> SUFFICES ASSUME NEW db PROVE AllFine(Scan(db))
    OBVIOUS
  <2> DEFINE P == {p \in DOMAIN data : /\ p[1] = db /\ p \in DOMAIN timers /\ timers[p] = "elapsed"}
  <2>1. Scan(db) = {Outcome(DeleteKeys(Store, P), "ok")}
    BY DEF Scan
  <2>2. P \in SUBSET Pair
    BY <1>2
  <2> HIDE DEF P
  <2> QED
    BY <1>1, <2>1, <2>2 DEF Outcome, AllFine
<1>6. \A p \in Pair : AllFine(Del(p))
  BY <1>1 DEF Del, Outcome, AllFine
<1>7. \A p \in Pair : AllFine(Get(p))
  <2> SUFFICES ASSUME NEW p \in Pair PROVE AllFine(Get(p))
    OBVIOUS
  <2> DEFINE s == CheckExpired(Store, p)
             t == IF Has(s, p) THEN Touch(s, p) ELSE s
  <2>1. Fine(t)
    BY ExpiredFine, SeenFine
  <2>2. Get(p) = {Outcome(t, "ok")}
    BY DEF Get
  <2> HIDE DEF t
  <2> QED
    BY <2>1, <2>2 DEF Outcome, AllFine
<1> QED
  BY <1>4, <1>5, <1>6, <1>7

LEMMA DeadlineFine ==
  ASSUME Fine(Store), NEW p \in Pair, NEW past \in BOOLEAN
  PROVE  AllFine(Expire(p, past)) /\ AllFine(Persist(p))
<1> DEFINE s == CheckExpired(Store, p)
           Named(f) == Log(Bump(Touch([s EXCEPT !.timers = f], p), {p}), {p})
           live == Put(s.timers, p, "live")
           none == Without(s.timers, {p})
<1>1. Fine(s)
  BY ExpiredFine
<1>2. \A o \in Expire(p, past) :
        \/ o = Outcome(s, "nil") \/ o = Outcome(DeleteKeys(s, {p}), "ok")
        \/ o = Outcome(Named(live), "ok")
  BY DEF Expire
<1>3. \A o \in Persist(p) : o = Outcome(s, "nil") \/ o = Outcome(Named(none), "ok")
  BY DEF Persist
<1> HIDE DEF s
<1>4. ASSUME NEW f, DOMAIN f \subseteq Pair, \A x \in DOMAIN f : f[x] \in {"live", "elapsed"}
      PROVE  Fine(Named(f))
  <2> DEFINE t == Named(f)
  <2>1. /\ IsStore(t) /\ t.timers = f
        /\ t.data = s.data /\ t.mem = s.mem /\ t.used = s.used /\ t.lru = s.lru \cup {p}
        /\ t.bumped = s.bumped \cup {p} /\ t.logged = s.logged \cup {p}
    BY <1>1 DEF Fine, Well, Booked, Typed, IsStore, Log, Bump, Touch
  <2>2. s.lru \subseteq Pair /\ s.bumped \subseteq Pair /\ s.logged \subseteq Pair
    BY <1>1 DEF Fine, Well, Booked, Typed
  <2> HIDE DEF t
  <2>3. t.lru \subseteq Pair /\ t.bumped \subseteq Pair /\ t.logged \subseteq Pair
    BY <2>1, <2>2
  <2>4. Fine(t)
    BY <1>1, <1>4, <2>1, <2>3, EditFine
  <2> QED
    BY <2>4 DEF t
<1>5. /\ DOMAIN live \subseteq Pair /\ \A x \in DOMAIN live : live[x] \in {"live", "elapsed"}
      /\ DOMAIN none \subseteq Pair /\ \A x \in DOMAIN none : none[x] \in {"live", "elapsed"}
  BY <1>1 DEF Put, Without, Fine, Well, Booked, Typed
<1>6. Fine(DeleteKeys(s, {p}))
  <2>1. {p} \in SUBSET Pair
    OBVIOUS
  <2> QED
    BY <1>1, <2>1, DeleteFine
<1> HIDE DEF live, none
<1>7. Fine(Named(live)) /\ Fine(Named(none))
  BY <1>4, <1>5
<1> HIDE DEF Named
<1> QED
  BY <1>1, <1>2, <1>3, <1>6, <1>7 DEF Outcome, AllFine

\* FLUSHDB leaves what deleting every key of the index would.
LEMMA FlushDbFine ==
  ASSUME Fine(Store), NEW db \in Db
  PROVE  AllFine(FlushDb(db))
<1> DEFINE P == {db} \X Key
           n == AtLeast0(Store.used - Freed(Store, P))
           t == Log(Bump([Cleared(Store, P) EXCEPT !.used = n], P), P)
           s == DeleteKeys(Store, P)
<1>1. P \in SUBSET Pair
  BY DEF Pair
<1>2. FlushDb(db) = {Outcome(t, "ok")}
  BY DEF FlushDb, Freed, Cleared
<1> HIDE DEF P
<1>3. IsStore(Store)
  BY DEF IsStore, Store
<1>4. /\ IsStore(t)
      /\ t.data = Without(data, P) /\ t.timers = Without(timers, P)
      /\ t.mem = Without(keyMemories, P) /\ t.lru = lru \ P /\ t.used = n
      /\ t.bumped = P /\ t.logged = P
  <2> HIDE DEF n
  <2> QED BY DEF IsStore, Store, Cleared, Log, Bump
<1>5. /\ s.data = Without(data, P) /\ s.timers = Without(timers, P)
      /\ s.mem = Without(keyMemories, P) /\ s.lru = lru \ P
      /\ s.used = n
  <2>1. /\ s.data = Without(Store.data, P) /\ s.timers = Without(Store.timers, P)
        /\ s.mem = Without(Store.mem, P) /\ s.lru = Store.lru \ P
    BY <1>3, DeleteFields
  <2>2. s.used = n
    BY <1>3, DeleteUsed
  <2> HIDE DEF s, n
  <2> QED
    BY <2>1, <2>2 DEF Store
<1>6. Fine(s)
  BY <1>1, DeleteFine
<1> HIDE DEF s, t, n
<1>7. Typed(s)
  BY <1>6 DEF Fine, Well, Booked
<1>8. Fine(t)
  BY <1>1, <1>4, <1>5, <1>6, <1>7, EditFine DEF Typed
<1> QED
  BY <1>2, <1>8 DEF Outcome, AllFine

\* FLUSHALL sets the counter to zero outright.
LEMMA FlushAllFine ==
  ASSUME Fine(Store)
  PROVE  AllFine(FlushAll)
<1> DEFINE t == Log(Bump([Cleared(Store, Pair) EXCEPT !.used = 0], Pair), Pair)
<1>1. FlushAll = {Outcome(t, "ok")}
  BY DEF FlushAll
<1>2. /\ IsStore(t)
      /\ t.data = Without(data, Pair) /\ t.timers = Without(timers, Pair)
      /\ t.mem = Without(keyMemories, Pair) /\ t.lru = lru \ Pair /\ t.used = 0
      /\ t.bumped = Pair /\ t.logged = Pair
  BY DEF IsStore, Store, Cleared, Log, Bump
<1>3. Typed(Store)
  BY DEF Fine, Well, Booked
<1> HIDE DEF t
<1>4. DOMAIN t.data = {} /\ DOMAIN t.mem = {} /\ DOMAIN t.timers = {} /\ t.lru = {}
  BY <1>2, <1>3 DEF Typed, Store, Without
<1>5. Typed(t)
  BY <1>2, <1>4 DEF Typed
<1>6. Total(t.mem) = 0
  BY <1>4, TotalIs, SummedEmpty
<1>7. Paid(t) /\ Exact(t) /\ Filled(t)
  BY <1>2, <1>4, <1>6 DEF Paid, Exact, Filled
<1>8. Within(t)
  BY <1>2 DEF Fine, Within
<1>9. Fine(t)
  BY <1>5, <1>7, <1>8 DEF Fine, Well, Booked
<1> QED
  BY <1>1, <1>9 DEF Outcome, AllFine

\* SWAPDB renames every pair, and what a pair costs does not depend on its index.
LEMMA SwapFine ==
  ASSUME Fine(Store), NEW a \in Db, NEW b \in Db
  PROVE  AllFine(SwapDb(a, b))
<1> DEFINE Swapped(f) == [p \in {Other(q, a, b) : q \in DOMAIN f} |-> f[Other(p, a, b)]]
           P == {a, b} \X Key
           t == Bump([Store EXCEPT !.data = Swapped(@), !.mem = Swapped(@),
                                   !.timers = Swapped(@), !.lru = SwappedPool(@, a, b)], P)
<1>1. /\ IsStore(t)
      /\ t.data = Swapped(data) /\ t.timers = Swapped(timers) /\ t.mem = Swapped(keyMemories)
      /\ t.lru = {Other(q, a, b) : q \in lru} /\ t.bumped = P /\ t.logged = {}
      /\ t.used = usedMemory
  <2> HIDE DEF Swapped, P
  <2> QED BY DEF IsStore, Store, Bump, SwappedPool
<1>2. SwapDb(a, b) = {Outcome(t, "ok")}
  BY DEF SwapDb
<1>3. \A p \in Pair : /\ Other(p, a, b) \in Pair /\ Other(p, a, b)[2] = p[2]
                      /\ Other(Other(p, a, b), a, b) = p
  BY DEF Other, Pair
<1>4. P \subseteq Pair
  BY DEF Pair
<1>5. /\ DOMAIN data \subseteq Pair /\ \A p \in DOMAIN data : IsValue(data[p])
      /\ DOMAIN keyMemories \subseteq Pair /\ \A p \in DOMAIN keyMemories : keyMemories[p] \in Nat
      /\ DOMAIN timers \subseteq Pair /\ \A p \in DOMAIN timers : timers[p] \in {"live", "elapsed"}
      /\ lru \subseteq Pair /\ usedMemory \in Nat
  BY DEF Fine, Well, Booked, Typed, Store
<1> HIDE DEF t, P
<1>6. \A f : DOMAIN f \subseteq Pair =>
        /\ DOMAIN Swapped(f) \subseteq Pair
        /\ \A p \in DOMAIN Swapped(f) : /\ Other(p, a, b) \in DOMAIN f
                                        /\ Swapped(f)[p] = f[Other(p, a, b)]
        /\ \A p \in Pair : p \in DOMAIN Swapped(f) <=> Other(p, a, b) \in DOMAIN f
  BY <1>3
<1>7. \A p \in Pair : \A v : Bytes(p, v) = Bytes(Other(p, a, b), v)
  BY <1>3 DEF Bytes
<1>8. Total(Swapped(keyMemories)) = Total(keyMemories)
  <2> DEFINE o == [p \in Pair |-> Other(p, a, b)]
             f == keyMemories
             g == Swapped(f)
  <2>1. \A p \in DOMAIN f : o[p] = Other(p, a, b)
    BY <1>5
  <2>2. DOMAIN g = {o[p] : p \in DOMAIN f}
    BY <2>1
  <2>3. \A p \in DOMAIN f : g[o[p]] = f[p]
    BY <1>3, <1>5, <2>1
  <2>4. \A p, q \in DOMAIN f : o[p] = o[q] => p = q
    BY <1>3, <1>5, <2>1
  <2>5. IsFiniteSet(DOMAIN f) /\ \A p \in DOMAIN f : f[p] \in Nat
    BY <1>5, PairsFinite
  <2> HIDE DEF o, f, g
  <2>6. Total(g) = Total(f)
    BY <2>2, <2>3, <2>4, <2>5, TotalRenamed
  <2> QED
    BY <2>6 DEF f, g
<1>9. t.lru \subseteq Pair
  BY <1>1, <1>3, <1>5
<1> HIDE DEF Swapped
<1>10. Typed(t)
  <2>1. DOMAIN t.data \subseteq Pair /\ \A p \in DOMAIN t.data : IsValue(t.data[p])
    BY <1>1, <1>5, <1>6
  <2>2. DOMAIN t.mem \subseteq Pair /\ \A p \in DOMAIN t.mem : t.mem[p] \in Nat
    BY <1>1, <1>5, <1>6
  <2>3. DOMAIN t.timers \subseteq Pair /\ \A p \in DOMAIN t.timers : t.timers[p] \in {"live", "elapsed"}
    BY <1>1, <1>5, <1>6
  <2> QED
    BY <1>1, <1>4, <1>5, <1>9, <2>1, <2>2, <2>3 DEF Typed
<1>11. \A p \in DOMAIN t.data : /\ p \in Pair /\ Other(p, a, b) \in DOMAIN data
                                /\ t.data[p] = data[Other(p, a, b)]
                                /\ Bytes(p, t.data[p]) = Bytes(Other(p, a, b), data[Other(p, a, b)])
  BY <1>1, <1>5, <1>6, <1>7
<1>12. \A p \in Pair : /\ p \in DOMAIN t.data <=> Other(p, a, b) \in DOMAIN data
                       /\ p \in DOMAIN t.mem <=> Other(p, a, b) \in DOMAIN keyMemories
                       /\ p \in DOMAIN t.mem => t.mem[p] = keyMemories[Other(p, a, b)]
  BY <1>1, <1>5, <1>6
<1>13. /\ \A p \in DOMAIN data : data[p].type = "list" =>
            p \in DOMAIN keyMemories /\ keyMemories[p] >= Bytes(p, data[p])
       /\ Filling => \A p \in DOMAIN data : DOMAIN data[p].items # {}
       /\ Exacting => /\ DOMAIN keyMemories = DOMAIN data
                      /\ \A p \in DOMAIN data : keyMemories[p] = Bytes(p, data[p])
                      /\ usedMemory = Total(keyMemories)
  BY DEF Fine, Well, Booked, Paid, Exact, Filled, Store
<1>14. Paid(t)
  BY <1>11, <1>12, <1>13 DEF Paid
<1>15. Filling => Filled(t)
  BY <1>11, <1>13 DEF Filled
<1>16. ASSUME Exacting PROVE Exact(t)
  <2>1. DOMAIN t.mem = DOMAIN t.data
    BY <1>10, <1>12, <1>13, <1>16 DEF Typed
  <2>2. \A p \in DOMAIN t.data : t.mem[p] = Bytes(p, t.data[p])
    BY <1>11, <1>12, <1>13, <1>16
  <2> QED
    BY <1>1, <1>8, <1>13, <1>16, <2>1, <2>2 DEF Exact
<1>17. Within(t)
  BY <1>1, <1>5 DEF Within
<1>18. Fine(t)
  BY <1>10, <1>14, <1>15, <1>16, <1>17 DEF Fine, Well, Booked
<1> QED
  BY <1>2, <1>18 DEF Outcome, AllFine

-----------------------------------------------------------------------------
(* The steps.                                                              *)

Books ==
  /\ Typed(Store) /\ Paid(Store)
  /\ maxmemory \in Limit /\ policy \in Policy
  /\ last.bumped \subseteq Pair /\ last.logged \subseteq Pair

BookStep == Books' /\ (Exacting => Exact(Store)') /\ (Filling => Filled(Store)')
GrowthStep ==
  (usedMemory' > usedMemory /\ last'.call # "lset") =>
    (maxmemory = 0 \/ usedMemory' <= maxmemory)

LEMMA StoreFine ==
  ASSUME Books
  PROVE  Fine(Store)
<1>1. Store.used = usedMemory /\ usedMemory \in Nat
  BY DEF Books, Typed, Store
<1>2. maxmemory \in Nat
  BY KeyspaceAssumption DEF Books
<1>3. Within(Store)
  BY <1>1 DEF Within
<1>4. Well(Store)
  BY DEF Books, Well, Booked, Exacting, Filling
<1> QED
  BY <1>1, <1>2, <1>3, <1>4 DEF Fine

LEMMA DoBooks ==
  ASSUME Books, NEW call, NEW P, NEW outcomes, Do(call, P, outcomes), AllWell(outcomes)
  PROVE  BookStep /\ last'.call = call
<1> PICK o \in outcomes :
      /\ data' = o.st.data /\ keyMemories' = o.st.mem /\ usedMemory' = o.st.used
      /\ timers' = o.st.timers /\ lru' = o.st.lru
      /\ last' = [call |-> call, keys |-> P, reply |-> o.reply,
                  bumped |-> o.st.bumped, logged |-> o.st.logged]
  BY DEF Do
<1>1. maxmemory' = maxmemory /\ policy' = policy
  BY DEF Do, config
<1> DEFINE s == o.st
<1>2. Well(s)
  BY DEF AllWell
<1>3. /\ data' = s.data /\ keyMemories' = s.mem /\ usedMemory' = s.used
      /\ timers' = s.timers /\ lru' = s.lru
      /\ last'.bumped = s.bumped /\ last'.logged = s.logged /\ last'.call = call
  OBVIOUS
<1> HIDE DEF s
<1>4. Typed(Store)'
  BY <1>2, <1>3 DEF Well, Booked, Typed, IsStore, Store
<1>5. Paid(Store)'
  BY <1>2, <1>3 DEF Well, Booked, Paid, Bytes, Store
<1>6. Exacting => Exact(Store)'
  BY <1>2, <1>3 DEF Well, Booked, Exact, Bytes, Store
<1>7. Filling => Filled(Store)'
  BY <1>2, <1>3 DEF Well, Filled, Store
<1>8. last'.bumped \subseteq Pair /\ last'.logged \subseteq Pair
  BY <1>2, <1>3 DEF Well, Booked, Typed
<1> QED
  BY <1>1, <1>3, <1>4, <1>5, <1>6, <1>7, <1>8 DEF BookStep, Books, Pair

LEMMA DoFine ==
  ASSUME Books, NEW call, NEW P, NEW outcomes, Do(call, P, outcomes), AllFine(outcomes)
  PROVE  BookStep /\ GrowthStep
<1>1. AllWell(outcomes)
  BY DEF AllFine, AllWell, Fine
<1>2. BookStep
  BY <1>1, DoBooks
<1>3. PICK o \in outcomes : usedMemory' = o.st.used
  BY DEF Do
<1>4. Within(o.st) /\ usedMemory \in Nat
  BY DEF AllFine, Fine
<1>5. usedMemory' \in Nat
  BY <1>2 DEF BookStep, Books, Typed, Store
<1>6. GrowthStep
  BY <1>3, <1>4, <1>5 DEF Within, GrowthStep
<1> QED
  BY <1>2, <1>6

LEMMA ElapseFine ==
  ASSUME Books, NEW p \in Pair, Elapse(p)
  PROVE  BookStep /\ GrowthStep
<1>1. /\ data' = data /\ keyMemories' = keyMemories /\ usedMemory' = usedMemory /\ lru' = lru
      /\ maxmemory' = maxmemory /\ policy' = policy
      /\ last'.bumped = {} /\ last'.logged = {}
  BY DEF Elapse, config
<1>2. DOMAIN timers' = DOMAIN timers /\ \A q \in DOMAIN timers' : timers'[q] \in {"live", "elapsed"}
  BY DEF Elapse, Books, Typed, Store
<1>3. Typed(Store)'
  BY <1>1, <1>2 DEF Books, Typed, IsStore, Store
<1>4. Paid(Store)' /\ (Exacting => Exact(Store)') /\ (Filling => Filled(Store)')
  BY <1>1 DEF Books, Paid, Exacting, Exact, Filling, Filled, Bytes, Store
<1>5. usedMemory \in Nat
  BY DEF Books, Typed, Store
<1>6. GrowthStep
  BY <1>1, <1>5 DEF GrowthStep
<1> QED
  BY <1>1, <1>3, <1>4, <1>6 DEF Books, BookStep

LEMMA IdleFine ==
  ASSUME Books,
         UNCHANGED <<data, keyMemories, usedMemory, timers, lru>>,
         maxmemory' \in Limit, policy' \in Policy,
         last'.bumped \subseteq Pair, last'.logged \subseteq Pair
  PROVE  BookStep /\ GrowthStep
<1>1. Typed(Store)' /\ Paid(Store)' /\ (Exacting => Exact(Store)') /\ (Filling => Filled(Store)')
  BY DEF Books, Typed, IsStore, Paid, Exacting, Exact, Filling, Filled, Bytes, Store
<1>2. usedMemory \in Nat
  BY DEF Books, Typed, Store
<1>3. GrowthStep
  BY <1>2 DEF GrowthStep
<1> QED
  BY <1>1, <1>3 DEF Books, BookStep

LEMMA CommandsFine ==
  ASSUME Books, NEW p \in Pair, Commands(p)
  PROVE  BookStep /\ GrowthStep
<1> Fine(Store)
  BY StoreFine
<1>1. CASE \E size \in Size, ttl \in {"none", "keep", "ex", "past"} :
             Do("set", {p}, Set(p, size, ttl))
  BY <1>1, SetFine, DoFine
<1>2. CASE \E size \in Size : Do("incr", {p}, Rewrite(p, size))
  BY <1>2, SetFine, DoFine
<1>3. CASE \E S \in (SUBSET Elem) \ {{}} : \E added \in [S -> Size] :
             /\ S \cap DOMAIN ItemsOf(CheckExpired(Store, p), p) = {}
             /\ Do("push", {p}, Push(p, added))
  BY <1>3, PushFine, DoFine
<1>4. CASE \E n \in 1..2 : \E pairs \in [1..n -> Elem \X Size] :
             /\ RepeatFields \/ \A i, j \in 1..n : i # j => pairs[i][1] # pairs[j][1]
             /\ Do("hset", {p}, Hset(p, pairs))
  BY <1>4, HsetFine, DoFine
<1>5. CASE \E S \in (SUBSET Elem) \ {{}} :
             \/ Do("sadd", {p}, SetAdd(p, S))
             \/ Do("zadd", {p}, ZsetAdd(p, S, FALSE))
             \/ Do("zaddxx", {p}, ZsetAdd(p, S, TRUE))
  <2> PICK S \in (SUBSET Elem) \ {{}} :
             \/ Do("sadd", {p}, SetAdd(p, S))
             \/ Do("zadd", {p}, ZsetAdd(p, S, FALSE))
             \/ Do("zaddxx", {p}, ZsetAdd(p, S, TRUE))
    BY <1>5
  <2>1. AllFine(SetAdd(p, S)) /\ AllFine(ZsetAdd(p, S, FALSE))
    BY AddFine DEF SetAdd, ZsetAdd
  <2>2. "zaddxx" \in Calls => AllFine(ZsetAdd(p, S, TRUE))
    BY AddFine DEF ZsetAdd
  <2>3. Do("zaddxx", {p}, ZsetAdd(p, S, TRUE)) => "zaddxx" \in Calls
    BY DEF Do
  <2> QED
    BY <2>1, <2>2, <2>3, DoFine
<1>6. CASE \E S \in (SUBSET Elem) \ {{}} :
             Do("rem", {p}, ListPop(p, S) \cup HashDelete(p, S)
                              \cup SetRemove(p, S) \cup ZsetRemove(p, S))
  <2>1. \A S : AllFine(ListPop(p, S) \cup HashDelete(p, S)
                         \cup SetRemove(p, S) \cup ZsetRemove(p, S))
    <3>1. \A S : \A type \in Container : AllFine(Remove(p, type, S))
      BY RemoveFine
    <3>2. /\ "list" \in Container /\ "hash" \in Container
          /\ "set" \in Container /\ "zset" \in Container
      BY DEF Container
    <3> QED
      BY <3>1, <3>2 DEF ListPop, HashDelete, SetRemove, ZsetRemove, AllFine
  <2> QED
    BY <1>6, <2>1, DoFine
<1>7. CASE \E e \in Elem, size \in Size : Do("lset", {p}, Lset(p, e, size))
  <2>1. BookStep /\ last'.call = "lset"
    BY <1>7, LsetWell, DoBooks
  <2> QED
    BY <2>1 DEF GrowthStep
<1>8. CASE \E S \in SUBSET Elem : Do("lrem", {p}, Lrem(p, S))
  BY <1>8, LremFine, DoFine
<1>9. CASE Do("get", {p}, Get(p))
  BY <1>9, DeletionsFine, DoFine
<1>10. CASE Do("del", {p}, Del(p))
  BY <1>10, DeletionsFine, DoFine
<1>11. CASE \E past \in BOOLEAN : Do("expire", {p}, Expire(p, past))
  BY <1>11, DeadlineFine, DoFine
<1>12. CASE Do("persist", {p}, Persist(p))
  BY <1>12, DeadlineFine, DoFine
<1>13. CASE Elapse(p)
  BY <1>13, ElapseFine
<1> QED
  BY <1>1, <1>2, <1>3, <1>4, <1>5, <1>6, <1>7, <1>8, <1>9, <1>10, <1>11, <1>12, <1>13
     DEF Commands

LEMMA NextFine ==
  ASSUME Books, [Next]_vars
  PROVE  BookStep /\ [GrowthStep]_vars
<1> Fine(Store)
  BY StoreFine
<1>1. ASSUME NEW p \in Pair, Commands(p) PROVE BookStep /\ GrowthStep
  BY <1>1, CommandsFine
<1>2. ASSUME NEW p \in Pair, NEW q \in Pair, NEW m \in Size, NEW n \in Size,
             Do("mset", {p, q}, Mset(p, m, q, n))
      PROVE  BookStep /\ GrowthStep
  BY <1>2, MsetFine, DoFine
<1>3. ASSUME NEW p \in Pair, NEW q \in Pair, Do("rename", {p, q}, Rename(p, q))
      PROVE  BookStep /\ GrowthStep
  BY <1>3, RenameFine, DoFine
<1>4. ASSUME NEW db \in Db, Do("scan", {db} \X Key, Scan(db)) PROVE BookStep /\ GrowthStep
  BY <1>4, DeletionsFine, DoFine
<1>5. ASSUME NEW db \in Db, Do("flushdb", {db} \X Key, FlushDb(db)) PROVE BookStep /\ GrowthStep
  BY <1>5, FlushDbFine, DoFine
<1>6. ASSUME Do("flushall", Pair, FlushAll) PROVE BookStep /\ GrowthStep
  BY <1>6, FlushAllFine, DoFine
<1>7. ASSUME NEW a \in Db, NEW b \in Db, Do("swapdb", {a, b} \X Key, SwapDb(a, b))
      PROVE  BookStep /\ GrowthStep
  BY <1>7, SwapFine, DoFine
<1>8. ASSUME Do("sweep", Elapsed, Sweep) PROVE BookStep /\ GrowthStep
  BY <1>8, DeletionsFine, DoFine
<1>9. ASSUME NEW limit \in Limit, NEW name \in Policy, ConfigSet(limit, name)
      PROVE  BookStep /\ GrowthStep
  BY <1>9, IdleFine DEF ConfigSet
<1>10. CASE UNCHANGED vars
  <2>1. BookStep /\ GrowthStep
    BY <1>10, IdleFine DEF vars, config, Books
  <2> QED
    BY <2>1
<1>11. CASE Next
  BY <1>1, <1>2, <1>3, <1>4, <1>5, <1>6, <1>7, <1>8, <1>9, <1>11 DEF Next
<1> QED
  BY <1>10, <1>11

LEMMA InitBooks == Init => Books /\ Exact(Store) /\ Filled(Store)
<1> SUFFICES ASSUME Init PROVE Books /\ Exact(Store) /\ Filled(Store)
  OBVIOUS
<1>1. DOMAIN data = {} /\ DOMAIN keyMemories = {} /\ DOMAIN timers = {} /\ usedMemory = 0 /\ lru = {}
  BY DEF Init
<1>2. Total(keyMemories) = 0
  BY <1>1, TotalIs, SummedEmpty
<1>3. Typed(Store)
  BY <1>1 DEF Typed, IsStore, Store
<1>4. Paid(Store) /\ Exact(Store) /\ Filled(Store)
  BY <1>1, <1>2 DEF Paid, Exact, Filled, Store
<1> QED
  BY <1>3, <1>4 DEF Init, Books

-----------------------------------------------------------------------------
(* The theorems.                                                           *)

\* The five tables keep their shapes, whatever is evicted, expired or refused.
THEOREM KeyspaceTypes == Spec => []TypeOK
<1>1. Books /\ [Next]_vars => Books'
  BY NextFine DEF BookStep
<1>2. Books => TypeOK
  BY DEF Books, Typed, TypeOK, IsValue, Store
<1> QED
  BY <1>1, <1>2, InitBooks, PTL DEF Spec

\* No step but LSET makes the dataset larger beyond maxmemory (enforceMemoryLimit).
THEOREM GrowthIsAdmitted == Spec => GrowthAdmitted
<1>1. Books /\ [Next]_vars => Books'
  BY NextFine DEF BookStep
<1>2. Books /\ [Next]_vars =>
        [(usedMemory' > usedMemory /\ last'.call # "lset") =>
           (maxmemory = 0 \/ usedMemory' <= maxmemory)]_vars
  BY NextFine DEF GrowthStep
<1> QED
  BY <1>1, <1>2, InitBooks, PTL DEF Spec, GrowthAdmitted

\* Without eviction the counter is the sum of the charges, and each key is charged
\* for its value, however the increments of the operations were computed; ZADD XX
\* of a new key and a field named twice aside.
THEOREM BooksExact ==
  ASSUME ~RepeatFields, "zaddxx" \notin Calls
  PROVE  Spec /\ [](policy = "noeviction") => [](AccountingExact /\ ChargedForValue)
<1> DEFINE E == Exact(Store)
<1>1. Books /\ [Next]_vars => Books'
  BY NextFine DEF BookStep
<1>2. Books /\ E /\ policy = "noeviction" /\ [Next]_vars => E'
  BY NextFine DEF BookStep, Exacting
<1>3. E => AccountingExact /\ ChargedForValue
  BY DEF Exact, Store, AccountingExact, ChargedForValue
<1>4. Init => Books /\ E
  BY InitBooks
<1> HIDE DEF E
<1> QED
  BY <1>1, <1>2, <1>3, <1>4, PTL DEF Spec

\* A list is charged at least its bytes, even when it lost its value to an eviction
\* it caused itself: LREM re-estimates it and never makes the dataset larger.
THEOREM ListsPaid == Spec => []Paid(Store)
<1>1. Books /\ [Next]_vars => Books'
  BY NextFine DEF BookStep
<1>2. Books => Paid(Store)
  BY DEF Books
<1> QED
  BY <1>1, <1>2, InitBooks, PTL DEF Spec

\* Under any policy, ZADD XX alone can leave an empty container behind.
THEOREM ContainersFilled ==
  ASSUME "zaddxx" \notin Calls
  PROVE  Spec => []NoEmptyContainers
<1> DEFINE E == Filled(Store)
<1>1. Books /\ [Next]_vars => Books'
  BY NextFine DEF BookStep
<1>2. Books /\ E /\ [Next]_vars => E'
  BY NextFine DEF BookStep, Filling
<1>3. E => NoEmptyContainers
  BY DEF Filled, Store, NoEmptyContainers
<1>4. Init => Books /\ E
  BY InitBooks
<1> HIDE DEF E
<1> QED
  BY <1>1, <1>2, <1>3, <1>4, PTL DEF Spec
===============================================================================
