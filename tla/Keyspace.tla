------------------------------ MODULE Keyspace ------------------------------
(***************************************************************************)
(* The in-memory dataset of RediForge: src/datastore/store.js together     *)
(* with the two indexes it keeps beside the data, the TTL table of         *)
(* expiry.js and the eviction pool of lru.js.                              *)
(*                                                                         *)
(* Everything runs on one Node.js event loop, so every store operation is  *)
(* one step.  What makes it hard is that the same key lives in five        *)
(* tables (value, type, byte count, TTL, eviction pool) plus one global    *)
(* byte counter, that lazy expiry deletes keys in the middle of an         *)
(* operation, and that admission under `maxmemory` may evict ANY key,      *)
(* the one being written included, between the moment an operation reads   *)
(* the key and the moment it stores it.                                    *)
(*                                                                         *)
(* Data are abstracted to sizes: a value is a type tag and a finite        *)
(* function from element slots to byte sizes (a string has one slot).      *)
(* A key is named <<db, key>>, as the "db:key" strings of the code.        *)
(* Time is abstracted to a TTL being "live" or "elapsed".                  *)
(***************************************************************************)
EXTENDS Integers, FiniteSets, FiniteSetsExt

CONSTANTS
  Db,            \* database indexes
  Key,           \* key names
  Elem,          \* list slots, hash fields, set and sorted-set members
  Size,          \* byte sizes of an element or of a string
  KeyCost,       \* KeyCost[k]: bytes charged for the key name and the maps
  Limit,         \* values given to config maxmemory; 0 is "no limit"
  Policy,        \* values given to config maxmemory_policy
  SweepBatch,    \* maxBatch of the active expiry sweep
  Calls,         \* the operations the clients of this instance use
  RepeatFields   \* may one HSET name a field twice?

ASSUME KeyspaceAssumption ==
  /\ IsFiniteSet(Db) /\ IsFiniteSet(Key) /\ IsFiniteSet(Elem)
  /\ Size \subseteq Nat \ {0}
  /\ KeyCost \in [Key -> Nat \ {0}]
  /\ Limit \subseteq Nat
  /\ Policy \subseteq {"noeviction", "allkeys-lru", "volatile-lru"}
  /\ SweepBatch \in Nat \ {0}
  /\ RepeatFields \in BOOLEAN

VARIABLES
  maxmemory,     \* the two settings CONFIG SET changes while clients write
  policy,
  data,          \* _dbs and _types: <<db, key>> -> [type, items]
  keyMemories,   \* _keyMemories: <<db, key>> -> bytes charged
  usedMemory,    \* _usedMemory
  timers,        \* expiry._timers: <<db, key>> -> "live" | "elapsed"
  lru,           \* the <<db, key>> of lru._keys
  last           \* what the latest call did, see Outcome

config == <<maxmemory, policy>>
vars == <<config, data, keyMemories, usedMemory, timers, lru, last>>

Pair == Db \X Key
Slot == Elem \cup {"value"}
Container == {"list", "hash", "set", "zset"}

-----------------------------------------------------------------------------
(* Finite maps, as the JavaScript Maps of the code use them.               *)

Put(f, x, v) == [y \in DOMAIN f \cup {x} |-> IF y = x THEN v ELSE f[y]]
Without(f, S) == [y \in DOMAIN f \ S |-> f[y]]
Total(f) == MapThenSumSet(LAMBDA x : f[x], DOMAIN f)
NoClamp(n) == n                            \* variant: Math.max forgotten
AtLeast0(n) == IF n < 0 THEN 0 ELSE n      \* Math.max(0, n)

\* estimateMemory: the key's own cost and the sizes of the elements.
Bytes(p, v) == KeyCost[p[2]] + Total(v.items)

\* A store value threaded through the calls of one operation; `bumped` are
\* the pairs whose version a WATCH compares was increased, `logged` the pairs
\* named by a mutation recorded for the AOF and the replicas.
Store == [data |-> data, mem |-> keyMemories, used |-> usedMemory,
          timers |-> timers, lru |-> lru, bumped |-> {}, logged |-> {}]

MemOf(s, p) == IF p \in DOMAIN s.mem THEN s.mem[p] ELSE 0
Has(s, p) == p \in DOMAIN s.data
Touch(s, p) == [s EXCEPT !.lru = @ \cup {p}]
Bump(s, P) == [s EXCEPT !.bumped = @ \cup P]
Log(s, P) == [s EXCEPT !.logged = @ \cup P]

\* Variant of DeleteKeys that leaves the versions alone.
DeleteUnversioned(s, P) ==
  [s EXCEPT !.data = Without(@, P), !.timers = Without(@, P), !.lru = @ \ P,
            !.mem = Without(@, P),
            !.used = AtLeast0(@ - MapThenSumSet(LAMBDA p : MemOf(s, p), P))]

\* Variant of DeleteKeys that records no mutation.
DeleteUnlogged(s, P) ==
  Bump([s EXCEPT !.data = Without(@, P), !.timers = Without(@, P), !.lru = @ \ P,
                 !.mem = Without(@, P),
                 !.used = AtLeast0(@ - MapThenSumSet(LAMBDA p : MemOf(s, p), P))],
       P \cap DOMAIN s.data)

\* deleteKey, for every key of P.
DeleteKeys(s, P) ==
  LET existed == P \cap DOMAIN s.data
      freed == MapThenSumSet(LAMBDA p : MemOf(s, p), P)
  IN  Log(Bump([s EXCEPT !.data = Without(@, P), !.timers = Without(@, P),
                         !.lru = @ \ P, !.mem = Without(@, P),
                         !.used = AtLeast0(@ - freed)],
               existed), existed)

\* _checkExpired: the lazy half of expiry.
CheckExpired(s, p) ==
  IF p \in DOMAIN s.timers /\ s.timers[p] = "elapsed"
  THEN DeleteKeys(s, {p}) ELSE s

-----------------------------------------------------------------------------
(* Admission and eviction.                                                 *)

\* Variant of Fits that forgets the incoming bytes.
FitsBefore(s, E, delta) ==
  AtLeast0(s.used - MapThenSumSet(LAMBDA p : MemOf(s, p), E)) <= maxmemory

\* Would the write fit once the keys of E are gone?
Fits(s, E, delta) ==
  AtLeast0(s.used - MapThenSumSet(LAMBDA p : MemOf(s, p), E)) + delta <= maxmemory

\* Variant of Candidates that ignores the policy.
AnyCandidate(s) == s.lru

\* _pickCandidate samples at random, so any indexed key may be the victim.
Candidates(s) == IF policy = "volatile-lru" THEN DOMAIN s.timers ELSE s.lru

\* The key sets the eviction loop may delete: one key at a time until the
\* write fits or nothing is left, so all but the last were not enough.
Victims(s, delta) ==
  {E \in SUBSET Candidates(s) :
     /\ Fits(s, E, delta) \/ E = Candidates(s)
     /\ E = {} \/ \E e \in E : ~Fits(s, E \ {e}, delta)}

\* enforceMemoryLimit: the stores it may leave and whether it rejects.
Enforce(s, delta) ==
  IF maxmemory = 0 \/ s.used + delta <= maxmemory
  THEN {[st |-> s, full |-> FALSE]}
  ELSE IF policy = "noeviction"
  THEN {[st |-> s, full |-> TRUE]}
  ELSE {[st |-> DeleteKeys(s, E), full |-> ~Fits(s, E, delta)] :
          E \in Victims(s, delta)}

\* The guard `memDelta > 0` most operations put around it.
EnforceGrowth(s, delta) ==
  IF delta > 0 THEN Enforce(s, delta) ELSE {[st |-> s, full |-> FALSE]}

Outcome(s, reply) == [st |-> s, reply |-> reply]

\* Variant of StoreSet that stores first and asks for admission afterwards.
StoreThenAdmit(s, p, v) ==
  {Outcome([a.st EXCEPT !.data = Put(@, p, v)], IF a.full THEN "oom" ELSE "ok") :
     a \in Enforce(s, Bytes(p, v) - MemOf(s, p))}

\* set: the byte delta is computed before the eviction it may cause.
StoreSet(s, p, v) ==
  LET newMem == Bytes(p, v)
      delta == newMem - MemOf(s, p)
      Stored(t) == Log(Bump(Touch(
                     [t EXCEPT !.data = Put(@, p, v), !.mem = Put(@, p, newMem),
                               !.used = AtLeast0(@ + delta)], p), {p}), {p})
  IN  {IF a.full THEN Outcome(a.st, "oom") ELSE Outcome(Stored(a.st), "ok") :
         a \in Enforce(s, delta)}

-----------------------------------------------------------------------------
(* The operations: each returns the set of its possible outcomes.          *)

OfType(s, p, type) == Has(s, p) => s.data[p].type = type
Str(size) == [type |-> "string", items |-> [x \in {"value"} |-> size]]

\* cmdSet: type check, read of the old value, NX/XX, store.set, then the TTL.
\* Whether the key is there or not, one of NX and XX refuses it.
Set(p, size, ttl) ==
  LET s == CheckExpired(Store, p)
      seen == IF Has(s, p) THEN Touch(s, p) ELSE s
      WithTtl(t) ==
        CASE ttl = "past" -> DeleteKeys(t, {p})
          [] ttl = "keep" -> IF p \in DOMAIN s.timers
                             THEN [t EXCEPT !.timers = Put(@, p, s.timers[p])] ELSE t
          [] ttl = "ex"   -> [t EXCEPT !.timers = Put(@, p, "live")]
          [] ttl = "none" -> [t EXCEPT !.timers = Without(@, {p})]
  IN  IF ~OfType(s, p, "string") THEN {Outcome(s, "wrongtype")}
      ELSE {Outcome(seen, "nil")} \cup
           {IF r.reply = "ok" THEN Outcome(WithTtl(r.st), "ok") ELSE r :
              r \in StoreSet(seen, p, Str(size))}

\* INCR, DECR, INCRBYFLOAT, APPEND: read, compute, store.set; TTL untouched.
Rewrite(p, size) ==
  LET s == CheckExpired(Store, p)
      seen == IF Has(s, p) THEN Touch(s, p) ELSE s
  IN  IF ~OfType(s, p, "string") THEN {Outcome(s, "wrongtype")}
      ELSE StoreSet(seen, p, Str(size))

\* cmdMset of two pairs: one admission for the total, then the single sets,
\* whose own rejections are ignored.
Mset(p, m, q, n) ==
  LET Delta(x, size) == Bytes(x, Str(size)) - MemOf(Store, x)
      Step(t, x, size) == {[r.st EXCEPT !.timers = Without(@, {x})] :
                             r \in StoreSet(t, x, Str(size))}
  IN  UNION {IF a.full THEN {Outcome(a.st, "oom")}
             ELSE {Outcome(u, "ok") :
                     u \in UNION {Step(t, q, n) : t \in Step(a.st, p, m)}} :
               a \in EnforceGrowth(Store, Delta(p, m) + Delta(q, n))}

\* What the four container inserts share once the admitted delta is known:
\* `held` is the container the operation read BEFORE admission; elements added
\* to it reach the store only if the key still holds that container.
Insert(s, p, type, items, delta) ==
  LET held == Has(s, p)
      Stored(t) ==
        LET grown == [type |-> type, items |-> items]
            kept == IF held /\ ~Has(t, p) THEN t.data ELSE Put(t.data, p, grown)
        IN  Log(Bump(Touch([t EXCEPT
                  !.data = kept,
                  !.mem = Put(@, p, AtLeast0(MemOf(t, p) + delta)),
                  !.used = AtLeast0(@ + delta)], p), {p}), {p})
  IN  IF ~OfType(s, p, type) THEN {Outcome(s, "wrongtype")}
      ELSE {IF a.full THEN Outcome(a.st, "oom") ELSE Outcome(Stored(a.st), "ok") :
              a \in EnforceGrowth(s, delta)}

ItemsOf(s, p) == IF Has(s, p) THEN s.data[p].items ELSE [x \in {} |-> 0]
NewCost(s, p) == IF Has(s, p) THEN 0 ELSE KeyCost[p[2]]
Merge(f, g) == [x \in DOMAIN f \cup DOMAIN g |-> IF x \in DOMAIN g THEN g[x] ELSE f[x]]

\* listPushLeft, listPushRight: `added` maps fresh slots to sizes.
Push(p, added) ==
  LET s == CheckExpired(Store, p)
  IN  Insert(s, p, "list", Merge(ItemsOf(s, p), added), NewCost(s, p) + Total(added))

\* Variant of HashDelta that charges an overwritten field in full.
OverwriteDelta(s, p, first, final) ==
  NewCost(s, p) + Total(IF Has(s, p) THEN final ELSE first)

HashDelta(s, p, first, final) ==
  IF Has(s, p) THEN Total(Merge(ItemsOf(s, p), final)) - Total(ItemsOf(s, p))
  ELSE KeyCost[p[2]] + Total(first)

\* hashSet: the delta of a new hash counts the FIRST value of each field, the
\* stored hash holds the LAST; for an existing hash the deltas telescope.
Hset(p, pairs) ==
  LET s == CheckExpired(Store, p)
      fields == {pairs[i][1] : i \in DOMAIN pairs}
      At(f) == {i \in DOMAIN pairs : pairs[i][1] = f}
      first == [f \in fields |-> pairs[Min(At(f))][2]]
      final == [f \in fields |-> pairs[Max(At(f))][2]]
  IN  Insert(s, p, "hash", Merge(ItemsOf(s, p), final), HashDelta(s, p, first, final))

\* setAdd, and zsetAdd (xx: only update members already there).
AddMembers(p, type, members, xx) ==
  LET s == CheckExpired(Store, p)
      added == IF xx THEN {} ELSE members \ DOMAIN ItemsOf(s, p)
  IN  Insert(s, p, type, Merge(ItemsOf(s, p), [m \in added |-> 1]),
             Cardinality(added) + IF added = {} THEN 0 ELSE NewCost(s, p))

SetAdd(p, members) == AddMembers(p, "set", members, FALSE)
ZsetAdd(p, members, xx) == AddMembers(p, "zset", members, xx)

\* Variant of Emptied that never lets the key go.
NeverEmptied(items) == FALSE
Emptied(items) == DOMAIN items = {}

\* What the removing operations share.
Remove(p, type, members) ==
  LET s == CheckExpired(Store, p)
      gone == members \cap DOMAIN ItemsOf(s, p)
      left == Without(ItemsOf(s, p), gone)
      freed == MapThenSumSet(LAMBDA x : ItemsOf(s, p)[x], gone)
      shrunk == Bump(Touch([s EXCEPT
                  !.data = Put(@, p, [type |-> type, items |-> left]),
                  !.mem = Put(@, p, AtLeast0(MemOf(s, p) - freed)),
                  !.used = AtLeast0(@ - freed)], p), {p})
  IN  IF ~OfType(s, p, type) THEN {Outcome(s, "wrongtype")}
      ELSE IF gone = {} THEN {Outcome(s, "nil")}
      ELSE {Outcome(Log(IF Emptied(left) THEN DeleteKeys(s, {p}) ELSE shrunk, {p}), "ok")}

\* listPopLeft and listPopRight take from the ends; which elements those are
\* the slots do not say.
ListPop(p, elements) == Remove(p, "list", elements)
HashDelete(p, fields) == Remove(p, "hash", fields)
SetRemove(p, members) == Remove(p, "set", members)
ZsetRemove(p, members) == Remove(p, "zset", members)

\* markDirty: re-estimate a value changed in place; no admission, no record.
MarkDirty(s, p, v) ==
  LET newMem == Bytes(p, v)
  IN  Bump(Touch([s EXCEPT !.data = Put(@, p, v), !.mem = Put(@, p, newMem),
                           !.used = AtLeast0(@ + newMem - MemOf(s, p))], p), {p})

\* cmdLset overwrites one element of a list.
Lset(p, e, size) ==
  LET s == CheckExpired(Store, p)
  IN  IF ~OfType(s, p, "list") THEN {Outcome(s, "wrongtype")}
      ELSE IF e \notin DOMAIN ItemsOf(s, p)
      THEN {Outcome(IF Has(s, p) THEN Touch(s, p) ELSE s, "nil")}
      ELSE {Outcome(MarkDirty(s, p, [s.data[p] EXCEPT !.items[e] = size]), "ok")}

\* cmdLrem removes the elements equal to a value, then the emptied list.
Lrem(p, equal) ==
  LET s == CheckExpired(Store, p)
      seen == IF Has(s, p) THEN Touch(s, p) ELSE s
      gone == equal \cap DOMAIN ItemsOf(s, p)
      left == Without(ItemsOf(s, p), gone)
      t == MarkDirty(seen, p, [type |-> "list", items |-> left])
  IN  IF ~OfType(s, p, "list") THEN {Outcome(s, "wrongtype")}
      ELSE IF gone = {} THEN {Outcome(seen, "nil")}
      ELSE {Outcome(IF Emptied(left) THEN DeleteKeys(t, {p}) ELSE t, "ok")}

\* Variants of the two definitions below: the overwritten target's bytes and
\* the source's version are forgotten.
RenameDeltaNoTarget(s, from, to) == Bytes(to, s.data[from]) - MemOf(s, from)
TargetOnly(from, to) == {to}

RenameDelta(s, from, to) == Bytes(to, s.data[from]) - MemOf(s, to) - MemOf(s, from)
Renamed(from, to) == {from, to}

\* rename: source, target and byte counts are read before the admission.
Rename(from, to) ==
  LET s == DeleteKeys(Store, {p \in {from, to} : p \in DOMAIN timers /\ timers[p] = "elapsed"})
      delta == RenameDelta(s, from, to)
      Moved(t) ==
        LET indexed == IF Has(t, to) THEN {from, to} ELSE {from}
            ttl == Without(t.timers, indexed)
        IN  [t EXCEPT
              !.data = Put(Without(@, {from}), to, s.data[from]),
              !.mem = Put(Without(@, {from}), to, Bytes(to, s.data[from])),
              !.used = AtLeast0(@ + delta),
              !.lru = (@ \ indexed) \cup {to},
              !.timers = IF from \in DOMAIN s.timers
                         THEN Put(ttl, to, s.timers[from]) ELSE ttl]
  IN  IF ~Has(s, from) THEN {Outcome(s, "nil")}
      ELSE IF from = to THEN {Outcome(s, "ok")}
      ELSE {IF a.full THEN Outcome(a.st, "oom")
            ELSE Outcome(Log(Bump(Moved(a.st), Renamed(from, to)), {from, to}), "ok") :
              a \in EnforceGrowth(s, delta)}

\* get
Get(p) ==
  LET s == CheckExpired(Store, p)
  IN  {Outcome(IF Has(s, p) THEN Touch(s, p) ELSE s, "ok")}

\* cmdDel calls deleteKey without looking at the TTL.
Del(p) == {Outcome(DeleteKeys(Store, {p}), "ok")}

\* keysInDb: a scan (KEYS, DBSIZE, RANDOMKEY) expires what it meets.
Scan(db) ==
  {Outcome(DeleteKeys(Store, {p \in DOMAIN data : /\ p[1] = db
                                                  /\ p \in DOMAIN timers
                                                  /\ timers[p] = "elapsed"}), "ok")}

\* expire, pexpire, expireAt, pexpireAt: a deadline in the past deletes.
Expire(p, past) ==
  LET s == CheckExpired(Store, p)
      t == [s EXCEPT !.timers = Put(@, p, "live")]
  IN  IF ~Has(s, p) THEN {Outcome(s, "nil")}
      ELSE IF past THEN {Outcome(DeleteKeys(s, {p}), "ok")}
      ELSE {Outcome(Log(Bump(Touch(t, p), {p}), {p}), "ok")}

\* persist
Persist(p) ==
  LET s == CheckExpired(Store, p)
      t == [s EXCEPT !.timers = Without(@, {p})]
  IN  IF ~Has(s, p) \/ p \notin DOMAIN s.timers THEN {Outcome(s, "nil")}
      ELSE {Outcome(Log(Bump(Touch(t, p), {p}), {p}), "ok")}

\* Variant of Cleared that leaves the eviction pool behind.
ClearedButPool(s, P) == [s EXCEPT !.data = Without(@, P), !.mem = Without(@, P),
                                  !.timers = Without(@, P)]

\* flushDb of one index; flushAll resets the byte counter outright.
Cleared(s, P) == [s EXCEPT !.data = Without(@, P), !.mem = Without(@, P),
                           !.timers = Without(@, P), !.lru = @ \ P]
FlushDb(db) ==
  LET P == {db} \X Key
      freed == MapThenSumSet(LAMBDA p : MemOf(Store, p), P)
      t == [Cleared(Store, P) EXCEPT !.used = AtLeast0(@ - freed)]
  IN  {Outcome(Log(Bump(t, P), P), "ok")}
FlushAll ==
  {Outcome(Log(Bump([Cleared(Store, Pair) EXCEPT !.used = 0], Pair), Pair), "ok")}

\* Where a pair goes when two databases are exchanged.
Other(p, a, b) == <<IF p[1] = a THEN b ELSE IF p[1] = b THEN a ELSE p[1], p[2]>>

\* Variant of SwappedPool that renames the entries of one database only.
PoolOneWay(pool, a, b) == {<<IF p[1] = a THEN b ELSE p[1], p[2]>> : p \in pool}

\* The pool is rebuilt entry by entry from its "db:key" names.
SwappedPool(pool, a, b) == {Other(p, a, b) : p \in pool}

\* swapDb: the tables change places, the two "db:key" indexes are renamed;
\* both databases get a new version, and no mutation is recorded.
SwapDb(a, b) ==
  LET Swapped(f) == [p \in {Other(q, a, b) : q \in DOMAIN f} |-> f[Other(p, a, b)]]
  IN  {Outcome(Bump([Store EXCEPT !.data = Swapped(@), !.mem = Swapped(@),
                                  !.timers = Swapped(@),
                                  !.lru = SwappedPool(@, a, b)],
                    {a, b} \X Key), "ok")}

\* _sweep: at most SweepBatch elapsed keys, earliest deadlines first.
Elapsed == {p \in DOMAIN timers : timers[p] = "elapsed"}
Sweep ==
  {Outcome(DeleteKeys(Store, E), "ok") :
     E \in {E \in SUBSET Elapsed :
              Cardinality(E) = Min({SweepBatch, Cardinality(Elapsed)})}}

-----------------------------------------------------------------------------
(* The state machine: one step per operation.                              *)

Init ==
  /\ maxmemory \in Limit /\ policy \in Policy
  /\ data = <<>> /\ keyMemories = <<>> /\ usedMemory = 0
  /\ timers = <<>> /\ lru = {}
  /\ last = [call |-> "start", keys |-> {}, reply |-> "ok", bumped |-> {}, logged |-> {}]

\* Perform one of the outcomes of an operation that names the pairs P.
Do(call, P, outcomes) ==
  /\ call \in Calls
  /\ \E o \in outcomes :
       /\ data' = o.st.data
       /\ keyMemories' = o.st.mem
       /\ usedMemory' = o.st.used
       /\ timers' = o.st.timers
       /\ lru' = o.st.lru
       /\ last' = [call |-> call, keys |-> P, reply |-> o.reply,
                   bumped |-> o.st.bumped, logged |-> o.st.logged]
  /\ UNCHANGED config

\* CONFIG SET: nothing is evicted until the next write asks for memory.
ConfigSet(limit, name) ==
  /\ maxmemory' = limit /\ policy' = name
  /\ last' = [call |-> "config", keys |-> {}, reply |-> "ok", bumped |-> {}, logged |-> {}]
  /\ UNCHANGED <<data, keyMemories, usedMemory, timers, lru>>

\* Time passes a deadline.
Elapse(p) ==
  /\ p \in DOMAIN timers /\ timers[p] = "live"
  /\ timers' = [timers EXCEPT ![p] = "elapsed"]
  /\ last' = [call |-> "time", keys |-> {p}, reply |-> "ok", bumped |-> {}, logged |-> {}]
  /\ UNCHANGED <<config, data, keyMemories, usedMemory, lru>>

Commands(p) ==
  \/ \E size \in Size, ttl \in {"none", "keep", "ex", "past"} :
       Do("set", {p}, Set(p, size, ttl))
  \/ \E size \in Size : Do("incr", {p}, Rewrite(p, size))
  \/ \E S \in (SUBSET Elem) \ {{}} : \E added \in [S -> Size] :
       /\ S \cap DOMAIN ItemsOf(CheckExpired(Store, p), p) = {}
       /\ Do("push", {p}, Push(p, added))
  \/ \E n \in 1..2 : \E pairs \in [1..n -> Elem \X Size] :
       /\ RepeatFields \/ \A i, j \in 1..n : i # j => pairs[i][1] # pairs[j][1]
       /\ Do("hset", {p}, Hset(p, pairs))
  \/ \E S \in (SUBSET Elem) \ {{}} :
       \/ Do("sadd", {p}, SetAdd(p, S))
       \/ Do("zadd", {p}, ZsetAdd(p, S, FALSE))
       \/ Do("zaddxx", {p}, ZsetAdd(p, S, TRUE))
       \/ Do("rem", {p}, ListPop(p, S) \cup HashDelete(p, S)
                          \cup SetRemove(p, S) \cup ZsetRemove(p, S))
  \/ \E e \in Elem, size \in Size : Do("lset", {p}, Lset(p, e, size))
  \/ \E S \in SUBSET Elem : Do("lrem", {p}, Lrem(p, S))
  \/ Do("get", {p}, Get(p))
  \/ Do("del", {p}, Del(p))
  \/ \E past \in BOOLEAN : Do("expire", {p}, Expire(p, past))
  \/ Do("persist", {p}, Persist(p))
  \/ Elapse(p)

Next ==
  \/ \E p \in Pair : Commands(p)
  \/ \E p \in Pair, q \in Pair, m \in Size, n \in Size :
       p[1] = q[1] /\ Do("mset", {p, q}, Mset(p, m, q, n))
  \/ \E p \in Pair, q \in Pair : p[1] = q[1] /\ Do("rename", {p, q}, Rename(p, q))
  \/ \E db \in Db : Do("scan", {db} \X Key, Scan(db))
  \/ \E db \in Db : Do("flushdb", {db} \X Key, FlushDb(db))
  \/ Do("flushall", Pair, FlushAll)
  \/ \E a, b \in Db : Do("swapdb", {a, b} \X Key, SwapDb(a, b))
  \/ Elapsed # {} /\ Do("sweep", Elapsed, Sweep)
  \/ \E limit \in Limit, name \in Policy : ConfigSet(limit, name)

Spec == Init /\ [][Next]_vars

-----------------------------------------------------------------------------
(* Properties.                                                             *)

\* Type invariant: the shape of the five tables of the store.
TypeOK ==
  /\ maxmemory \in Limit /\ policy \in Policy
  /\ DOMAIN data \subseteq Pair
  /\ \A p \in DOMAIN data :
       /\ data[p].type \in Container \cup {"string"}
       /\ DOMAIN data[p].items \subseteq Slot
       /\ \A x \in DOMAIN data[p].items : data[p].items[x] \in Size \cup {1}
  /\ DOMAIN keyMemories \subseteq Pair
  /\ \A p \in DOMAIN keyMemories : keyMemories[p] \in Nat
  /\ usedMemory \in Nat
  /\ DOMAIN timers \subseteq Pair
  /\ \A p \in DOMAIN timers : timers[p] \in {"live", "elapsed"}
  /\ lru \subseteq Pair
  /\ last.bumped \subseteq Pair /\ last.logged \subseteq Pair

\* The global counter is the sum of the per-key byte counts: what `maxmemory`
\* is compared with is what the keys are charged for (store.js, every write).
AccountingExact == usedMemory = Total(keyMemories)

\* Each key is charged exactly what estimateMemory says of its value, through
\* every incremental update of the container operations.
ChargedForValue ==
  \A p \in DOMAIN data : /\ p \in DOMAIN keyMemories
                         /\ keyMemories[p] = Bytes(p, data[p])

\* The tables name the same keys: no key is charged for, expired or offered
\* for eviction that is not stored, and every stored key can be evicted.
IndexesAgree ==
  /\ DOMAIN keyMemories = DOMAIN data
  /\ lru = DOMAIN data
  /\ DOMAIN timers \subseteq DOMAIN data

\* A container operation never leaves an empty container behind.
NoEmptyContainers == \A p \in DOMAIN data : DOMAIN data[p].items # {}

\* A step makes the dataset larger only up to maxmemory, whatever was evicted
\* or expired on the way, except LSET, which is admitted by nobody.
GrowthAdmitted ==
  [][(usedMemory' > usedMemory /\ last'.call # "lset") =>
       (maxmemory = 0 \/ usedMemory' <= maxmemory)]_vars

Changed(p) == \/ (p \in DOMAIN data) # (p \in DOMAIN data')
              \/ p \in DOMAIN data /\ p \in DOMAIN data' /\ data[p] # data'[p]
TtlChanged(p) == (p \in DOMAIN timers) # (p \in DOMAIN timers')

\* Whatever a step does to a value or to the presence of a TTL, as the target
\* of the operation, as an evicted victim, or as a key found expired, the
\* version a WATCH compares moves with it. MSET is left out for the TTL: when the
\* one store.set of a pair is refused it goes on to removeExpiry all the same.
EveryChangeBumps ==
  [][\A p \in Pair : Changed(p) \/ (TtlChanged(p) /\ last'.call # "mset") => p \in last'.bumped]_vars

\* An operation answered OOM has written nothing: every key it leaves changed
\* is gone, and was either expired or, if a policy allows it, evicted.
RejectedWritesNothing ==
  [][last'.reply = "oom" =>
       \A p \in Pair : Changed(p) =>
         /\ p \notin DOMAIN data'
         /\ policy = "noeviction" => p \in Elapsed]_vars

\* Under volatile-lru a key without a TTL disappears only in an operation that
\* names it, never as a victim of somebody else's write.
VictimsAreVolatile ==
  [][policy = "volatile-lru" =>
       \A p \in DOMAIN data \ DOMAIN timers : p \notin DOMAIN data' => p \in last'.keys]_vars

\* Whatever a step changes, evicts or finds expired is named by a mutation
\* recorded for the AOF and the replicas.  SWAPDB and the in-place LSET and LREM
\* record nothing, and SET and MSET do not record what they do to the TTL.
EveryChangeLogged ==
  [][last'.call \notin {"lset", "lrem", "swapdb"} =>
       \A p \in Pair :
         Changed(p) \/ (TtlChanged(p) /\ last'.call \notin {"set", "mset"}) =>
           p \in last'.logged]_vars

=============================================================================
