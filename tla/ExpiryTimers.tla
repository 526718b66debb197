----------------------------- MODULE ExpiryTimers -----------------------------
(***************************************************************************)
(* The TTL table of datastore/expiry.js: ExpiryManager._timers and the     *)
(* binary heap with its index that finds the next deadline.  Positions     *)
(* count from 1, so the parent of i is i \div 2.  The clock is an input of *)
(* the sweep, and _sweep's calls of deleteKey come back to removeExpiry    *)
(* with a key that is already gone.                                        *)
(***************************************************************************)
EXTENDS Naturals, Sequences, FiniteSets, SequencesExt

CONSTANTS
  TimerDb,    \* databases
  Name,       \* key names
  Deadline,   \* deadlines and readings of the clock
  Batch       \* maxBatch of a sweep, 100 in the code

ASSUME TimersAssumption == Deadline \subseteq Nat /\ Batch \in Nat

VARIABLES
  heap,      \* _heap._heap: a sequence of [key, deadline]
  indices,   \* _heap._indices: key -> its position in heap
  timers     \* _timers: key -> deadline

timerVars == <<heap, indices, timers>>

TimerKey == TimerDb \X Name

TimersInit ==
  /\ heap = <<>>
  /\ indices = [k \in {} |-> 0]
  /\ timers = [k \in {} |-> 0]

-----------------------------------------------------------------------------
\* The heap as a value h = [heap, indices], so that operations compose.

Without(f, S) == [k \in DOMAIN f \ S |-> f[k]]
With(f, k, v) == [q \in DOMAIN f \cup {k} |-> IF q = k THEN v ELSE f[q]]

Swap(h, i, j) ==
  [heap |-> [h.heap EXCEPT ![i] = h.heap[j], ![j] = h.heap[i]],
   indices |-> [h.indices EXCEPT ![h.heap[j].key] = i, ![h.heap[i].key] = j]]

Later(h, i, j) == h.heap[j].deadline < h.heap[i].deadline

\* One round of the loop of _siftUp, with its cursor; none when it has ended.
Up(s) ==
  LET parent == s.at \div 2
  IN IF s.at > 1 /\ Later(s.h, parent, s.at)
     THEN [h |-> Swap(s.h, s.at, parent), at |-> parent]
     ELSE s

\* At most i rounds take the cursor from i to the root.
SiftUp(h, i) ==
  LET rounds[n \in 0..i] == IF n = 0 THEN [h |-> h, at |-> i] ELSE Up(rounds[n - 1])
  IN rounds[i].h

\* The children that are earlier, and the one to swap with: the earlier of the two,
\* the left one on a tie.
Children(h, i) == {c \in {2 * i, 2 * i + 1} \cap DOMAIN h.heap : Later(h, i, c)}
Smallest(h, children) ==
  CHOOSE c \in children : \A o \in children : Later(h, o, c) \/ (~Later(h, c, o) /\ c <= o)

\* One round of the loop of _siftDown.
Down(s) ==
  LET child == Smallest(s.h, Children(s.h, s.at))
  IN IF Children(s.h, s.at) = {} THEN s
     ELSE [h |-> Swap(s.h, s.at, child), at |-> child]

SiftDown(h, i) ==
  LET rounds[n \in 0..Len(h.heap)] ==
        IF n = 0 THEN [h |-> h, at |-> i] ELSE Down(rounds[n - 1])
  IN rounds[Len(h.heap)].h

InsertOrUpdate(h, k, d) ==
  IF k \in DOMAIN h.indices
  THEN LET i == h.indices[k]
           n == [h EXCEPT !.heap[i].deadline = d]
       IN IF d < h.heap[i].deadline THEN SiftUp(n, i) ELSE SiftDown(n, i)
  ELSE LET last == Len(h.heap) + 1
       IN SiftUp([heap |-> Append(h.heap, [key |-> k, deadline |-> d]),
                  indices |-> With(h.indices, k, last)], last)

\* The last entry is popped, and its key leaves the index.
DropLast(h) ==
  [heap |-> Front(h.heap),
   indices |-> Without(h.indices, {Last(h.heap).key})]

\* What moves into the hole may belong below it or above it. DownOnly forgets the second.
DownOnly(h, i) == SiftDown(h, i)
Settled(h, i) == SiftUp(SiftDown(h, i), i)

RemoveKey(h, k) ==
  IF k \notin DOMAIN h.indices THEN h
  ELSE LET i == h.indices[k]
           d == DropLast(Swap(h, i, Len(h.heap)))
       IN IF i = Len(h.heap) THEN d ELSE Settled(d, i)

PopRoot(h) == SiftDown(DropLast(Swap(h, 1, Len(h.heap))), 1)

\* Is there an entry to sweep? DueLate leaves a deadline that is just reached.
DueLate(h, now) == h.heap # <<>> /\ Head(h.heap).deadline < now
Due(h, now) == h.heap # <<>> /\ Head(h.heap).deadline <= now

\* The loop of _sweep: what is left of the heap after at most n pops.
Swept(h, now, n) ==
  LET rounds[m \in 0..n] ==
        IF m = 0 THEN h
        ELSE IF Due(rounds[m - 1], now) THEN PopRoot(rounds[m - 1]) ELSE rounds[m - 1]
  IN rounds[n]

\* The loops of swapDb and clearDb, over keys in some order.
RemoveAll(h, keys) ==
  LET rounds[n \in 0..Len(keys)] ==
        IF n = 0 THEN h ELSE RemoveKey(rounds[n - 1], keys[n])
  IN rounds[Len(keys)]
InsertAll(h, keys, table) ==
  LET rounds[n \in 0..Len(keys)] ==
        IF n = 0 THEN h ELSE InsertOrUpdate(rounds[n - 1], keys[n], table[keys[n]])
  IN rounds[Len(keys)]

-----------------------------------------------------------------------------
Current == [heap |-> heap, indices |-> indices]
SetHeap(h) == heap' = h.heap /\ indices' = h.indices

\* setExpiry, setExpireAt, and importAll of one entry.
SetExpiry(k, d) ==
  /\ timers' = With(timers, k, d)
  /\ SetHeap(InsertOrUpdate(Current, k, d))

RemoveExpiry(k) ==
  /\ timers' = Without(timers, {k})
  /\ SetHeap(RemoveKey(Current, k))

\* _sweep; bulkCleanup repeats the same step through expireNextKey.
Sweep(now) ==
  LET left == Swept(Current, now, Batch)
  IN /\ SetHeap(left)
     /\ timers' = Without(timers, DOMAIN indices \ DOMAIN left.indices)

\* The keys of a database in the order of the Map that the code walks, which may be any.
KeysOf(db) == {k \in DOMAIN timers : k[1] = db}
Orders(db) == SetToSeqs(KeysOf(db))

\* swapDb: the entries of both databases leave, and come back under the other name,
\* those of a before those of b. When a = b they are all a's. (The walk may meet a b
\* before an a: that decides only where the entries of other databases come to lie.)
Other(a, b, k) == <<IF k[1] = a THEN b ELSE IF k[1] = b THEN a ELSE k[1], k[2]>>
SwapDb(a, b) ==
  LET swapped == [k \in {Other(a, b, q) : q \in DOMAIN timers} |-> timers[Other(a, b, k)]]
  IN \E first \in Orders(a), second \in IF a = b THEN {<<>>} ELSE Orders(b) :
       LET moved == first \o second
           renamed == [n \in DOMAIN moved |-> Other(a, b, moved[n])]
       IN /\ SetHeap(InsertAll(RemoveAll(Current, moved), renamed, swapped))
          /\ timers' = swapped

ClearDb(db) ==
  \E keys \in Orders(db) :
    /\ timers' = Without(timers, KeysOf(db))
    /\ SetHeap(RemoveAll(Current, keys))

ClearAll ==
  /\ timers' = [k \in {} |-> 0]
  /\ heap' = <<>> /\ indices' = [k \in {} |-> 0]

TimersNext ==
  \/ \E k \in TimerKey, d \in Deadline : SetExpiry(k, d)
  \/ \E k \in TimerKey : RemoveExpiry(k)
  \/ \E now \in Deadline : Sweep(now)
  \/ \E a, b \in TimerDb : SwapDb(a, b)
  \/ \E db \in TimerDb : ClearDb(db)
  \/ ClearAll

TimersSpec == TimersInit /\ [][TimersNext]_timerVars

-----------------------------------------------------------------------------
\* The heap, its index and the table agree through every operation: parents are
\* not later than their children, the index finds each key where it lies, and
\* the heap holds exactly the deadlines of the table. A key the heap lost would
\* never expire by itself, one it kept would expire a key that has no TTL.
HeapExact ==
  /\ \A i \in 2..Len(heap) : heap[i \div 2].deadline <= heap[i].deadline
  /\ DOMAIN indices = DOMAIN timers /\ Len(heap) = Cardinality(DOMAIN timers)
  /\ \A k \in DOMAIN timers :
       /\ indices[k] \in DOMAIN heap
       /\ heap[indices[k]] = [key |-> k, deadline |-> timers[k]]

\* A sweep takes elapsed keys only, the earliest first, and leaves one behind only
\* when its batch is full: whatever sets, removals and swaps came before.
SweepTakesEarliest ==
  \A now \in Deadline :
    LET elapsed == {k \in DOMAIN timers : timers[k] <= now}
        gone == DOMAIN indices \ DOMAIN Swept(Current, now, Batch).indices
    IN /\ gone \subseteq elapsed
       /\ gone = elapsed \/ Cardinality(gone) = Batch
       /\ \A k \in gone, q \in DOMAIN timers \ gone : timers[k] <= timers[q]
=============================================================================
