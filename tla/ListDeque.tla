------------------------------ MODULE ListDeque ------------------------------
(***************************************************************************)
(* The ring buffer behind every list (structures/deque.js), with the list  *)
(* commands that drive it (commands/lists.js).  Positions of the buffer    *)
(* count from 0, as in the code.  AbstractList is what it promises.        *)
(***************************************************************************)
EXTENDS Integers, Sequences, FiniteSets

CONSTANTS
  Val,               \* values of elements
  Empty,             \* undefined, what a free slot holds
  InitialCapacity,   \* of a new Deque, at least 16 in the code
  MaxLength          \* bound of the model on the elements of a list

ASSUME CapacityAssumption == InitialCapacity \in Nat \ {0} /\ Empty \notin Val

VARIABLES
  buffer,     \* _buffer
  capacity,   \* _capacity
  head,       \* _head
  tail,       \* _tail
  length      \* _length

dequeVars == <<buffer, capacity, head, tail, length>>

Slot(c) == 0..(c - 1)
Blank(c) == [i \in Slot(c) |-> Empty]

DequeInit ==
  /\ capacity = InitialCapacity
  /\ buffer = Blank(InitialCapacity)
  /\ head = 0 /\ tail = 0 /\ length = 0

\* get(index) of an index inside the list; the list as AbstractList sees it.
Get(i) == buffer[(head + i) % capacity]
contents == [i \in 1..length |-> Get(i - 1)]
L == INSTANCE AbstractList WITH list <- contents

-----------------------------------------------------------------------------
\* _grow: the elements move to the start of a buffer twice as large. GrownInPlace
\* doubles the buffer where it is.
GrownInPlace ==
  [buffer |-> [i \in Slot(2 * capacity) |-> IF i < capacity THEN buffer[i] ELSE Empty],
   capacity |-> 2 * capacity, head |-> head, tail |-> head + length]
Grown ==
  [buffer |-> [i \in Slot(2 * capacity) |-> IF i < length THEN Get(i) ELSE Empty],
   capacity |-> 2 * capacity, head |-> 0, tail |-> length]

\* The ring a push writes to.
Ring ==
  IF length = capacity THEN Grown
  ELSE [buffer |-> buffer, capacity |-> capacity, head |-> head, tail |-> tail]

PushRight(v) ==
  /\ length < MaxLength
  /\ buffer' = [Ring.buffer EXCEPT ![Ring.tail] = v]
  /\ tail' = (Ring.tail + 1) % Ring.capacity
  /\ capacity' = Ring.capacity /\ head' = Ring.head
  /\ length' = length + 1

PushLeft(v) ==
  LET before == (Ring.head - 1 + Ring.capacity) % Ring.capacity
  IN /\ length < MaxLength
     /\ head' = before
     /\ buffer' = [Ring.buffer EXCEPT ![before] = v]
     /\ capacity' = Ring.capacity /\ tail' = Ring.tail
     /\ length' = length + 1

\* The deque of a key that does not exist: the next push makes a new one.
NoDeque ==
  /\ capacity' = InitialCapacity
  /\ buffer' = Blank(InitialCapacity)
  /\ head' = 0 /\ tail' = 0 /\ length' = 0

\* popLeft and popRight; the store deletes the key with its last element.
PopLeft ==
  /\ length > 0
  /\ IF length = 1 THEN NoDeque
     ELSE /\ buffer' = [buffer EXCEPT ![head] = Empty]
          /\ head' = (head + 1) % capacity
          /\ length' = length - 1
          /\ UNCHANGED <<capacity, tail>>

PopRight ==
  LET last == (tail - 1 + capacity) % capacity
  IN /\ length > 0
     /\ IF length = 1 THEN NoDeque
        ELSE /\ tail' = last
             /\ buffer' = [buffer EXCEPT ![last] = Empty]
             /\ length' = length - 1
             /\ UNCHANGED <<capacity, head>>

\* set(index) of LSET, which counts a negative index from the end.
Set(i, v) ==
  LET index == IF i < 0 THEN length + i ELSE i
  IN /\ 0 <= index /\ index < length
     /\ buffer' = [buffer EXCEPT ![(head + index) % capacity] = v]
     /\ UNCHANGED <<capacity, head, tail, length>>

\* LREM: remove(), and the loop of the command from the right, both clear the
\* ring and push what is kept.
RemoveIndex(v, count) ==
  LET gone == L!Taken(contents, v, count)
      kept == L!Kept(contents, gone)
  IN /\ gone # {}
     /\ IF Len(kept) = 0 THEN NoDeque
        ELSE /\ buffer' = [i \in Slot(capacity) |-> IF i < Len(kept) THEN kept[i + 1] ELSE Empty]
             /\ head' = 0 /\ tail' = Len(kept) % capacity
             /\ length' = Len(kept)
             /\ UNCHANGED capacity

DequeNext ==
  \/ \E v \in Val : PushRight(v) \/ PushLeft(v)
  \/ PopLeft \/ PopRight
  \/ \E v \in Val, i \in -length..(length - 1) : Set(i, v)
  \/ \E v \in Val, count \in -length..length : RemoveIndex(v, count)

DequeSpec == DequeInit /\ [][DequeNext]_dequeVars

-----------------------------------------------------------------------------
\* Through growth and wrap-around, from both ends and the middle, the ring is
\* the list the commands promise.
IsList == L!ListSpec
=============================================================================
