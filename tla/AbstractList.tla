---------------------------- MODULE AbstractList ----------------------------
(***************************************************************************)
(* What the lists of the store promise (commands/lists.js): a sequence     *)
(* that grows and shrinks at both ends, whose elements are replaced in     *)
(* place or removed by value.  ListDeque implements it.                    *)
(***************************************************************************)
EXTENDS Integers, Sequences, FiniteSets

CONSTANT Val

VARIABLE list

\* The elements of s that are not at a position of S, in their order.
Kept(s, S) ==
  LET rest == DOMAIN s \ S
      Nth(n) == CHOOSE p \in rest : Cardinality({q \in rest : q < p}) = n - 1
  IN [n \in 1..Cardinality(rest) |-> s[Nth(n)]]

\* The positions LREM takes: count of them from the left, -count from the
\* right, or all of them.
Taken(s, v, count) ==
  LET hits == {i \in DOMAIN s : s[i] = v}
  IN {i \in hits : \/ count = 0
                   \/ count > 0 /\ Cardinality({j \in hits : j <= i}) <= count
                   \/ count < 0 /\ Cardinality({j \in hits : j >= i}) <= -count}

ListInit == list = <<>>

Rpush(v) == list' = Append(list, v)
Lpush(v) == list' = <<v>> \o list
Lpop == list # <<>> /\ list' = Tail(list)
Rpop == list # <<>> /\ list' = SubSeq(list, 1, Len(list) - 1)
Lset(i, v) == i \in DOMAIN list /\ list' = [list EXCEPT ![i] = v]
Lrem(v, count) == list' = Kept(list, Taken(list, v, count))

ListNext ==
  \/ \E v \in Val : Rpush(v) \/ Lpush(v)
  \/ Lpop \/ Rpop
  \/ \E v \in Val : \E i \in DOMAIN list : Lset(i, v)
  \/ \E v \in Val, count \in -Len(list)..Len(list) : Lrem(v, count)

ListSpec == ListInit /\ [][ListNext]_list
=============================================================================
