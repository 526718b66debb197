------------------------------ MODULE SortedSet ------------------------------
(***************************************************************************)
(* The sorted set of one key: the Map from members to scores of            *)
(* structures/zset.js beside the skip list of structures/skiplist.js that  *)
(* orders them, with the commands of commands/sorted_sets.js that write    *)
(* and read them.  Levels count from 1; the level of a new node, random in *)
(* the code, is chosen freely.  Members are numbers, for their order.      *)
(***************************************************************************)
EXTENDS Integers, Sequences, FiniteSets, SequencesExt, FiniteSetsExt

CONSTANTS
  Member,     \* members, ordered as numbers
  Score,      \* scores
  MaxLevel,   \* SKIPLIST_MAXLEVEL, 32 in the code
  Header,     \* the header node
  Nil         \* null

\* Scores are numbers: the infinities among them, but not the NaN a ZINCRBY of
\* opposite infinities would make.
ASSUME ZsetAssumption ==
  /\ IsFiniteSet(Member) /\ Member \subseteq Int /\ Score \subseteq Int
  /\ MaxLevel \in Nat \ {0}
  /\ Header \notin Member /\ Nil \notin Member /\ Header # Nil

VARIABLES
  dict,   \* SortedSet.dict: member -> score
  sl      \* SortedSet.sl: [forward, span, backward, tail, level, length]

zsetVars == <<dict, sl>>

\* A new SkipList: forward, span and backward are functions of the nodes.
NewList ==
  [forward |-> [n \in {Header} |-> [i \in 1..MaxLevel |-> Nil]],
   span |-> [n \in {Header} |-> [i \in 1..MaxLevel |-> 0]],
   backward |-> [n \in {} |-> Nil],
   score |-> [n \in {} |-> 0],
   tail |-> Nil, level |-> 1, length |-> 0]

NoMember == [m \in {} |-> 0]
ZsetInit == dict = NoMember /\ sl = NewList

\* Map.set, and a new node among the nodes.
Extended(f, x, v) == [y \in DOMAIN f \cup {x} |-> IF y = x THEN v ELSE f[y]]

\* compareNodes(...) < 0.
Precedes(s, m, t, n) == s < t \/ (s = t /\ m < n)

-----------------------------------------------------------------------------
\* A place of a walk: a node, and the sum of the spans on the way to it.
Place(l) == [node : DOMAIN l.score, rank : Int]
Top == [node |-> Header, rank |-> 0]

\* The while loop of one level: on to the next node while that place is near. It ends
\* within as many rounds as there are nodes, for each round is a node further.
Onto(l, i, at, near) ==
  LET next == [node |-> l.forward[at.node][i], rank |-> at.rank + l.span[at.node][i]]
  IN IF next \in near THEN next ELSE at
Walk(l, i, from, near) ==
  LET at[k \in 0..l.length] == IF k = 0 THEN from ELSE Onto(l, i, at[k - 1], near)
  IN at[l.length]

\* The descent every operation makes: at each level, from where the level above stopped.
Descent(l, near) ==
  LET stop[i \in 1..l.level] == Walk(l, i, IF i = l.level THEN Top ELSE stop[i + 1], near)
  IN stop

\* compareNodes(the node, (score, member)) < 0.
PlacesBefore(l, s, m) == {p \in Place(l) : Precedes(l.score[p.node], p.node, s, m)}

\* insert: `update` and `rank` of the code are at[i].node and at[i].rank.
Insert(l, s, m, newLevel) ==
  LET path == Descent(l, PlacesBefore(l, s, m))
      high == Max({l.level, newLevel})
      at == [i \in 1..high |-> IF i <= l.level THEN path[i] ELSE Top]
      span(i) == IF i <= l.level THEN l.span[at[i].node][i] ELSE l.length
      behind(i) == at[1].rank - at[i].rank
      after == l.forward[at[1].node][1]
      Redirected(n, i) == IF i <= newLevel /\ at[i].node = n THEN m ELSE l.forward[n][i]
      Respanned(n, i) ==
        IF i > high \/ at[i].node # n THEN l.span[n][i]
        ELSE IF i <= newLevel THEN behind(i) + 1 ELSE l.span[n][i] + 1
      forward == [n \in DOMAIN l.forward |-> [i \in DOMAIN l.forward[n] |-> Redirected(n, i)]]
      spans == [n \in DOMAIN l.span |-> [i \in DOMAIN l.span[n] |-> Respanned(n, i)]]
      backward == [n \in DOMAIN l.backward |-> IF n = after THEN m ELSE l.backward[n]]
  IN [forward |-> Extended(forward, m, [i \in 1..newLevel |-> l.forward[at[i].node][i]]),
      span |-> Extended(spans, m, [i \in 1..newLevel |-> span(i) - behind(i)]),
      backward |-> Extended(backward, m, IF at[1].node = Header THEN Nil ELSE at[1].node),
      score |-> Extended(l.score, m, s),
      tail |-> IF after = Nil THEN m ELSE l.tail,
      level |-> high, length |-> l.length + 1]

\* delete and _deleteNode, of a member the list holds. DeletedSpans leaves the
\* spans that jump over the node.
DeletedSpans(l, at, m) ==
  [n \in DOMAIN l.span \ {m} |-> [i \in DOMAIN l.span[n] |->
     IF i <= l.level /\ at[i].node = n /\ l.forward[n][i] = m
     THEN l.span[n][i] + l.span[m][i] - 1 ELSE l.span[n][i]]]
ShrunkSpans(l, at, m) ==
  [n \in DOMAIN l.span \ {m} |-> [i \in DOMAIN l.span[n] |->
     IF i > l.level \/ at[i].node # n THEN l.span[n][i]
     ELSE IF l.forward[n][i] = m THEN l.span[n][i] + l.span[m][i] - 1
     ELSE l.span[n][i] - 1]]

Delete(l, s, m) ==
  LET at == Descent(l, PlacesBefore(l, s, m))
      after == l.forward[m][1]
      forward == [n \in DOMAIN l.forward \ {m} |-> [i \in DOMAIN l.forward[n] |->
                    IF i <= l.level /\ at[i].node = n /\ l.forward[n][i] = m
                    THEN l.forward[m][i] ELSE l.forward[n][i]]]
      used == {i \in 2..l.level : forward[Header][i] # Nil}
  IN [forward |-> forward,
      span |-> ShrunkSpans(l, at, m),
      backward |-> [n \in DOMAIN l.backward \ {m} |->
                      IF n = after THEN l.backward[m] ELSE l.backward[n]],
      score |-> [n \in DOMAIN l.score \ {m} |-> l.score[n]],
      tail |-> IF after = Nil THEN l.backward[m] ELSE l.tail,
      level |-> Max(used \cup {1}), length |-> l.length - 1]

-----------------------------------------------------------------------------
\* One item of zsetAdd, whose flags decide, and SortedSet.add, which replaces the
\* node of a member whose score changes.
Add(z, item, flags) ==
  LET m == item.member
      known == m \in DOMAIN z.dict
      old == z.dict[m]
      refused == \/ known /\ "nx" \in flags
                 \/ ~known /\ "xx" \in flags
                 \/ known /\ "gt" \in flags /\ item.score <= old
                 \/ known /\ "lt" \in flags /\ item.score >= old
                 \/ known /\ item.score = old
      from == IF known THEN Delete(z.sl, old, m) ELSE z.sl
  IN IF refused THEN z
     ELSE [dict |-> Extended(z.dict, m, item.score),
           sl |-> Insert(from, item.score, m, item.level)]

SetZset(z) == dict' = z.dict /\ sl' = z.sl

\* cmdZadd and zsetAdd: flags that exclude one another are a syntax error.
Zadd(items, flags) ==
  /\ "nx" \in flags => flags = {"nx"}
  /\ LET z[k \in 0..Len(items)] ==
           IF k = 0 THEN [dict |-> dict, sl |-> sl] ELSE Add(z[k - 1], items[k], flags)
     IN SetZset(z[Len(items)])

\* cmdZincrby: a ZADD without flags of the sum.
Zincrby(m, by, level) ==
  LET sum == by + (IF m \in DOMAIN dict THEN dict[m] ELSE 0)
  IN sum \in Score /\ Zadd(<<[member |-> m, score |-> sum, level |-> level]>>, {})

\* SortedSet.remove, of a member the Map knows.
Removed(z, m) ==
  IF m \in DOMAIN z.dict
  THEN [dict |-> [n \in DOMAIN z.dict \ {m} |-> z.dict[n]], sl |-> Delete(z.sl, z.dict[m], m)]
  ELSE z

\* cmdZrem and zsetRemove; the last member takes the key, and the next ZADD makes
\* a new SortedSet.
Zrem(members) ==
  LET z[k \in 0..Len(members)] ==
        IF k = 0 THEN [dict |-> dict, sl |-> sl] ELSE Removed(z[k - 1], members[k])
      rest == z[Len(members)]
  IN SetZset(IF DOMAIN rest.dict = {} THEN [dict |-> NoMember, sl |-> NewList] ELSE rest)

Item == [member : Member, score : Score, level : 1..MaxLevel]

ZsetNext ==
  \/ \E item \in Item, flags \in SUBSET {"nx", "xx", "gt", "lt"} : Zadd(<<item>>, flags)
  \/ \E i, j \in Item : Zadd(<<i, j>>, {})
  \/ \E m \in Member, by \in {-1, 1}, level \in 1..MaxLevel : Zincrby(m, by, level)
  \/ \E n \in 1..Cardinality(Member) : \E members \in [1..n -> Member] : Zrem(members)

ZsetSpec == ZsetInit /\ [][ZsetNext]_zsetVars

-----------------------------------------------------------------------------
\* getRank: past equal nodes too, to the first level that stops at the member.
UpTo(s, m) == {p \in Place(sl) : ~Precedes(s, m, sl.score[p.node], p.node)}
GetRank(s, m) ==
  LET stop == Descent(sl, UpTo(s, m))
      hits == {i \in 1..sl.level : stop[i].node = m /\ sl.score[m] = s}
  IN IF hits = {} THEN 0 ELSE stop[Max(hits)].rank

\* SortedSet.rank and revrank, from 0.
Rank(m) == GetRank(dict[m], m) - 1
Revrank(m) == sl.length - 1 - Rank(m)

\* getByRank: the node at a rank, by the spans alone.
Within(rank) == {p \in Place(sl) : p.rank <= rank}
GetByRank(rank) ==
  LET stop == Descent(sl, Within(rank))
      hits == {i \in 1..sl.level : stop[i].rank = rank}
  IN IF rank \in 1..sl.length /\ hits # {} THEN stop[Max(hits)].node ELSE Nil

Passed(link, w) ==
  IF w.next = Nil THEN w ELSE [next |-> link[w.next], seen |-> Append(w.seen, w.next)]
\* At most n nodes along a link, from one node on.
Along(link, node, n) ==
  LET w[k \in 0..n] == IF k = 0 THEN [next |-> node, seen |-> <<>>] ELSE Passed(link, w[k - 1])
  IN w[n].seen
Onward(node, n) == Along([x \in DOMAIN sl.score |-> sl.forward[x][1]], node, n)
Backward(node, n) == Along(sl.backward, node, n)

\* The bounds of ZRANGE: negative ones count from the end. <<0, -1>> is no range.
Window(start, stop) ==
  LET s == IF start < 0 THEN Max({0, sl.length + start}) ELSE start
      e == IF stop < 0 THEN sl.length + stop ELSE stop
  IN IF s > e \/ s >= sl.length THEN <<0, -1>> ELSE <<s, Min({e, sl.length - 1})>>

Zrange(start, stop) ==
  LET w == Window(start, stop) IN Onward(GetByRank(w[1] + 1), w[2] - w[1] + 1)
Zrevrange(start, stop) ==
  LET w == Window(start, stop) IN Backward(GetByRank(sl.length - w[1]), w[2] - w[1] + 1)

OverLow(s, low) == IF low.exclusive THEN s > low.val ELSE s >= low.val
UnderHigh(s, high) == IF high.exclusive THEN s < high.val ELSE s <= high.val

\* The loop of rangeByScore and revrangeByScore over the nodes in order: from the
\* first node inside the near bound to the first outside the far one. A LIMIT of 0 or
\* less takes them all.
ByScore(nodes, near, far, offset, count) ==
  LET in == Min({i \in DOMAIN nodes : nodes[i] \in near} \cup {Len(nodes) + 1})
      out == {i \in in..Len(nodes) : nodes[i] \notin far}
      first == in + offset
      end == Min(out \cup {Len(nodes) + 1}) - 1
  IN SubSeq(nodes, first, IF count > 0 THEN Min({end, first + count - 1}) ELSE end)

NodesAbove(low) == {n \in DOMAIN sl.score : OverLow(sl.score[n], low)}
NodesBelow(high) == {n \in DOMAIN sl.score : UnderHigh(sl.score[n], high)}

Zrangebyscore(low, high, offset, count) ==
  ByScore(Onward(sl.forward[Header][1], sl.length), NodesAbove(low), NodesBelow(high), offset, count)
RevrangeByScore(high, low, offset, count) ==
  ByScore(Backward(sl.tail, sl.length), NodesBelow(high), NodesAbove(low), offset, count)
\* SortedSet.count, which leaves at the first score beyond the high bound.
Zcount(low, high) ==
  LET nodes == Onward(sl.forward[Header][1], sl.length)
      out == Min({i \in DOMAIN nodes : sl.score[nodes[i]] > high.val} \cup {Len(nodes) + 1})
  IN Cardinality({i \in 1..(out - 1) : nodes[i] \in NodesAbove(low) \cap NodesBelow(high)})

-----------------------------------------------------------------------------
\* Members in their order, from the Map alone: the k-th is the one that k - 1 of
\* them precede. And the parts of that order the reads should answer.
Preceding(m, S) == {n \in S : Precedes(dict[n], n, dict[m], m)}
Sorted(S) == [k \in 1..Cardinality(S) |-> CHOOSE m \in S : Cardinality(Preceding(m, S)) = k - 1]
Inside(low, high) == {m \in DOMAIN dict : OverLow(dict[m], low) /\ UnderHigh(dict[m], high)}

PartOf(order, start, stop) ==
  LET At(i) == IF i < 0 THEN Len(order) + i ELSE i
  IN SubSeq(order, Max({1, At(start) + 1}), Min({Len(order), At(stop) + 1}))
Limited(all, offset, count) ==
  SubSeq(all, offset + 1, IF count > 0 THEN Min({Len(all), offset + count}) ELSE Len(all))

ScoreBound == [val : Score, exclusive : BOOLEAN]

\* Every read of the skip list, by its spans, forward or backward, answers what
\* the Map and the order of compareNodes say: ZRANK, ZREVRANK, ZRANGE and
\* ZREVRANGE with negative indexes, ranges by score with LIMIT, ZCOUNT. (An empty
\* sorted set is not a key, but after a ZADD XX on a missing one.)
ReadsExact ==
  DOMAIN dict # {} =>
  LET order == Sorted(DOMAIN dict)
      index == -Cardinality(Member)..Cardinality(Member)
  IN /\ \A i \in DOMAIN order : Rank(order[i]) = i - 1 /\ Revrank(order[i]) = Len(order) - i
     /\ \A start, stop \in index :
          /\ Zrange(start, stop) = PartOf(order, start, stop)
          /\ Zrevrange(start, stop) = PartOf(Reverse(order), start, stop)
     /\ \A low, high \in ScoreBound :
          LET all == Sorted(Inside(low, high))
          IN /\ Zcount(low, high) = Len(all)
             /\ \A offset \in 0..1, count \in {0, 1} :
                  /\ Zrangebyscore(low, high, offset, count) = Limited(all, offset, count)
                  /\ RevrangeByScore(high, low, offset, count)
                       = Limited(Reverse(all), offset, count)
=============================================================================
