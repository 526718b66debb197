-------------------------- MODULE InductionProofs --------------------------
(***************************************************************************)
(* Induction over data, for the proofs that need it.  A property is given  *)
(* as the SET of the numbers, or of the sets, it holds of; the principles  *)
(* then follow from the least element of a non-empty set of numbers.       *)
(* With them the sums the models take with MapThenSumSet are computed for  *)
(* sets and functions of any size.                                         *)
(***************************************************************************)
EXTENDS Integers, FiniteSets, FiniteSetsExt, FiniteSetTheorems, WellFoundedInduction, TLAPS

\* A non-empty set of numbers has a least element.
LEMMA LeastNumber ==
  ASSUME NEW T, T \subseteq Nat, T # {}
  PROVE  \E x \in T : \A y \in T : x <= y
<1> DEFINE R == OpToRel(<, Nat)
<1>1. IsWellFoundedOn(R, Nat)
  BY NatLessThanWellFounded
<1>2. \A m, n \in Nat : m < n => <<m, n>> \in R
  BY DEF OpToRel
<1> HIDE DEF R
<1>3. PICK x \in T : \A y \in T : ~(<<y, x>> \in R)
  BY <1>1, WFMin
<1>4. ASSUME NEW y \in T PROVE x <= y
  <2>1. x \in Nat /\ y \in Nat /\ ~(y < x)
    BY <1>2, <1>3
  <2> QED
    BY <2>1
<1> QED
  BY <1>4

\* Induction over the naturals, for the set of numbers a property holds of.
LEMMA Induction ==
  ASSUME NEW S, 0 \in S, \A n \in Nat : n \in S => n + 1 \in S
  PROVE  Nat \subseteq S
<1> DEFINE T == Nat \ S
<1>1. ASSUME T # {} PROVE FALSE
  <2>1. PICK x \in T : \A y \in T : x <= y
    BY <1>1, LeastNumber
  <2>2. x \in Nat /\ x # 0 /\ x - 1 \in Nat /\ ~(x <= x - 1)
    BY <2>1
  <2>3. x - 1 \in T
    BY <2>1, <2>2
  <2> QED
    BY <2>1, <2>2, <2>3
<1> QED
  BY <1>1

\* The element a sum takes first, and the sum of f over S.
First(s) == CHOOSE x \in s : TRUE
Summed(f, S) == MapThenSumSet(LAMBDA x : f[x], S)

\* g maps every subset of S to the sum of f over it, taken element by element.
Sums(f, g, S) ==
  g = [s \in SUBSET S |-> IF s = {} THEN 0 ELSE f[First(s)] + g[s \ {First(s)}]]

LEMMA SummedIs ==
  ASSUME NEW f, NEW S
  PROVE  Summed(f, S) = (CHOOSE g : Sums(f, g, S))[S]
BY DEF Summed, Sums, First, MapThenSumSet, MapThenFoldSet

LEMMA FirstIn ==
  ASSUME NEW s, s # {}
  PROVE  First(s) \in s
BY DEF First

LEMMA Smaller ==
  ASSUME NEW S, IsFiniteSet(S), NEW x \in S
  PROVE  /\ IsFiniteSet(S \ {x})
         /\ Cardinality(S) \in Nat /\ Cardinality(S \ {x}) \in Nat
         /\ Cardinality(S) = Cardinality(S \ {x}) + 1
<1>1. IsFiniteSet(S \ {x}) /\ Cardinality(S \ {x}) = Cardinality(S) - 1
  BY FS_RemoveElement
<1>2. Cardinality(S) \in Nat /\ Cardinality(S \ {x}) \in Nat
  BY <1>1, FS_CardinalityType
<1> QED
  BY <1>1, <1>2

\* Induction over finite sets, for a set Q of sets, all below a set S.
LEMMA FiniteInduction ==
  ASSUME NEW S, IsFiniteSet(S), NEW Q,
         \A T \in SUBSET S : (\A x \in T : T \ {x} \in Q) => T \in Q
  PROVE  S \in Q
<1> DEFINE N == {n \in Nat : \A T \in SUBSET S : Cardinality(T) = n => T \in Q}
<1>0. \A T \in SUBSET S : IsFiniteSet(T)
  BY FS_Subset
<1>1. 0 \in N
  <2> SUFFICES ASSUME NEW T \in SUBSET S, Cardinality(T) = 0 PROVE T \in Q
    OBVIOUS
  <2>1. T = {}
    BY <1>0, FS_EmptySet
  <2> QED
    BY <2>1
<1>2. ASSUME NEW n \in Nat, n \in N PROVE n + 1 \in N
  <2> SUFFICES ASSUME NEW T \in SUBSET S, Cardinality(T) = n + 1 PROVE T \in Q
    OBVIOUS
  <2>1. ASSUME NEW x \in T PROVE T \ {x} \in Q
    <3>1. Cardinality(T \ {x}) = n
      BY <1>0, Smaller
    <3> QED
      BY <1>2, <3>1
  <2> QED
    BY <2>1
<1> HIDE DEF N
<1>3. Nat \subseteq N
  BY <1>1, <1>2, Induction
<1>4. Cardinality(S) \in N
  BY <1>3, FS_CardinalityType
<1> QED
  BY <1>4 DEF N

\* There is one such table, whatever the set it was built for.
LEMMA SumsAgree ==
  ASSUME NEW f, NEW S, NEW T, NEW g, NEW h, Sums(f, g, S), Sums(f, h, T),
         NEW U, IsFiniteSet(U), U \subseteq S, U \subseteq T
  PROVE  g[U] = h[U]
<1> DEFINE Q == {V \in SUBSET U : g[V] = h[V]}
<1>1. ASSUME NEW V \in SUBSET U, \A x \in V : V \ {x} \in Q
      PROVE  V \in Q
  <2>1. /\ g[V] = IF V = {} THEN 0 ELSE f[First(V)] + g[V \ {First(V)}]
        /\ h[V] = IF V = {} THEN 0 ELSE f[First(V)] + h[V \ {First(V)}]
    <3>1. V \in SUBSET S /\ V \in SUBSET T
      OBVIOUS
    <3>2. \A s \in SUBSET S : g[s] = IF s = {} THEN 0 ELSE f[First(s)] + g[s \ {First(s)}]
      BY DEF Sums
    <3>3. \A s \in SUBSET T : h[s] = IF s = {} THEN 0 ELSE f[First(s)] + h[s \ {First(s)}]
      BY DEF Sums
    <3> QED
      BY <3>1, <3>2, <3>3
  <2> QED
    BY <1>1, <2>1, FirstIn
<1>2. U \in Q
  <2> HIDE DEF Q
  <2> QED
    BY <1>1, FiniteInduction
<1> QED
  BY <1>2

\* The table of a finite set exists: it is put together from those of its parts.
LEMMA SumsExist ==
  ASSUME NEW f, NEW S, IsFiniteSet(S)
  PROVE  \E g : Sums(f, g, S)
<1> DEFINE Q == {T \in SUBSET S : \E g : Sums(f, g, T)}
           G(T) == CHOOSE g : Sums(f, g, T)
           Val(T) == IF T = {} THEN 0 ELSE f[First(T)] + G(T \ {First(T)})[T \ {First(T)}]
<1>1. ASSUME NEW T \in SUBSET S, \A x \in T : T \ {x} \in Q
      PROVE  T \in Q
  <2> DEFINE g == [s \in SUBSET T |-> Val(s)]
  <2>0. \A s \in SUBSET S : IsFiniteSet(s)
    BY FS_Subset
  <2>1. \A s \in SUBSET T : s # T => Sums(f, G(s), s)
    <3> SUFFICES ASSUME NEW s \in SUBSET T, s # T PROVE \E h : Sums(f, h, s)
      OBVIOUS
    <3>1. PICK x \in T : x \notin s
      OBVIOUS
    <3>2. PICK h : Sums(f, h, T \ {x})
      BY <1>1
    <3>3. s \in SUBSET (T \ {x})
      BY <3>1
    <3>4. Sums(f, [u \in SUBSET s |-> h[u]], s)
      BY <3>2, <3>3, FirstIn DEF Sums
    <3> QED
      BY <3>4
  <2>2. ASSUME NEW s \in SUBSET T, s # T PROVE G(s)[s] = Val(s)
    <3>1. G(s)[s] = IF s = {} THEN 0 ELSE f[First(s)] + G(s)[s \ {First(s)}]
      <4>1. Sums(f, G(s), s)
        BY <2>1, <2>2
      <4> HIDE DEF G
      <4> QED
        BY <4>1 DEF Sums
    <3>2. CASE s = {}
      BY <3>1, <3>2
    <3>3. CASE s # {}
      <4> DEFINE u == s \ {First(s)}
      <4>1. u \in SUBSET T /\ u # T /\ u \subseteq s
        BY <2>2
      <4>2. Sums(f, G(s), s) /\ Sums(f, G(u), u)
        BY <2>1, <2>2, <4>1
      <4>3. IsFiniteSet(u)
        BY <2>0
      <4> HIDE DEF u, G
      <4>4. G(s)[u] = G(u)[u]
        BY <4>1, <4>2, <4>3, SumsAgree
      <4> QED
        BY <3>1, <3>3, <4>4 DEF u
    <3> QED
      BY <3>2, <3>3
  <2>3. ASSUME NEW s \in SUBSET T
        PROVE  g[s] = IF s = {} THEN 0 ELSE f[First(s)] + g[s \ {First(s)}]
    <3>1. CASE s = {}
      BY <3>1
    <3>2. CASE s # {}
      <4> DEFINE u == s \ {First(s)}
      <4>1. u \in SUBSET T /\ u # T
        BY <3>2, FirstIn
      <4>2. G(u)[u] = Val(u)
        BY <2>2, <4>1
      <4>3. g[u] = Val(u) /\ g[s] = Val(s)
        BY <4>1
      <4>4. Val(s) = f[First(s)] + G(u)[u]
        BY <3>2
      <4> HIDE DEF Val, G, g
      <4> QED
        BY <3>2, <4>2, <4>3, <4>4 DEF u
    <3> QED
      BY <3>1, <3>2
  <2>4. Sums(f, g, T)
    <3>1. g = [s \in SUBSET T |-> g[s]]
      OBVIOUS
    <3> HIDE DEF g
    <3> QED
      BY <2>3, <3>1 DEF Sums
  <2> QED
    BY <2>4
<1>2. S \in Q
  <2> HIDE DEF Q
  <2> QED
    BY <1>1, FiniteInduction
<1> QED
  BY <1>2

\* The recursion the sum unfolds by.
LEMMA SummedFirst ==
  ASSUME NEW f, NEW S, IsFiniteSet(S)
  PROVE  Summed(f, S) = IF S = {} THEN 0 ELSE f[First(S)] + Summed(f, S \ {First(S)})
<1> DEFINE G(T) == CHOOSE g : Sums(f, g, T)
           u == S \ {First(S)}
<1>1. Sums(f, G(S), S) /\ Sums(f, G(u), u) /\ IsFiniteSet(u)
  BY SumsExist, FS_Subset
<1>2. Summed(f, S) = G(S)[S] /\ Summed(f, u) = G(u)[u]
  BY SummedIs
<1> HIDE DEF G
<1>3. G(S)[S] = IF S = {} THEN 0 ELSE f[First(S)] + G(S)[u]
  BY <1>1 DEF Sums
<1>4. G(S)[u] = G(u)[u]
  BY <1>1, SumsAgree
<1> QED
  BY <1>2, <1>3, <1>4

LEMMA SummedEmpty ==
  ASSUME NEW f
  PROVE  Summed(f, {}) = 0
BY SummedFirst, FS_EmptySet

LEMMA SummedInt ==
  ASSUME NEW S, IsFiniteSet(S), NEW f, \A x \in S : f[x] \in Int
  PROVE  Summed(f, S) \in Int
<1> DEFINE Q == {T \in SUBSET S : Summed(f, T) \in Int}
<1>1. ASSUME NEW T \in SUBSET S, \A x \in T : T \ {x} \in Q
      PROVE  T \in Q
  <2>1. Summed(f, T) = IF T = {} THEN 0 ELSE f[First(T)] + Summed(f, T \ {First(T)})
    BY SummedFirst, FS_Subset
  <2>2. CASE T = {}
    BY <2>1, <2>2
  <2>3. CASE T # {}
    BY <1>1, <2>1, <2>3, FirstIn
  <2> QED
    BY <2>2, <2>3
<1> HIDE DEF Q
<1>2. S \in Q
  BY <1>1, FiniteInduction
<1> QED
  BY <1>2 DEF Q

\* Any element can be taken first.
LEMMA SummedRemove ==
  ASSUME NEW S, IsFiniteSet(S), NEW f, \A x \in S : f[x] \in Int, NEW y \in S
  PROVE  Summed(f, S) = f[y] + Summed(f, S \ {y})
<1> DEFINE Q == {T \in SUBSET S : \A x \in T : Summed(f, T) = f[x] + Summed(f, T \ {x})}
<1>0. \A T \in SUBSET S : IsFiniteSet(T) /\ Summed(f, T) \in Int
  BY FS_Subset, SummedInt
<1>1. ASSUME NEW T \in SUBSET S, \A x \in T : T \ {x} \in Q
      PROVE  T \in Q
  <2> SUFFICES ASSUME NEW x \in T
               PROVE  Summed(f, T) = f[x] + Summed(f, T \ {x})
    OBVIOUS
  <2> DEFINE z == First(T)
             U == (T \ {x}) \ {z}
  <2>1. z \in T
    BY FirstIn
  <2>2. Summed(f, T) = f[z] + Summed(f, T \ {z})
    BY <1>0, SummedFirst
  <2>3. CASE x = z
    BY <2>2, <2>3
  <2>4. CASE x # z
    <3>1. Summed(f, T \ {z}) = f[x] + Summed(f, (T \ {z}) \ {x})
      BY <1>1, <2>1, <2>4
    <3>2. Summed(f, T \ {x}) = f[z] + Summed(f, U)
      BY <1>1, <2>1, <2>4
    <3>3. (T \ {z}) \ {x} = U
      OBVIOUS
    <3>4. Summed(f, U) \in Int /\ f[x] \in Int /\ f[z] \in Int
      BY <1>0, <2>1
    <3> DEFINE u == Summed(f, U)
               t == Summed(f, T)
    <3>5. t = f[z] + (f[x] + u)
      BY <2>2, <3>1, <3>3
    <3>6. Summed(f, T \ {x}) = f[z] + u
      BY <3>2
    <3> HIDE DEF z, u, t, U
    <3>7. t = f[x] + (f[z] + u)
      BY <3>4, <3>5 DEF u
    <3> QED
      BY <3>6, <3>7 DEF t
  <2> QED
    BY <2>3, <2>4
<1> HIDE DEF Q
<1>2. S \in Q
  BY <1>1, FiniteInduction
<1> QED
  BY <1>2 DEF Q

LEMMA SummedSame ==
  ASSUME NEW S, IsFiniteSet(S), NEW f, NEW g, \A x \in S : f[x] = g[x]
  PROVE  Summed(f, S) = Summed(g, S)
<1> DEFINE Q == {T \in SUBSET S : Summed(f, T) = Summed(g, T)}
<1>1. ASSUME NEW T \in SUBSET S, \A x \in T : T \ {x} \in Q
      PROVE  T \in Q
  <2>1. /\ Summed(f, T) = IF T = {} THEN 0 ELSE f[First(T)] + Summed(f, T \ {First(T)})
        /\ Summed(g, T) = IF T = {} THEN 0 ELSE g[First(T)] + Summed(g, T \ {First(T)})
    BY SummedFirst, FS_Subset
  <2>2. CASE T = {}
    BY <2>1, <2>2
  <2>3. CASE T # {}
    BY <1>1, <2>1, <2>3, FirstIn
  <2> QED
    BY <2>2, <2>3
<1> HIDE DEF Q
<1>2. S \in Q
  BY <1>1, FiniteInduction
<1> QED
  BY <1>2 DEF Q

\* A sum in two parts.
LEMMA SummedSplit ==
  ASSUME NEW S, IsFiniteSet(S), NEW f, \A x \in S : f[x] \in Int, NEW P
  PROVE  Summed(f, S) = Summed(f, S \cap P) + Summed(f, S \ P)
<1> DEFINE Q == {T \in SUBSET S : Summed(f, T) = Summed(f, T \cap P) + Summed(f, T \ P)}
<1>0. \A T \in SUBSET S : IsFiniteSet(T) /\ Summed(f, T) \in Int
  BY FS_Subset, SummedInt
<1>1. ASSUME NEW T \in SUBSET S, \A x \in T : T \ {x} \in Q
      PROVE  T \in Q
  <2>1. CASE T = {}
    <3>1. T \cap P = {} /\ T \ P = {} /\ Summed(f, {}) = 0
      BY <2>1, SummedEmpty
    <3> QED
      BY <2>1, <3>1
  <2>2. ASSUME NEW x \in T PROVE T \in Q
    <3> DEFINE U == T \ {x}
    <3>1. Summed(f, T) = f[x] + Summed(f, U)
      BY <1>0, SummedRemove
    <3>2. Summed(f, U) = Summed(f, U \cap P) + Summed(f, U \ P)
      BY <1>1
    <3>3. /\ Summed(f, U \cap P) \in Int /\ Summed(f, U \ P) \in Int /\ f[x] \in Int
          /\ Summed(f, T \cap P) \in Int /\ Summed(f, T \ P) \in Int
      <4>1. /\ U \cap P \in SUBSET S /\ U \ P \in SUBSET S
            /\ T \cap P \in SUBSET S /\ T \ P \in SUBSET S
        OBVIOUS
      <4> QED
        BY <1>0, <4>1
    <3>4. CASE x \in P
      <4>1. T \ P = U \ P /\ (T \cap P) \ {x} = U \cap P /\ x \in T \cap P
        BY <3>4
      <4>2. Summed(f, T \cap P) = f[x] + Summed(f, (T \cap P) \ {x})
        <5>1. T \cap P \in SUBSET S
          OBVIOUS
        <5> QED
          BY <1>0, <4>1, <5>1, SummedRemove
      <4> DEFINE a == Summed(f, U \cap P)
                 b == Summed(f, U \ P)
      <4>3. Summed(f, T) = f[x] + (a + b)
        BY <3>1, <3>2
      <4>4. Summed(f, T \cap P) = f[x] + a /\ Summed(f, T \ P) = b
        BY <4>1, <4>2
      <4>5. a \in Int /\ b \in Int /\ f[x] \in Int
        BY <3>3
      <4> HIDE DEF a, b
      <4>6. f[x] + (a + b) = (f[x] + a) + b
        BY <4>5
      <4> QED
        BY <4>3, <4>4, <4>6
    <3>5. CASE x \notin P
      <4>1. T \cap P = U \cap P /\ (T \ P) \ {x} = U \ P /\ x \in T \ P
        BY <3>5
      <4>2. Summed(f, T \ P) = f[x] + Summed(f, (T \ P) \ {x})
        <5>1. T \ P \in SUBSET S
          OBVIOUS
        <5> QED
          BY <1>0, <4>1, <5>1, SummedRemove
      <4> DEFINE a == Summed(f, U \cap P)
                 b == Summed(f, U \ P)
      <4>3. Summed(f, T) = f[x] + (a + b)
        BY <3>1, <3>2
      <4>4. Summed(f, T \cap P) = a /\ Summed(f, T \ P) = f[x] + b
        BY <4>1, <4>2
      <4>5. a \in Int /\ b \in Int /\ f[x] \in Int
        BY <3>3
      <4> HIDE DEF a, b
      <4>6. f[x] + (a + b) = a + (f[x] + b)
        BY <4>5
      <4> QED
        BY <4>3, <4>4, <4>6
    <3> QED
      BY <3>4, <3>5
  <2> QED
    BY <2>1, <2>2
<1> HIDE DEF Q
<1>2. S \in Q
  BY <1>1, FiniteInduction
<1> QED
  BY <1>2 DEF Q

LEMMA SummedNat ==
  ASSUME NEW S, IsFiniteSet(S), NEW f, \A x \in S : f[x] \in Nat
  PROVE  Summed(f, S) \in Nat
<1> DEFINE Q == {T \in SUBSET S : Summed(f, T) \in Nat}
<1>1. ASSUME NEW T \in SUBSET S, \A x \in T : T \ {x} \in Q
      PROVE  T \in Q
  <2>1. Summed(f, T) = IF T = {} THEN 0 ELSE f[First(T)] + Summed(f, T \ {First(T)})
    BY SummedFirst, FS_Subset
  <2>2. CASE T = {}
    BY <2>1, <2>2
  <2>3. CASE T # {}
    BY <1>1, <2>1, <2>3, FirstIn
  <2> QED
    BY <2>2, <2>3
<1> HIDE DEF Q
<1>2. S \in Q
  BY <1>1, FiniteInduction
<1> QED
  BY <1>2 DEF Q

\* Nothing but zeros.
LEMMA SummedZero ==
  ASSUME NEW S, IsFiniteSet(S), NEW f, \A x \in S : f[x] = 0
  PROVE  Summed(f, S) = 0
<1> DEFINE Q == {T \in SUBSET S : Summed(f, T) = 0}
<1>1. ASSUME NEW T \in SUBSET S, \A x \in T : T \ {x} \in Q
      PROVE  T \in Q
  <2>1. Summed(f, T) = IF T = {} THEN 0 ELSE f[First(T)] + Summed(f, T \ {First(T)})
    BY SummedFirst, FS_Subset
  <2>2. CASE T = {}
    BY <2>1, <2>2
  <2>3. CASE T # {}
    BY <1>1, <2>1, <2>3, FirstIn
  <2> QED
    BY <2>2, <2>3
<1> HIDE DEF Q
<1>2. S \in Q
  BY <1>1, FiniteInduction
<1> QED
  BY <1>2 DEF Q

=============================================================================
