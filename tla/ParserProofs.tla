----------------------------- MODULE ParserProofs -----------------------------
(***************************************************************************)
(* What TLAPS proves of the parser, for any bytes, values, nesting, cuts   *)
(* and limits.  The code of a value is read as that value wherever it lies *)
(* in the buffer, and the bytes that some code begins with are waited for  *)
(* (Reads); the code of a refused value is refused once it is complete     *)
(* (Rejects).  Both hold of every value of a line or a payload, and go up  *)
(* one level of an array by following its elements one after the other.    *)
(* The state then follows: the bytes that arrived are the codes of what    *)
(* was returned, followed by the buffer (ParserInv).                       *)
(***************************************************************************)
EXTENDS RespParser, InductionProofs, SequenceTheorems

-----------------------------------------------------------------------------
\* The elements of a part of a sequence.
LEMMA PartIs ==
  ASSUME NEW S, NEW s \in Seq(S), NEW m \in 0..Len(s), NEW n \in m..Len(s)
  PROVE  /\ SubSeq(s, m + 1, n) \in Seq(S) /\ Len(SubSeq(s, m + 1, n)) = n - m
         /\ \A i \in 1..(n - m) : SubSeq(s, m + 1, n)[i] = s[m + i]
<1> DEFINE f == SubSeq(s, m + 1, n)
<1>1. Len(s) \in Nat /\ m \in Nat /\ n \in Nat /\ \A i \in 1..Len(s) : s[i] \in S
  BY LenProperties, ElementOfSeq
<1>2. \A i \in (m + 1)..n : s[i] \in S
  BY <1>1
<1>3. /\ f \in Seq(S) /\ Len(f) = IF m + 1 <= n THEN n - (m + 1) + 1 ELSE 0
      /\ \A i \in 1..(n - (m + 1) + 1) : f[i] = s[(m + 1) + i - 1]
  BY <1>1, <1>2, SubSeqProperties
<1> HIDE DEF f
<1>4. n - (m + 1) + 1 = n - m /\ (m + 1 <= n <=> n - m # 0)
  BY <1>1
<1>5. \A i \in 1..(n - m) : (m + 1) + i - 1 = m + i
  BY <1>1
<1>6. Len(f) = n - m /\ \A i \in 1..(n - m) : f[i] = s[m + i]
  BY <1>3, <1>4, <1>5
<1> QED
  BY <1>3, <1>6 DEF f

LEMMA InitialIs ==
  ASSUME NEW S, NEW s \in Seq(S), NEW n \in 0..Len(s)
  PROVE  /\ SubSeq(s, 1, n) \in Seq(S) /\ Len(SubSeq(s, 1, n)) = n
         /\ \A i \in 1..n : SubSeq(s, 1, n)[i] = s[i]
<1>1. Len(s) \in Nat /\ n \in Nat
  BY LenProperties
<1>2. 0 \in 0..Len(s) /\ n \in 0..Len(s) /\ 0 + 1 = 1 /\ n - 0 = n /\ \A i \in 1..n : 0 + i = i
  BY <1>1
<1>3. /\ SubSeq(s, 0 + 1, n) \in Seq(S) /\ Len(SubSeq(s, 0 + 1, n)) = n - 0
      /\ \A i \in 1..(n - 0) : SubSeq(s, 0 + 1, n)[i] = s[0 + i]
  BY ONLY <1>2, PartIs, s \in Seq(S)
<1> QED
  BY ONLY <1>2, <1>3

LEMMA FromIs ==
  ASSUME NEW S, NEW s \in Seq(S), NEW m \in 0..Len(s)
  PROVE  /\ From(s, m) \in Seq(S) /\ Len(From(s, m)) = Len(s) - m
         /\ \A i \in 1..(Len(s) - m) : From(s, m)[i] = s[m + i]
<1>1. Len(s) \in m..Len(s)
  BY LenProperties
<1> QED
  BY <1>1, PartIs DEF From

LEMMA ConcatIs ==
  ASSUME NEW S, NEW x \in Seq(S), NEW y \in Seq(S)
  PROVE  /\ x \o y \in Seq(S) /\ Len(x \o y) = Len(x) + Len(y)
         /\ Len(x) \in Nat /\ Len(y) \in Nat
         /\ \A i \in 1..Len(x) : (x \o y)[i] = x[i]
         /\ \A i \in 1..Len(y) : (x \o y)[Len(x) + i] = y[i]
<1> DEFINE z == x \o y
<1>1. /\ z \in Seq(S) /\ Len(z) = Len(x) + Len(y)
      /\ \A i \in 1..(Len(x) + Len(y)) : z[i] = IF i <= Len(x) THEN x[i] ELSE y[i - Len(x)]
  BY ConcatProperties
<1>2. Len(x) \in Nat /\ Len(y) \in Nat
  BY LenProperties
<1> HIDE DEF z
<1>3. ASSUME NEW i \in 1..Len(y) PROVE z[Len(x) + i] = y[i]
  <2>1. Len(x) + i \in 1..(Len(x) + Len(y)) /\ ~(Len(x) + i <= Len(x)) /\ Len(x) + i - Len(x) = i
    BY <1>2
  <2> QED
    BY <1>1, <2>1
<1>4. \A i \in 1..Len(x) : z[i] = x[i]
  BY <1>1, <1>2
<1> QED
  BY <1>1, <1>2, <1>3, <1>4 DEF z

\* What follows the first part of a concatenation.
LEMMA FromConcat ==
  ASSUME NEW S, NEW x \in Seq(S), NEW y \in Seq(S)
  PROVE  From(x \o y, Len(x)) = y
<1> DEFINE z == x \o y
<1>1. /\ z \in Seq(S) /\ Len(z) = Len(x) + Len(y) /\ Len(x) \in Nat /\ Len(y) \in Nat
      /\ \A i \in 1..Len(y) : z[Len(x) + i] = y[i]
  BY ConcatIs
<1> HIDE DEF z
<1> DEFINE f == From(z, Len(x))
<1>2. Len(x) \in 0..Len(z) /\ Len(z) - Len(x) = Len(y)
  BY <1>1
<1>3. f \in Seq(S) /\ Len(f) = Len(y) /\ \A i \in 1..Len(y) : f[i] = z[Len(x) + i]
  BY <1>1, <1>2, FromIs
<1> HIDE DEF f
<1>4. f = y
  BY <1>1, <1>3, SeqEqual
<1> QED
  BY <1>4 DEF f, z

\* The first n of a concatenation: n of its first part, or that part and some of the second.
LEMMA FirstOfConcat ==
  ASSUME NEW S, NEW x \in Seq(S), NEW y \in Seq(S), NEW n \in 0..(Len(x) + Len(y))
  PROVE  /\ SubSeq(x \o y, 1, n) \in Seq(S) /\ Len(SubSeq(x \o y, 1, n)) = n
         /\ n <= Len(x) => SubSeq(x \o y, 1, n) = SubSeq(x, 1, n)
         /\ n >= Len(x) => SubSeq(x \o y, 1, n) = x \o SubSeq(y, 1, n - Len(x))
<1> DEFINE z == x \o y
           f == SubSeq(z, 1, n)
<1>1. /\ z \in Seq(S) /\ Len(z) = Len(x) + Len(y) /\ Len(x) \in Nat /\ Len(y) \in Nat
      /\ \A i \in 1..Len(x) : z[i] = x[i]
      /\ \A i \in 1..Len(y) : z[Len(x) + i] = y[i]
  BY ConcatIs
<1> HIDE DEF z
<1>2. f \in Seq(S) /\ Len(f) = n /\ \A i \in 1..n : f[i] = z[i]
  BY <1>1, InitialIs
<1> HIDE DEF f
<1>3. ASSUME n <= Len(x) PROVE f = SubSeq(x, 1, n)
  <2> DEFINE g == SubSeq(x, 1, n)
  <2>1. g \in Seq(S) /\ Len(g) = n /\ \A i \in 1..n : g[i] = x[i]
    BY <1>1, <1>3, InitialIs
  <2> HIDE DEF g
  <2>2. ASSUME NEW i \in 1..n PROVE f[i] = g[i]
    <3>1. i \in 1..Len(x)
      BY <1>1, <1>3
    <3> QED
      BY <1>1, <1>2, <2>1, <3>1
  <2>3. f = g
    BY <1>2, <2>1, <2>2, SeqEqual
  <2> QED
    BY <2>3 DEF g
<1>4. ASSUME n >= Len(x) PROVE f = x \o SubSeq(y, 1, n - Len(x))
  <2> DEFINE g == SubSeq(y, 1, n - Len(x))
             h == x \o g
  <2>0. n - Len(x) \in 0..Len(y)
    BY <1>1, <1>4
  <2>1. g \in Seq(S) /\ Len(g) = n - Len(x) /\ \A i \in 1..(n - Len(x)) : g[i] = y[i]
    BY <2>0, InitialIs
  <2> HIDE DEF g
  <2>2. /\ h \in Seq(S) /\ Len(h) = Len(x) + Len(g)
        /\ \A i \in 1..Len(x) : h[i] = x[i]
        /\ \A i \in 1..Len(g) : h[Len(x) + i] = g[i]
    BY <2>1, ConcatIs
  <2> HIDE DEF h
  <2>3. ASSUME NEW i \in 1..n PROVE f[i] = h[i]
    <3>1. CASE i <= Len(x)
      <4>1. i \in 1..Len(x)
        BY <1>1, <3>1
      <4> QED
        BY <1>1, <1>2, <2>2, <4>1
    <3>2. CASE ~(i <= Len(x))
      <4>1. PICK k \in 1..(n - Len(x)) : i = Len(x) + k
        <5>1. i - Len(x) \in 1..(n - Len(x)) /\ i = Len(x) + (i - Len(x))
          BY <1>1, <1>4, <3>2
        <5> QED
          BY <5>1
      <4>2. k \in 1..Len(y) /\ k \in 1..Len(g)
        BY <1>1, <1>4, <2>1
      <4>3. z[Len(x) + k] = y[k] /\ h[Len(x) + k] = g[k] /\ g[k] = y[k]
        BY <1>1, <2>1, <2>2, <4>2
      <4> QED
        BY <1>2, <4>1, <4>3
    <3> QED
      BY <3>1, <3>2
  <2>4. f = h
    <3>1. Len(h) = n
      BY <1>1, <1>4, <2>1, <2>2
    <3> QED
      BY <1>2, <2>2, <2>3, <3>1, SeqEqual
  <2> QED
    BY <2>4 DEF h, g
<1> QED
  BY <1>2, <1>3, <1>4 DEF f, z

LEMMA BehindFirst ==
  ASSUME NEW S, NEW x \in Seq(S), NEW y \in Seq(S), NEW n \in 0..(Len(x) + Len(y)), n >= Len(x)
  PROVE  SubSeq(x \o y, 1, n) = x \o SubSeq(y, 1, n - Len(x))
BY FirstOfConcat

LEMMA Associative == \A x, y, z \in Seq(Byte) : (x \o y) \o z = x \o (y \o z)
BY ConcatAssociative

-----------------------------------------------------------------------------
\* No CRLF in x at or after offset o.
Unbroken(x, o) == \A i \in (o + 1)..(Len(x) - 1) : x[i] = "CR" => x[i + 1] # "LF"

LEMMA CRLFIs ==
  CRLF \in Seq(Byte) /\ Len(CRLF) = 2 /\ CRLF[1] = "CR" /\ CRLF[2] = "LF"
BY ParserAssumption DEF CRLF

LEMMA WithCRLF ==
  ASSUME NEW x \in Seq(Byte)
  PROVE  /\ x \o CRLF \in Seq(Byte) /\ Len(x \o CRLF) = Len(x) + 2 /\ Len(x) \in Nat
         /\ \A i \in 1..Len(x) : (x \o CRLF)[i] = x[i]
         /\ \A i \in 1..2 : (x \o CRLF)[Len(x) + i] = CRLF[i]
<1>1. CRLF \in Seq(Byte) /\ Len(CRLF) = 2
  BY CRLFIs
<1>2. /\ x \o CRLF \in Seq(Byte) /\ Len(x \o CRLF) = Len(x) + Len(CRLF) /\ Len(x) \in Nat
      /\ \A i \in 1..Len(x) : (x \o CRLF)[i] = x[i]
      /\ \A i \in 1..Len(CRLF) : (x \o CRLF)[Len(x) + i] = CRLF[i]
  BY <1>1, ConcatIs
<1> QED
  BY ONLY <1>1, <1>2

\* A line with what follows it, and the line of a typed value.
Ended(x, t) == (x \o CRLF) \o t
Tagged(mark, field) == <<mark>> \o field

\* The end of a line is found where it is.
LEMMA LineEnds ==
  ASSUME NEW x \in Seq(Byte), NEW t \in Seq(Byte), NEW o \in 0..Len(x), Unbroken(x, o)
  PROVE  FindCRLF(Ended(x, t), o) = Len(x)
<1> DEFINE y == x \o CRLF
           z == y \o t
           l == Len(x)
<1>1. /\ y \in Seq(Byte) /\ Len(y) = l + 2 /\ l \in Nat
      /\ \A i \in 1..l : y[i] = x[i]
      /\ \A i \in 1..2 : y[l + i] = CRLF[i]
  BY WithCRLF
<1> HIDE DEF y
<1>2. /\ z \in Seq(Byte) /\ Len(z) = Len(y) + Len(t) /\ Len(t) \in Nat
      /\ \A i \in 1..Len(y) : z[i] = y[i]
  BY <1>1, ConcatIs
<1> HIDE DEF z
<1>3. /\ Len(z) >= l + 2
      /\ \A i \in 1..l : z[i] = x[i]
      /\ z[l + 1] = "CR" /\ z[l + 2] = "LF"
  <2>1. \A i \in 1..l : i \in 1..Len(y)
    BY <1>1
  <2>2. 1 \in 1..2 /\ 2 \in 1..2 /\ l + 1 \in 1..Len(y) /\ l + 2 \in 1..Len(y)
    BY <1>1
  <2> QED
    BY <1>1, <1>2, <2>1, <2>2, CRLFIs
<1> HIDE DEF l
<1>4. l \in CRLFs(z, o)
  <2>1. l \in o..(Len(z) - 2)
    BY <1>1, <1>2, <1>3 DEF l
  <2> QED
    BY <1>3, <2>1 DEF CRLFs
<1>5. ASSUME NEW i \in CRLFs(z, o), i < l PROVE FALSE
  <2>1. i \in o..(Len(z) - 2) /\ z[i + 1] = "CR" /\ z[i + 2] = "LF"
    BY DEF CRLFs
  <2>2. i \in Nat /\ i + 1 \in 1..l
    BY <1>1, <1>5, <2>1
  <2>3. CASE i + 1 = l
    <3>1. i + 2 = l + 1
      BY <2>2, <2>3
    <3> QED
      BY <1>3, <2>1, <3>1
  <2>4. CASE i + 1 # l
    <3>1. i + 1 \in (o + 1)..(Len(x) - 1) /\ i + 2 \in 1..l /\ (i + 1) + 1 = i + 2
      BY <1>1, <2>1, <2>2, <2>4 DEF l
    <3>2. x[i + 1] = "CR" /\ x[i + 2] = "LF"
      BY <1>3, <2>1, <2>2, <3>1
    <3> QED
      BY <3>1, <3>2 DEF Unbroken
  <2> QED
    BY <2>3, <2>4
<1>6. CRLFs(z, o) \subseteq Int
  BY <1>1, <1>2 DEF CRLFs
<1> DEFINE c == CHOOSE i \in CRLFs(z, o) : \A j \in CRLFs(z, o) : i <= j
<1>7. \A j \in CRLFs(z, o) : l <= j
  BY <1>1, <1>5, <1>6
<1>8. c \in CRLFs(z, o) /\ \A j \in CRLFs(z, o) : c <= j
  BY <1>4, <1>7
<1>9. FindCRLF(z, o) = c
  BY <1>4 DEF FindCRLF
<1> HIDE DEF c
<1>10. c = l
  BY <1>4, <1>6, <1>7, <1>8
<1> QED
  BY <1>9, <1>10 DEF z, y, l, Ended

\* A line of which the end is missing has none.
LEMMA LineOpen ==
  ASSUME NEW x \in Seq(Byte), NEW o \in Nat, Unbroken(x, o),
         NEW n \in 0..(Len(x) + 1), NEW t \in Seq(Byte)
  PROVE  /\ SubSeq(Ended(x, t), 1, n) \in Seq(Byte) /\ Len(SubSeq(Ended(x, t), 1, n)) = n
         /\ \A i \in 1..n : i <= Len(x) => SubSeq(Ended(x, t), 1, n)[i] = x[i]
         /\ \A i \in 1..n : i > Len(x) => SubSeq(Ended(x, t), 1, n)[i] = "CR"
         /\ FindCRLF(SubSeq(Ended(x, t), 1, n), o) = -1
<1> DEFINE y == x \o CRLF
           q == y \o t
           z == SubSeq(q, 1, n)
           l == Len(x)
<1>0. z = SubSeq(Ended(x, t), 1, n)
  BY DEF Ended
<1>1. /\ y \in Seq(Byte) /\ Len(y) = l + 2 /\ l \in Nat
      /\ \A i \in 1..l : y[i] = x[i]
      /\ \A i \in 1..2 : y[l + i] = CRLF[i]
  BY WithCRLF
<1> HIDE DEF y
<1>2. /\ q \in Seq(Byte) /\ Len(q) = Len(y) + Len(t) /\ Len(t) \in Nat
      /\ \A i \in 1..Len(y) : q[i] = y[i]
  <2>1. y \in Seq(Byte) /\ t \in Seq(Byte)
    BY <1>1
  <2> QED
    BY ONLY <2>1, ConcatIs
<1> HIDE DEF q
<1>3. z \in Seq(Byte) /\ Len(z) = n /\ \A i \in 1..n : z[i] = q[i]
  <2>1. n \in 0..Len(q)
    BY <1>1, <1>2
  <2> QED
    BY <1>2, <2>1, InitialIs
<1> HIDE DEF z
<1>4. ASSUME NEW i \in 1..n, i <= l PROVE z[i] = x[i]
  <2>1. i \in 1..l /\ i \in 1..Len(y)
    BY <1>1, <1>4
  <2> QED
    BY <1>1, <1>2, <1>3, <2>1
<1>5. ASSUME NEW i \in 1..n, i > l PROVE z[i] = "CR"
  <2>1. i = l + 1 /\ i \in 1..Len(y) /\ 1 \in 1..2
    BY <1>1, <1>5
  <2> QED
    BY <1>1, <1>2, <1>3, <2>1, CRLFIs
<1>6. ASSUME NEW i \in CRLFs(z, o) PROVE FALSE
  <2>1. i \in o..(n - 2) /\ z[i + 1] = "CR" /\ z[i + 2] = "LF"
    BY <1>3 DEF CRLFs
  <2>2. i \in Nat /\ i + 1 \in 1..n /\ i + 2 \in 1..n
    BY <2>1
  <2>3. CASE i + 2 > l
    BY <1>5, <2>1, <2>2, <2>3
  <2>4. CASE ~(i + 2 > l)
    <3>1. i + 1 <= l /\ i + 2 <= l /\ i + 1 \in (o + 1)..(l - 1) /\ (i + 1) + 1 = i + 2
      BY <1>1, <2>1, <2>2, <2>4
    <3>2. x[i + 1] = "CR" /\ x[i + 2] = "LF"
      BY <1>4, <2>1, <2>2, <3>1
    <3> QED
      BY <3>1, <3>2 DEF Unbroken
  <2> QED
    BY <2>3, <2>4
<1>7. FindCRLF(z, o) = -1
  <2>1. CRLFs(z, o) = {}
    BY <1>6
  <2> QED
    BY <2>1 DEF FindCRLF
<1>8. /\ z \in Seq(Byte) /\ Len(z) = n
      /\ \A i \in 1..n : i <= l => z[i] = x[i]
      /\ \A i \in 1..n : i > l => z[i] = "CR"
      /\ FindCRLF(z, o) = -1
  BY <1>3, <1>4, <1>5, <1>7
<1> QED
  BY <1>0, <1>8 DEF l

\* What _tryParse reads of a typed value, whose header is field and whose body follows.
LEMMA TaggedIs ==
  ASSUME NEW mark \in Marks, NEW field \in Line
  PROVE  /\ Tagged(mark, field) \in Seq(Byte) /\ Len(Tagged(mark, field)) = Len(field) + 1
         /\ Unbroken(Tagged(mark, field), 1) /\ Tagged(mark, field)[1] = mark
         /\ Len(field) \in Nat /\ field \in Seq(Byte)
         /\ \A i \in 1..Len(field) : Tagged(mark, field)[1 + i] = field[i]
<1> DEFINE x == Tagged(mark, field)
<1>1. <<mark>> \in Seq(Byte) /\ Len(<<mark>>) = 1 /\ <<mark>>[1] = mark /\ field \in Seq(Byte)
  BY ParserAssumption DEF Line
<1>2. /\ x \in Seq(Byte) /\ Len(x) = 1 + Len(field) /\ Len(field) \in Nat
      /\ \A i \in 1..1 : x[i] = <<mark>>[i]
      /\ \A i \in 1..Len(field) : x[1 + i] = field[i]
  BY <1>1, ConcatIs DEF Tagged
<1> HIDE DEF x
<1>3. Unbroken(x, 1)
  <2> SUFFICES ASSUME NEW i \in 2..(Len(x) - 1), x[i] = "CR" PROVE x[i + 1] # "LF"
    BY DEF Unbroken
  <2>1. PICK k \in 1..(Len(field) - 1) : i = 1 + k
    <3>1. i - 1 \in 1..(Len(field) - 1) /\ i = 1 + (i - 1)
      BY <1>2
    <3> QED
      BY <3>1
  <2>2. k \in 1..Len(field) /\ k + 1 \in 1..Len(field) /\ i + 1 = 1 + (k + 1)
    BY <1>2, <2>1
  <2>3. x[i] = field[k] /\ x[i + 1] = field[k + 1]
    BY <1>2, <2>1, <2>2
  <2> QED
    BY <2>1, <2>3 DEF Line
<1>4. x[1] = mark
  <2>1. 1 \in 1..1
    OBVIOUS
  <2> QED
    BY <1>1, <1>2, <2>1
<1> QED
  BY <1>1, <1>2, <1>3, <1>4 DEF x

LEMMA TypedIs ==
  ASSUME NEW mark \in Marks, NEW field \in Line, NEW r \in Seq(Byte)
  PROVE  LET b == Ended(Tagged(mark, field), r)
         IN  /\ b \in Seq(Byte) /\ b # <<>> /\ b[1] = mark /\ Len(b) = Len(field) + 3 + Len(r)
             /\ FindCRLF(b, 1) = Len(field) + 1
             /\ LengthField(b, Len(field) + 1) = field
             /\ \A i \in 1..Len(field) : b[1 + i] = field[i]
             /\ From(b, Len(field) + 3) = r
<1> DEFINE x == Tagged(mark, field)
           y == x \o CRLF
           b == Ended(x, r)
<1>2. /\ x \in Seq(Byte) /\ Len(x) = Len(field) + 1 /\ Unbroken(x, 1) /\ x[1] = mark
      /\ Len(field) \in Nat /\ field \in Seq(Byte)
      /\ \A i \in 1..Len(field) : x[1 + i] = field[i]
  BY TaggedIs
<1> HIDE DEF x
<1>4. /\ y \in Seq(Byte) /\ Len(y) = Len(field) + 3 /\ \A i \in 1..Len(x) : y[i] = x[i]
  BY <1>2, WithCRLF
<1>5. FindCRLF(b, 1) = Len(field) + 1
  <2>1. 1 \in 0..Len(x)
    BY <1>2
  <2> QED
    BY <1>2, <2>1, LineEnds
<1> HIDE DEF y
<1>0. b = y \o r
  BY DEF Ended, y
<1>6. /\ y \o r \in Seq(Byte) /\ Len(y \o r) = Len(y) + Len(r) /\ Len(r) \in Nat
      /\ \A i \in 1..Len(y) : (y \o r)[i] = y[i]
  BY <1>4, ConcatIs
<1>7. From(b, Len(field) + 3) = r
  BY <1>0, <1>4, FromConcat
<1> HIDE DEF b
<1>8. ASSUME NEW i \in 1..Len(x) PROVE b[i] = x[i]
  <2>1. i \in 1..Len(y)
    BY <1>2, <1>4
  <2> QED
    BY <1>0, <1>4, <1>6, <2>1
<1>9. b[1] = mark
  <2>1. 1 \in 1..Len(x)
    BY <1>2
  <2> QED
    BY <1>2, <1>8, <2>1
<1>13. ASSUME NEW i \in 1..Len(field) PROVE b[1 + i] = field[i]
  <2>1. 1 + i \in 1..Len(x)
    BY <1>2
  <2> QED
    BY <1>2, <1>8, <2>1
<1>10. LengthField(b, Len(field) + 1) = field
  <2> DEFINE f == SubSeq(b, 1 + 1, Len(field) + 1)
  <2>1. /\ f \in Seq(Byte) /\ Len(f) = Len(field) + 1 - 1
        /\ \A i \in 1..(Len(field) + 1 - 1) : f[i] = b[1 + i]
    <3>1. 1 \in 0..Len(b) /\ Len(field) + 1 \in 1..Len(b)
      BY <1>0, <1>2, <1>4, <1>6
    <3> QED
      BY <1>0, <1>6, <3>1, PartIs
  <2> HIDE DEF f
  <2>2. Len(f) = Len(field) /\ Len(field) + 1 - 1 = Len(field)
    BY <1>2, <2>1
  <2>3. \A i \in 1..Len(field) : f[i] = field[i]
    BY <1>13, <2>1, <2>2
  <2>4. f = field
    BY <1>2, <2>1, <2>2, <2>3, SeqEqual
  <2> QED
    BY <2>4 DEF f, LengthField
<1>11. b # <<>> /\ Len(b) = Len(field) + 3 + Len(r)
  <2>1. Len(b) > 0 /\ Len(b) = Len(field) + 3 + Len(r)
    BY <1>0, <1>2, <1>4, <1>6
  <2> QED
    BY <2>1, EmptySeq
<1>12. /\ b \in Seq(Byte) /\ b # <<>> /\ b[1] = mark /\ Len(b) = Len(field) + 3 + Len(r)
       /\ FindCRLF(b, 1) = Len(field) + 1
       /\ LengthField(b, Len(field) + 1) = field
       /\ \A i \in 1..Len(field) : b[1 + i] = field[i]
       /\ From(b, Len(field) + 3) = r
  BY <1>0, <1>5, <1>6, <1>7, <1>9, <1>10, <1>11, <1>13
<1> QED
  BY <1>12 DEF b, x

\* A length is read as what was written, and nothing else is a length.
LEMMA NumberIs ==
  ASSUME NEW b, NEW end, NEW n \in -1..MaxCount, LengthField(b, end) = <<Digits[n]>>
  PROVE  Number(b, end) = [ok |-> TRUE, n |-> n]
<1> DEFINE fits == {k \in -1..MaxCount : <<Digits[k]>> = LengthField(b, end)}
<1>1. n \in fits
  OBVIOUS
<1>2. ASSUME NEW k \in fits PROVE k = n
  <2>1. <<Digits[k]>>[1] = <<Digits[n]>>[1]
    OBVIOUS
  <2>2. Digits[k] = Digits[n]
    BY <2>1
  <2> QED
    BY <2>2, ParserAssumption
<1>3. Number(b, end) = IF fits = {} THEN [ok |-> FALSE, n |-> 0]
                       ELSE [ok |-> TRUE, n |-> CHOOSE k \in fits : TRUE]
  BY DEF Number
<1> HIDE DEF fits
<1>4. (CHOOSE k \in fits : TRUE) \in fits
  BY <1>1
<1> QED
  BY <1>1, <1>2, <1>3, <1>4

LEMMA NoNumber ==
  ASSUME NEW b, NEW end, \A n \in -1..MaxCount : LengthField(b, end) # <<Digits[n]>>
  PROVE  Number(b, end) = [ok |-> FALSE, n |-> 0]
<1>1. {n \in -1..MaxCount : <<Digits[n]>> = LengthField(b, end)} = {}
  OBVIOUS
<1> QED
  BY <1>1 DEF Number

-----------------------------------------------------------------------------
\* parse returns v for the whole of code, whatever follows it, and waits for it otherwise.
Reads(parse, code, v) ==
  /\ \A t \in Seq(Byte) : parse[code \o t] = Value(v, Len(code))
  /\ \A n \in 0..(Len(code) - 1) : parse[SubSeq(code, 1, n)].end = "more"

\* parse refuses the whole of code, whatever follows it, and returns nothing before.
Rejects(parse, code) ==
  /\ \A t \in Seq(Byte) : parse[code \o t].end = "error"
  /\ \A n \in 0..(Len(code) - 1) : parse[SubSeq(code, 1, n)].end \in {"more", "error"}

\* The parser at a depth, given the one below it.
At(parse, depth) == [b \in Seq(Byte) |-> TryOne(parse, b, depth)]

\* An array too deep.
Deep(mark, depth) == mark = "*" /\ depth > MaxNesting

LEMMA EndIs ==
  /\ More.end = "more" /\ \A b : Error(b).end = "error"
  /\ \A v, n : Value(v, n).end = "value" /\ Value(v, n).value = v /\ Value(v, n).consumed = n
BY DEF More, Error, Value

\* A typed value whose header has arrived.
LEMMA TypedWhole ==
  ASSUME NEW mark \in Marks, NEW field \in Line, NEW r \in Seq(Byte), NEW parse, NEW depth
  PROVE  LET b == Ended(Tagged(mark, field), r)
         IN  At(parse, depth)[b] = IF Deep(mark, depth) THEN Error(b)
                                   ELSE ParseTyped(parse, b, Len(field) + 1)
<1> DEFINE b == Ended(Tagged(mark, field), r)
<1>1. /\ b \in Seq(Byte) /\ b # <<>> /\ b[1] = mark /\ FindCRLF(b, 1) = Len(field) + 1
      /\ Len(field) \in Nat
  BY TypedIs, TaggedIs
<1> HIDE DEF b
<1>2. ~(FindCRLF(b, 1) < 0)
  BY <1>1
<1>3. At(parse, depth)[b] = TryOne(parse, b, depth)
  BY <1>1 DEF At
<1>4. TryOne(parse, b, depth) = IF Deep(mark, depth) THEN Error(b)
                                ELSE ParseTyped(parse, b, FindCRLF(b, 1))
  BY <1>1, <1>2 DEF TryOne, Deep
<1>5. At(parse, depth)[b] = IF Deep(mark, depth) THEN Error(b)
                            ELSE ParseTyped(parse, b, Len(field) + 1)
  BY <1>1, <1>3, <1>4
<1> QED
  BY <1>5 DEF b

\* A typed value whose header has not.
LEMMA TypedOpen ==
  ASSUME NEW mark \in Marks, NEW field \in Line, NEW r \in Seq(Byte), NEW parse, NEW depth,
         NEW n \in 0..(Len(field) + 2)
  PROVE  /\ At(parse, depth)[SubSeq(Ended(Tagged(mark, field), r), 1, n)].end \in {"more", "error"}
         /\ Deep(mark, depth)
            \/ At(parse, depth)[SubSeq(Ended(Tagged(mark, field), r), 1, n)].end = "more"
<1> DEFINE x == Tagged(mark, field)
           z == SubSeq(Ended(x, r), 1, n)
<1>1. x \in Seq(Byte) /\ Len(x) = Len(field) + 1 /\ Unbroken(x, 1) /\ x[1] = mark /\ Len(field) \in Nat
  BY TaggedIs
<1> HIDE DEF x
<1>2. /\ z \in Seq(Byte) /\ Len(z) = n
      /\ \A i \in 1..n : i <= Len(x) => z[i] = x[i]
      /\ FindCRLF(z, 1) = -1
  <2>1. n \in 0..(Len(x) + 1) /\ 1 \in Nat
    BY <1>1
  <2> QED
    BY <1>1, <2>1, LineOpen
<1> HIDE DEF z
<1>3. At(parse, depth)[z] = TryOne(parse, z, depth)
  BY <1>2 DEF At
<1> DEFINE Waits == /\ At(parse, depth)[z].end \in {"more", "error"}
                    /\ Deep(mark, depth) \/ At(parse, depth)[z].end = "more"
<1>4. ASSUME n = 0 PROVE Waits
  <2>1. z = <<>>
    BY <1>2, <1>4, EmptySeq
  <2>2. TryOne(parse, z, depth) = More
    BY <2>1 DEF TryOne, Deep
  <2> QED
    BY <1>3, <2>2, EndIs
<1>5. ASSUME n # 0 PROVE Waits
  <2>1. z # <<>> /\ z[1] = mark
    <3>1. 1 \in 1..n /\ 1 <= Len(x)
      BY <1>1, <1>5
    <3> QED
      BY <1>1, <1>2, <1>5, <3>1, EmptySeq
  <2>2. TryOne(parse, z, depth) = IF Deep(mark, depth) THEN Error(z) ELSE More
    <3>1. FindCRLF(z, 1) < 0
      BY <1>2
    <3> QED
      BY <2>1, <3>1 DEF TryOne, Deep
  <2> QED
    BY <1>3, <2>2, EndIs
<1>6. Waits
  BY <1>4, <1>5
<1> QED
  BY <1>6 DEF z, x

LEMMA TypedWaits ==
  ASSUME NEW mark \in Marks, NEW field \in Line, NEW r \in Seq(Byte), NEW parse, NEW depth,
         NEW n \in 0..(Len(field) + 2), ~Deep(mark, depth)
  PROVE  At(parse, depth)[SubSeq(Ended(Tagged(mark, field), r), 1, n)].end = "more"
BY TypedOpen

\* A header with nothing behind it.
LEMMA HeadIs ==
  ASSUME NEW mark \in Marks, NEW field \in Line
  PROVE  LET code == Tagged(mark, field) \o CRLF
         IN  /\ code \in Seq(Byte) /\ Len(code) = Len(field) + 3 /\ Len(field) \in Nat
             /\ \A t \in Seq(Byte) : code \o t = Ended(Tagged(mark, field), t)
             /\ \E r \in Seq(Byte) : code = Ended(Tagged(mark, field), r)
<1> DEFINE x == Tagged(mark, field)
<1>1. x \in Seq(Byte) /\ Len(x) = Len(field) + 1 /\ Len(field) \in Nat
  BY TaggedIs
<1> HIDE DEF x
<1>2. x \o CRLF \in Seq(Byte) /\ Len(x \o CRLF) = Len(field) + 3
  BY <1>1, WithCRLF
<1>3. \A t \in Seq(Byte) : (x \o CRLF) \o t = Ended(x, t)
  BY DEF Ended
<1>4. \E r \in Seq(Byte) : x \o CRLF = Ended(x, r)
  <2>1. (x \o CRLF) \o <<>> = x \o CRLF /\ <<>> \in Seq(Byte)
    BY <1>2, ConcatEmptySeq, EmptySeq
  <2> QED
    BY <2>1 DEF Ended
<1> QED
  BY <1>1, <1>2, <1>3, <1>4 DEF x

\* Values that are a header and nothing else.
LEMMA HeaderRead ==
  ASSUME NEW mark \in Marks, NEW field \in Line, NEW parse, NEW depth, NEW v,
         ~Deep(mark, depth),
         \A b : /\ b[1] = mark /\ LengthField(b, Len(field) + 1) = field
                /\ \A i \in 1..Len(field) : b[1 + i] = field[i]
                => ParseTyped(parse, b, Len(field) + 1) = Value(v, Len(field) + 3)
  PROVE  Reads(At(parse, depth), Tagged(mark, field) \o CRLF, v)
<1> DEFINE code == Tagged(mark, field) \o CRLF
<1>1. /\ code \in Seq(Byte) /\ Len(code) = Len(field) + 3 /\ Len(field) \in Nat
      /\ \A t \in Seq(Byte) : code \o t = Ended(Tagged(mark, field), t)
      /\ \E r \in Seq(Byte) : code = Ended(Tagged(mark, field), r)
  BY HeadIs
<1> HIDE DEF code
<1>2. ASSUME NEW t \in Seq(Byte) PROVE At(parse, depth)[code \o t] = Value(v, Len(code))
  <2> DEFINE b == Ended(Tagged(mark, field), t)
  <2>1. /\ b[1] = mark /\ LengthField(b, Len(field) + 1) = field
        /\ \A i \in 1..Len(field) : b[1 + i] = field[i]
    BY TypedIs
  <2>2. At(parse, depth)[b] = ParseTyped(parse, b, Len(field) + 1)
    BY TypedWhole
  <2> HIDE DEF b
  <2>3. ParseTyped(parse, b, Len(field) + 1) = Value(v, Len(field) + 3)
    BY <2>1
  <2>4. At(parse, depth)[b] = Value(v, Len(code))
    BY <1>1, <2>2, <2>3
  <2> QED
    BY <1>1, <2>4 DEF b
<1>3. ASSUME NEW n \in 0..(Len(code) - 1) PROVE At(parse, depth)[SubSeq(code, 1, n)].end = "more"
  <2>1. n \in 0..(Len(field) + 2)
    BY <1>1
  <2>2. PICK r \in Seq(Byte) : code = Ended(Tagged(mark, field), r)
    BY <1>1
  <2>3. ~Deep(mark, depth) /\ mark \in Marks /\ field \in Line /\ r \in Seq(Byte)
    OBVIOUS
  <2>4. At(parse, depth)[SubSeq(Ended(Tagged(mark, field), r), 1, n)].end = "more"
    BY ONLY <2>1, <2>3, TypedWaits
  <2> QED
    BY <2>2, <2>4
<1>4. Reads(At(parse, depth), code, v)
  BY <1>2, <1>3 DEF Reads
<1> QED
  BY <1>4 DEF code

\* A header that is no number.
LEMMA HeaderRejected ==
  ASSUME NEW mark \in {":", "$", "*"}, NEW field \in Line, NEW parse, NEW depth,
         \A n \in -1..MaxCount : field # <<Digits[n]>>
  PROVE  Rejects(At(parse, depth), Tagged(mark, field) \o CRLF)
<1> DEFINE code == Tagged(mark, field) \o CRLF
<1>0. mark \in Marks
  BY DEF Marks
<1>1. /\ code \in Seq(Byte) /\ Len(code) = Len(field) + 3 /\ Len(field) \in Nat
      /\ \A t \in Seq(Byte) : code \o t = Ended(Tagged(mark, field), t)
      /\ \E r \in Seq(Byte) : code = Ended(Tagged(mark, field), r)
  BY <1>0, HeadIs
<1> HIDE DEF code
<1>2. ASSUME NEW t \in Seq(Byte) PROVE At(parse, depth)[code \o t].end = "error"
  <2> DEFINE b == Ended(Tagged(mark, field), t)
  <2>1. b[1] = mark /\ LengthField(b, Len(field) + 1) = field
    BY <1>0, TypedIs
  <2>2. At(parse, depth)[b] = IF Deep(mark, depth) THEN Error(b)
                              ELSE ParseTyped(parse, b, Len(field) + 1)
    BY <1>0, TypedWhole
  <2> HIDE DEF b
  <2>3. Number(b, Len(field) + 1).ok = FALSE
    BY <2>1, NoNumber
  <2>4. ParseTyped(parse, b, Len(field) + 1) = Error(b)
    <3>1. /\ ParseInteger(b, Len(field) + 1) = Error(b)
          /\ ParseBulk(b, Len(field) + 1) = Error(b)
          /\ ParseArray(parse, b, Len(field) + 1) = Error(b)
      BY <2>3 DEF ParseInteger, ParseBulk, ParseArray
    <3> QED
      BY <2>1, <3>1 DEF ParseTyped
  <2>5. At(parse, depth)[b].end = "error"
    BY <2>2, <2>4, EndIs
  <2> QED
    BY <1>1, <2>5 DEF b
<1>3. ASSUME NEW n \in 0..(Len(code) - 1)
      PROVE  At(parse, depth)[SubSeq(code, 1, n)].end \in {"more", "error"}
  <2>1. n \in 0..(Len(field) + 2)
    BY <1>1
  <2>2. PICK r \in Seq(Byte) : code = Ended(Tagged(mark, field), r)
    BY <1>1
  <2>3. At(parse, depth)[SubSeq(Ended(Tagged(mark, field), r), 1, n)].end \in {"more", "error"}
    BY <1>0, <2>1, TypedOpen
  <2> QED
    BY <2>2, <2>3
<1>4. Rejects(At(parse, depth), code)
  BY <1>2, <1>3 DEF Rejects
<1> QED
  BY <1>4 DEF code

-----------------------------------------------------------------------------
\* The values that are not arrays.
LEMMA DigitIs ==
  ASSUME NEW n \in -1..MaxCount
  PROVE  /\ Digits[n] \in Byte /\ <<Digits[n]>> \in Line /\ Len(<<Digits[n]>>) = 1
         /\ <<Digits[n]>>[1] = Digits[n]
<1>1. Digits[n] \in Byte
  BY ParserAssumption
<1> QED
  BY <1>1 DEF Line

LEMMA OpeningIs ==
  ASSUME NEW mark \in Marks, NEW n \in -1..MaxCount
  PROVE  Opening(mark, n) = Tagged(mark, <<Digits[n]>>) \o CRLF
<1> DEFINE d == Digits[n]
           x == <<mark>> \o <<d>>
           y == <<mark, d>>
<1>1. d \in Byte /\ mark \in Byte
  BY DigitIs, ParserAssumption
<1>2. /\ <<mark>> \in Seq(Byte) /\ <<d>> \in Seq(Byte) /\ y \in Seq(Byte)
      /\ Len(<<mark>>) = 1 /\ Len(<<d>>) = 1 /\ Len(y) = 2
      /\ <<mark>>[1] = mark /\ <<d>>[1] = d /\ y[1] = mark /\ y[2] = d
  BY <1>1
<1>3. /\ x \in Seq(Byte) /\ Len(x) = Len(<<mark>>) + Len(<<d>>)
      /\ \A i \in 1..(Len(<<mark>>) + Len(<<d>>)) : x[i] =
           IF i <= Len(<<mark>>) THEN <<mark>>[i] ELSE <<d>>[i - Len(<<mark>>)]
  BY <1>2, ConcatProperties
<1> HIDE DEF x, y, d
<1>4. Len(x) = 2 /\ x[1] = mark /\ x[2] = d
  BY <1>2, <1>3
<1>5. \A i \in 1..2 : x[i] = y[i]
  BY <1>2, <1>4
<1>6. x = y
  BY <1>2, <1>3, <1>4, <1>5, SeqEqual
<1> QED
  BY <1>6 DEF x, y, d, Opening, Tagged

LEMMA SimpleRead ==
  ASSUME NEW s \in Line, NEW parse, NEW depth
  PROVE  /\ Reads(At(parse, depth), Tagged("+", s) \o CRLF, <<"simple", s>>)
         /\ Reads(At(parse, depth), Tagged("-", s) \o CRLF, <<"error", s>>)
<1>1. ASSUME NEW mark \in {"+", "-"}
      PROVE  Reads(At(parse, depth), Tagged(mark, s) \o CRLF,
                   <<IF mark = "+" THEN "simple" ELSE "error", s>>)
  <2> DEFINE v == <<IF mark = "+" THEN "simple" ELSE "error", s>>
  <2>1. mark \in Marks /\ ~Deep(mark, depth) /\ Len(s) \in Nat
    BY TaggedIs DEF Marks, Deep
  <2>2. ASSUME NEW b, b[1] = mark, LengthField(b, Len(s) + 1) = s
        PROVE  ParseTyped(parse, b, Len(s) + 1) = Value(v, Len(s) + 3)
    <3>1. Len(s) + 1 + 2 = Len(s) + 3
      BY <2>1
    <3>2. ParseSimple(b, Len(s) + 1) = Value(v, Len(s) + 3)
      BY <2>2, <3>1 DEF ParseSimple
    <3>3. b[1] \in {"+", "-"} /\ b[1] # ":" /\ b[1] # "$" /\ b[1] # "*"
      BY <2>2
    <3> HIDE DEF v
    <3> QED
      BY <3>2, <3>3 DEF ParseTyped
  <2> HIDE DEF v
  <2>3. Reads(At(parse, depth), Tagged(mark, s) \o CRLF, v)
    BY <2>1, <2>2, HeaderRead
  <2> QED
    BY <2>3 DEF v
<1> QED
  BY <1>1

LEMMA IntegerRead ==
  ASSUME NEW n \in -1..MaxCount, NEW parse, NEW depth
  PROVE  Reads(At(parse, depth), Tagged(":", <<Digits[n]>>) \o CRLF, <<"integer", Digits[n]>>)
<1> DEFINE s == <<Digits[n]>>
           v == <<"integer", Digits[n]>>
<1>1. ":" \in Marks /\ ~Deep(":", depth) /\ Len(s) = 1 /\ s \in Line /\ s[1] = Digits[n]
  BY DigitIs DEF Marks, Deep
<1>2. ASSUME NEW b, b[1] = ":", LengthField(b, Len(s) + 1) = s, \A i \in 1..Len(s) : b[1 + i] = s[i]
      PROVE  ParseTyped(parse, b, Len(s) + 1) = Value(v, Len(s) + 3)
  <2>1. Number(b, Len(s) + 1).ok
    <3>1. Number(b, Len(s) + 1) = [ok |-> TRUE, n |-> n]
      BY <1>2, NumberIs
    <3> QED
      BY <3>1
  <2>2. b[2] = Digits[n] /\ Len(s) + 1 + 2 = Len(s) + 3
    <3>1. 1 \in 1..Len(s) /\ 1 + 1 = 2
      BY <1>1
    <3>2. b[1 + 1] = s[1]
      BY <1>2, <3>1
    <3> QED
      BY <1>1, <3>1, <3>2
  <2>3. ParseInteger(b, Len(s) + 1) = Value(v, Len(s) + 3)
    BY <2>1, <2>2 DEF ParseInteger
  <2>4. b[1] \notin {"+", "-"} /\ b[1] = ":" /\ b[1] # "$" /\ b[1] # "*"
    BY <1>2
  <2> HIDE DEF v, s
  <2> QED
    BY <2>3, <2>4 DEF ParseTyped
<1> HIDE DEF s, v
<1>3. Reads(At(parse, depth), Tagged(":", s) \o CRLF, v)
  BY <1>1, <1>2, HeaderRead
<1> QED
  BY <1>3 DEF s, v

LEMMA NullRead ==
  ASSUME NEW parse, NEW depth
  PROVE  Reads(At(parse, depth), Tagged("$", <<Digits[-1]>>) \o CRLF, <<"null", 0>>)
<1> DEFINE s == <<Digits[-1]>>
           v == <<"null", 0>>
<1>0. -1 \in -1..MaxCount
  BY ParserAssumption
<1>1. "$" \in Marks /\ ~Deep("$", depth) /\ Len(s) = 1 /\ s \in Line
  BY <1>0, DigitIs DEF Marks, Deep
<1>2. ASSUME NEW b, b[1] = "$", LengthField(b, Len(s) + 1) = s
      PROVE  ParseTyped(parse, b, Len(s) + 1) = Value(v, Len(s) + 3)
  <2>1. Number(b, Len(s) + 1).ok = TRUE /\ Number(b, Len(s) + 1).n = -1
    <3>1. Number(b, Len(s) + 1) = [ok |-> TRUE, n |-> -1]
      BY <1>0, <1>2, NumberIs
    <3> QED
      BY <3>1
  <2>2. Len(s) + 1 + 2 = Len(s) + 3
    BY <1>1
  <2> HIDE DEF s
  <2>3. ParseBulk(b, Len(s) + 1) = Value(v, Len(s) + 3)
    BY <2>1, <2>2 DEF ParseBulk
  <2>4. b[1] \notin {"+", "-"} /\ b[1] # ":" /\ b[1] = "$" /\ b[1] # "*"
    BY <1>2
  <2> HIDE DEF v
  <2> QED
    BY <2>3, <2>4 DEF ParseTyped
<1> HIDE DEF s, v
<1>3. Reads(At(parse, depth), Tagged("$", s) \o CRLF, v)
  BY <1>1, <1>2, HeaderRead
<1> QED
  BY <1>3 DEF s, v

-----------------------------------------------------------------------------
\* The header of a bulk string with what follows it.
Bulk(b, n) == IF Len(b) < n + 6 THEN More
              ELSE IF ~IsPrefix(CRLF, From(b, n + 4)) THEN Error(b)
              ELSE Value(<<"bulk", SubSeq(b, 5, n + 4)>>, n + 6)

LEMMA BulkIs ==
  ASSUME NEW n \in 0..MaxCount, NEW r \in Seq(Byte), NEW parse, NEW depth
  PROVE  LET b == Ended(Tagged("$", <<Digits[n]>>), r)
         IN  Len(b) = Len(r) + 4 /\ At(parse, depth)[b] = Bulk(b, n)
<1> DEFINE f == <<Digits[n]>>
           b == Ended(Tagged("$", f), r)
<1>0. n \in -1..MaxCount /\ n \in Nat /\ MaxCount \in Nat
  BY ParserAssumption
<1>1. "$" \in Marks /\ ~Deep("$", depth) /\ Len(f) = 1 /\ f \in Line
  BY <1>0, DigitIs DEF Marks, Deep
<1> HIDE DEF f
<1>2. /\ b \in Seq(Byte) /\ b[1] = "$" /\ Len(b) = Len(f) + 3 + Len(r)
      /\ LengthField(b, Len(f) + 1) = f /\ From(b, Len(f) + 3) = r
  <2>1. "$" \in Marks /\ f \in Line /\ r \in Seq(Byte)
    BY <1>1
  <2> QED
    BY ONLY <2>1, TypedIs
<1>3. At(parse, depth)[b] = ParseTyped(parse, b, Len(f) + 1)
  BY <1>1, TypedWhole
<1> HIDE DEF b
<1>4. Number(b, 2).ok = TRUE /\ Number(b, 2).n = n
  <2>1. Number(b, 2) = [ok |-> TRUE, n |-> n]
    <3>1. LengthField(b, 2) = <<Digits[n]>>
      BY <1>1, <1>2 DEF f
    <3> QED
      BY <1>0, <3>1, NumberIs
  <2> QED
    BY <2>1
<1>5. ParseTyped(parse, b, Len(f) + 1) = ParseBulk(b, 2)
  <2>1. b[1] \notin {"+", "-"} /\ b[1] # ":" /\ b[1] = "$" /\ b[1] # "*" /\ Len(f) + 1 = 2
    BY <1>1, <1>2
  <2> QED
    BY <2>1 DEF ParseTyped
<1>6. ParseBulk(b, 2) = Bulk(b, n)
  <2>1. /\ Needed(2 + 2 + n) = n + 6 /\ 2 + 2 + n = n + 4 /\ 2 + 2 + 1 = 5 /\ n # -1 /\ n >= 0
        /\ 2 + 2 + n + 2 = n + 6
    BY <1>0 DEF Needed
  <2>2. ParseBulk(b, 2) =
          IF Len(b) < Needed(2 + 2 + n) THEN More
          ELSE IF ~IsPrefix(CRLF, From(b, 2 + 2 + n)) THEN Error(b)
          ELSE Value(<<"bulk", SubSeq(b, 2 + 2 + 1, 2 + 2 + n)>>, 2 + 2 + n + 2)
    BY <1>4, <2>1 DEF ParseBulk
  <2> QED
    BY <2>1, <2>2 DEF Bulk
<1>7. Len(b) = Len(r) + 4 /\ At(parse, depth)[b] = Bulk(b, n)
  <2>1. Len(f) + 3 = 4 /\ Len(r) \in Nat
    BY <1>1, LenProperties
  <2>2. At(parse, depth)[b] = ParseBulk(b, 2)
    BY <1>3, <1>5
  <2>3. Len(b) = Len(r) + 4
    BY <1>2, <2>1
  <2> QED
    BY <1>2, <1>6, <2>1, <2>2, <2>3
<1> QED
  BY <1>7 DEF b, f

\* A bulk string with the two bytes that end it, and what follows.
LEMMA BulkBody ==
  ASSUME NEW s \in Payload, NEW e \in Seq(Byte), Len(e) = 2, NEW parse, NEW depth
  PROVE  LET code == (Opening("$", Len(s)) \o s) \o e
         IN  /\ code \in Seq(Byte) /\ Len(code) = Len(s) + 6 /\ Len(s) \in Nat
             /\ \A t \in Seq(Byte) :
                  /\ e = CRLF => At(parse, depth)[code \o t] = Value(<<"bulk", s>>, Len(code))
                  /\ e # CRLF => At(parse, depth)[code \o t].end = "error"
             /\ \A k \in 0..(Len(code) - 1) : At(parse, depth)[SubSeq(code, 1, k)].end = "more"
<1> DEFINE n == Len(s)
           x == Tagged("$", <<Digits[n]>>)
           h == x \o CRLF
           body == s \o e
           code == (h \o s) \o e
<1>0. n \in 0..MaxCount /\ n \in Nat /\ s \in Seq(Byte) /\ n \in -1..MaxCount /\ "$" \in Marks
      /\ <<Digits[n]>> \in Line /\ Len(<<Digits[n]>>) = 1 /\ ~Deep("$", depth)
  <2>1. n \in 0..MaxCount /\ n \in Nat /\ s \in Seq(Byte) /\ n \in -1..MaxCount
    BY LenProperties, ParserAssumption DEF Payload
  <2> QED
    BY <2>1, DigitIs DEF Marks, Deep
<1>1. h = Opening("$", n)
  BY <1>0, OpeningIs
<1>2. h \in Seq(Byte) /\ Len(h) = 4
  <2>1. h \in Seq(Byte) /\ Len(h) = Len(<<Digits[n]>>) + 3
    BY <1>0, HeadIs
  <2> HIDE DEF h, n
  <2> QED
    BY <1>0, <2>1
<1>3. \A r \in Seq(Byte) : h \o r = Ended(x, r)
  BY DEF Ended
<1> HIDE DEF h
<1>4. body \in Seq(Byte) /\ Len(body) = n + 2
  <2>1. body \in Seq(Byte) /\ Len(body) = Len(s) + Len(e)
    BY <1>0, ConcatIs
  <2> HIDE DEF body
  <2> QED
    BY <2>1
<1>5. /\ h \o s \in Seq(Byte) /\ Len(h \o s) = n + 4
      /\ code \in Seq(Byte) /\ Len(code) = n + 6
      /\ code = h \o body
  <2>1. h \o s \in Seq(Byte) /\ Len(h \o s) = n + 4
    <3>1. h \o s \in Seq(Byte) /\ Len(h \o s) = Len(h) + Len(s)
      BY <1>0, <1>2, ConcatIs
    <3> QED
      BY <1>0, <1>2, <3>1
  <2>2. code \in Seq(Byte) /\ Len(code) = n + 6
    <3>1. code \in Seq(Byte) /\ Len(code) = Len(h \o s) + Len(e)
      BY <1>0, <2>1, ConcatIs
    <3> QED
      BY <1>0, <2>1, <3>1
  <2>3. code = h \o body
    BY <1>0, <1>2, ConcatAssociative
  <2> QED
    BY <2>1, <2>2, <2>3
<1>6. ASSUME NEW t \in Seq(Byte)
      PROVE  /\ e = CRLF => At(parse, depth)[code \o t] = Value(<<"bulk", s>>, n + 6)
             /\ e # CRLF => At(parse, depth)[code \o t].end = "error"
  <2> DEFINE b == code \o t
             r == body \o t
             u == e \o t
  <2>1. r \in Seq(Byte) /\ u \in Seq(Byte) /\ Len(r) = n + 2 + Len(t) /\ Len(t) \in Nat
    BY <1>4, ConcatIs
  <2>2. b = h \o r
    <3>1. h \in Seq(Byte) /\ body \in Seq(Byte) /\ t \in Seq(Byte)
      BY <1>2, <1>4
    <3> HIDE DEF body, code
    <3>2. (h \o body) \o t = h \o (body \o t)
      BY <3>1, Associative
    <3>3. code = h \o body
      BY <1>5
    <3> QED
      BY ONLY <3>2, <3>3
  <2>3. b = (h \o s) \o u
    <3> DEFINE q == h \o s
    <3>1. q \in Seq(Byte)
      BY <1>5
    <3> HIDE DEF q
    <3>2. (q \o e) \o t = q \o (e \o t)
      BY <3>1, ConcatAssociative
    <3> QED
      BY <3>2 DEF q
  <2>4. b = Ended(x, r)
    BY <1>3, <2>1, <2>2
  <2>5. From(b, n + 4) = u
    BY <1>5, <2>1, <2>3, FromConcat
  <2>6. IsPrefix(CRLF, u) <=> e = CRLF
    <3>1. /\ Len(CRLF) = 2 /\ SubSeq(CRLF, 1, 2) = CRLF
          /\ Len(u) >= 2 /\ SubSeq(u, 1, 2) = e
      <4>1. Len(CRLF) = 2 /\ SubSeq(CRLF, 1, 2) = CRLF /\ SubSeq(e, 1, 2) = e
        BY CRLFIs, SubSeqFull
      <4>2. Len(u) = 2 + Len(t) /\ Len(t) \in Nat
        <5>1. Len(u) = Len(e) + Len(t) /\ Len(t) \in Nat
          BY ConcatIs
        <5> HIDE DEF u
        <5> QED
          BY <5>1
      <4>3. SubSeq(u, 1, 2) = SubSeq(e, 1, 2)
        <5>1. 2 \in 0..(Len(e) + Len(t)) /\ 2 <= Len(e)
          BY <4>2
        <5> QED
          BY <5>1, FirstOfConcat
      <4> QED
        BY <4>1, <4>2, <4>3
    <3> HIDE DEF u
    <3> QED
      BY <3>1 DEF IsPrefix
  <2>7. SubSeq(b, 5, n + 4) = s
    <3> DEFINE g == SubSeq(b, 4 + 1, n + 4)
    <3>1. /\ b \in Seq(Byte) /\ Len(b) = (n + 4) + Len(u) /\ Len(u) \in Nat
          /\ \A i \in 1..(n + 4) : b[i] = (h \o s)[i]
      BY <1>5, <2>1, <2>3, ConcatIs
    <3>2. \A i \in 1..n : (h \o s)[4 + i] = s[i]
      <4>0. h \in Seq(Byte) /\ s \in Seq(Byte)
        BY <1>0, <1>2
      <4>1. \A i \in 1..Len(s) : (h \o s)[Len(h) + i] = s[i]
        BY ONLY <4>0, ConcatIs
      <4> QED
        BY <1>2, <4>1
    <3> HIDE DEF b
    <3>3. /\ g \in Seq(Byte) /\ Len(g) = n + 4 - 4
          /\ \A i \in 1..(n + 4 - 4) : g[i] = b[4 + i]
      <4>1. 4 \in 0..Len(b) /\ n + 4 \in 4..Len(b)
        BY <1>0, <3>1
      <4> QED
        <5>1. b \in Seq(Byte)
          BY <3>1
        <5> QED
          BY ONLY <4>1, <5>1, PartIs
    <3> HIDE DEF g
    <3>4. Len(g) = n /\ n + 4 - 4 = n
      BY <1>0, <3>3
    <3>5. ASSUME NEW i \in 1..n PROVE g[i] = s[i]
      <4>1. 4 + i \in 1..(n + 4)
        BY <1>0
      <4> QED
        BY <3>1, <3>2, <3>3, <3>4, <4>1
    <3>6. g = s
      BY <1>0, <3>3, <3>4, <3>5, SeqEqual
    <3> QED
      BY <3>6 DEF g
  <2>8. At(parse, depth)[b] = Bulk(b, n)
    <3>1. n \in 0..MaxCount /\ r \in Seq(Byte)
      BY <1>0, <2>1
    <3> HIDE DEF n, r
    <3>2. At(parse, depth)[Ended(x, r)] = Bulk(Ended(x, r), n)
      BY ONLY <3>1, BulkIs
    <3> QED
      BY <2>4, <3>2
  <2>9. ~(Len(b) < n + 6)
    <3>1. Len(b) = Len(r) + 4
      BY <1>0, <2>1, <2>4, BulkIs
    <3> QED
      BY <1>0, <2>1, <3>1
  <2> HIDE DEF b, u
  <2>10. /\ e = CRLF => At(parse, depth)[b] = Value(<<"bulk", s>>, n + 6)
         /\ e # CRLF => At(parse, depth)[b].end = "error"
    BY <2>5, <2>6, <2>7, <2>8, <2>9, EndIs DEF Bulk
  <2> QED
    BY <2>10 DEF b
<1>7. ASSUME NEW k \in 0..(n + 5) PROVE At(parse, depth)[SubSeq(code, 1, k)].end = "more"
  <2>1. code = Ended(x, body)
    BY <1>3, <1>4, <1>5
  <2>2. CASE k <= 3
    <3>1. k \in 0..(Len(<<Digits[n]>>) + 2)
      BY <1>0, <2>2
    <3>2. At(parse, depth)[SubSeq(Ended(x, body), 1, k)].end = "more"
      BY ONLY <1>0, <1>4, <3>1, TypedWaits
    <3> QED
      BY <2>1, <3>2
  <2>3. CASE ~(k <= 3)
    <3> DEFINE r == SubSeq(body, 1, k - 4)
    <3>1. k - 4 \in 0..Len(body) /\ k \in 0..(Len(h) + Len(body)) /\ k >= Len(h) /\ k - Len(h) = k - 4
      BY <1>0, <1>2, <1>4, <2>3
    <3>2. r \in Seq(Byte) /\ Len(r) = k - 4
      BY <1>4, <3>1, InitialIs
    <3>3. SubSeq(code, 1, k) = h \o r
      <4>0. h \in Seq(Byte) /\ body \in Seq(Byte)
        BY <1>2, <1>4
      <4> HIDE DEF body
      <4>1. SubSeq(h \o body, 1, k) = h \o SubSeq(body, 1, k - Len(h))
        <5>1. k \in 0..(Len(h) + Len(body)) /\ k >= Len(h)
          BY <3>1
        <5> QED
          BY ONLY <4>0, <5>1, BehindFirst
      <4> QED
        BY <1>5, <3>1, <4>1
    <3> HIDE DEF r
    <3>4. SubSeq(code, 1, k) = Ended(x, r)
      BY <1>3, <3>2, <3>3
    <3>5. Len(Ended(x, r)) = k /\ k < n + 6
      <4>1. Len(Ended(x, r)) = Len(r) + 4
        BY <1>0, <3>2, BulkIs
      <4> QED
        BY <1>0, <3>2, <4>1
    <3>6. At(parse, depth)[Ended(x, r)] = Bulk(Ended(x, r), n)
      <4>1. n \in 0..MaxCount /\ r \in Seq(Byte)
        BY <1>0, <3>2
      <4> HIDE DEF n
      <4> QED
        BY ONLY <4>1, BulkIs
    <3> QED
      BY <3>4, <3>5, <3>6, EndIs DEF Bulk
  <2> QED
    BY <2>2, <2>3
<1> HIDE DEF code
<1>8. /\ code \in Seq(Byte) /\ Len(code) = Len(s) + 6 /\ Len(s) \in Nat
      /\ \A t \in Seq(Byte) :
           /\ e = CRLF => At(parse, depth)[code \o t] = Value(<<"bulk", s>>, Len(code))
           /\ e # CRLF => At(parse, depth)[code \o t].end = "error"
      /\ \A k \in 0..(Len(code) - 1) : At(parse, depth)[SubSeq(code, 1, k)].end = "more"
  <2>1. Len(code) - 1 = n + 5
    BY <1>0, <1>5
  <2> QED
    BY <1>0, <1>5, <1>6, <1>7, <2>1
<1> QED
  BY <1>1, <1>8 DEF code

LEMMA BulkRead ==
  ASSUME NEW s \in Payload, NEW parse, NEW depth
  PROVE  Reads(At(parse, depth), (Opening("$", Len(s)) \o s) \o CRLF, <<"bulk", s>>)
<1>1. CRLF \in Seq(Byte) /\ Len(CRLF) = 2
  BY CRLFIs
<1> QED
  BY <1>1, BulkBody DEF Reads

LEMMA EndlessRejected ==
  ASSUME NEW s \in Payload, NEW e \in Byte \X Byte, e # CRLF, NEW parse, NEW depth
  PROVE  Rejects(At(parse, depth), (Opening("$", Len(s)) \o s) \o e)
<1>1. e \in Seq(Byte) /\ Len(e) = 2
  <2>1. PICK x \in Byte, y \in Byte : e = <<x, y>>
    OBVIOUS
  <2> QED
    BY <2>1
<1> DEFINE code == (Opening("$", Len(s)) \o s) \o e
<1>2. /\ \A t \in Seq(Byte) : At(parse, depth)[code \o t].end = "error"
      /\ \A k \in 0..(Len(code) - 1) : At(parse, depth)[SubSeq(code, 1, k)].end = "more"
  <2>1. /\ \A t \in Seq(Byte) :
             /\ e = CRLF => At(parse, depth)[code \o t] = Value(<<"bulk", s>>, Len(code))
             /\ e # CRLF => At(parse, depth)[code \o t].end = "error"
        /\ \A k \in 0..(Len(code) - 1) : At(parse, depth)[SubSeq(code, 1, k)].end = "more"
    BY <1>1, BulkBody
  <2> HIDE DEF code
  <2> QED
    BY <2>1
<1> HIDE DEF code
<1>3. Rejects(At(parse, depth), code)
  BY <1>2 DEF Rejects
<1> QED
  BY <1>3 DEF code

\* An inline command is the line, and is not taken for one before its LF is there.
LEMMA InlineRead ==
  ASSUME NEW s \in Inline, NEW parse, NEW depth
  PROVE  Reads(At(parse, depth), s \o CRLF, <<"line", s>>)
<1> DEFINE code == s \o CRLF
           l == Len(s)
<1>0. /\ s \in Seq(Byte) /\ s # <<>> /\ s[1] \notin Marks /\ \A i \in 1..l : s[i] # "LF"
      /\ l \in Nat /\ l >= 1
  <2>1. s \in Seq(Byte) /\ s # <<>> /\ s[1] \notin Marks /\ \A i \in 1..l : s[i] # "LF"
    BY DEF Inline
  <2> QED
    BY <2>1, EmptySeq, LenProperties
<1>1. Unbroken(s, 0)
  <2> SUFFICES ASSUME NEW i \in 1..(l - 1) PROVE s[i + 1] # "LF"
    BY DEF Unbroken
  <2>1. i + 1 \in 1..l
    BY <1>0
  <2> QED
    BY <1>0, <2>1
<1>2. code \in Seq(Byte) /\ Len(code) = l + 2
  BY <1>0, WithCRLF
<1>3. \A t \in Seq(Byte) : code \o t = Ended(s, t)
  BY DEF Ended
<1>4. \E t \in Seq(Byte) : code = Ended(s, t)
  <2>1. code \o <<>> = code /\ <<>> \in Seq(Byte)
    BY <1>2, ConcatEmptySeq, EmptySeq
  <2> QED
    BY <2>1 DEF Ended
<1> HIDE DEF code
<1>5. ASSUME NEW t \in Seq(Byte) PROVE At(parse, depth)[code \o t] = Value(<<"line", s>>, l + 2)
  <2> DEFINE b == Ended(s, t)
             z == SubSeq(b, 1, l)
  <2>1. FindCRLF(b, 0) = l
    <3>1. 0 \in 0..Len(s)
      BY <1>0
    <3> QED
      BY <1>0, <1>1, <3>1, LineEnds
  <2>2. z \in Seq(Byte) /\ Len(z) = l /\ \A i \in 1..l : i <= Len(s) => z[i] = s[i]
    <3>1. l \in 0..(Len(s) + 1) /\ 0 \in Nat
      BY <1>0
    <3> QED
      BY <1>0, <1>1, <3>1, LineOpen
  <2>3. b \in Seq(Byte) /\ Len(b) = l + 2 + Len(t) /\ Len(t) \in Nat /\ b = code \o t
    <3>1. code \o t \in Seq(Byte) /\ Len(code \o t) = Len(code) + Len(t) /\ Len(t) \in Nat
      BY <1>2, ConcatIs
    <3> QED
      BY <1>0, <1>2, <1>3, <3>1
  <2> HIDE DEF b
  <2>4. z = s
    <3>1. \A i \in 1..l : z[i] = s[i]
      BY <1>0, <2>2
    <3> HIDE DEF z
    <3> QED
      BY <1>0, <2>2, <3>1, SeqEqual
  <2>5. b # <<>> /\ b[1] = s[1]
    <3>1. 1 \in 1..l /\ l \in 0..Len(b)
      BY <1>0, <2>3
    <3>2. \A i \in 1..l : SubSeq(b, 1, l)[i] = b[i]
      BY <2>3, <3>1, InitialIs
    <3>3. SubSeq(b, 1, l)[1] = b[1]
      BY <3>1, <3>2
    <3>4. Len(b) # 0
      BY <1>0, <2>3
    <3> QED
      BY <2>4, <3>3, <3>4, EmptySeq
  <2>6. At(parse, depth)[b] = ParseInline(b)
    BY <1>0, <2>3, <2>5 DEF At, TryOne
  <2>7. ParseInline(b) = Value(<<"line", s>>, l + 2)
    <3>1. ~(l < 0) /\ l >= 0
      BY <1>0
    <3> QED
      BY <1>0, <2>1, <2>4, <3>1 DEF ParseInline
  <2> QED
    BY <2>3, <2>6, <2>7
<1>6. ASSUME NEW n \in 0..(l + 1) PROVE At(parse, depth)[SubSeq(code, 1, n)].end = "more"
  <2>1. PICK t \in Seq(Byte) : code = Ended(s, t)
    BY <1>4
  <2> DEFINE z == SubSeq(Ended(s, t), 1, n)
  <2>2. /\ z \in Seq(Byte) /\ Len(z) = n
        /\ \A i \in 1..n : i <= l => z[i] = s[i]
        /\ \A i \in 1..n : i > l => z[i] = "CR"
        /\ FindCRLF(z, 0) = -1
    <3>1. 0 \in Nat
      OBVIOUS
    <3> QED
      BY <1>0, <1>1, <3>1, LineOpen
  <2> HIDE DEF z
  <2>3. At(parse, depth)[z] = TryOne(parse, z, depth)
    BY <2>2 DEF At
  <2>4. ASSUME n = 0 PROVE TryOne(parse, z, depth) = More
    <3>1. z = <<>>
      BY <2>2, <2>4, EmptySeq
    <3> QED
      BY <3>1 DEF TryOne
  <2>5. ASSUME n # 0 PROVE TryOne(parse, z, depth) = More
    <3>1. 1 \in 1..n /\ 1 <= l
      BY <1>0, <2>5
    <3>2. z # <<>> /\ z[1] = s[1]
      BY <2>2, <2>5, <3>1, EmptySeq
    <3>3. TryOne(parse, z, depth) = ParseInline(z)
      BY <1>0, <3>2 DEF TryOne
    <3>4. {i \in DOMAIN z : z[i] = "LF"} = {}
      <4>1. DOMAIN z = 1..n
        BY <2>2, LenProperties
      <4>2. ASSUME NEW i \in 1..n PROVE z[i] # "LF"
        <5>1. CASE i <= l
          <6>1. i \in 1..l
            BY <1>0, <5>1
          <6> QED
            BY <1>0, <2>2, <5>1, <6>1
        <5>2. CASE i > l
          BY <2>2, <5>2
        <5> QED
          BY <1>0, <5>1, <5>2
      <4> QED
        BY <4>1, <4>2
    <3>5. ParseInline(z) = More
      <4>1. FindCRLF(z, 0) < 0
        BY <2>2
      <4> QED
        BY <3>4, <4>1 DEF ParseInline
    <3> QED
      BY <3>3, <3>5
  <2>6. At(parse, depth)[z].end = "more"
    BY <2>3, <2>4, <2>5, EndIs
  <2> QED
    BY <2>1, <2>6 DEF z
<1>7. Reads(At(parse, depth), code, <<"line", s>>)
  <2>1. Len(code) - 1 = l + 1
    BY <1>0, <1>2
  <2> QED
    BY <1>2, <1>5, <1>6, <2>1 DEF Reads
<1> QED
  BY <1>7 DEF code

\* An array too deep is refused at its first byte.
LEMMA DeepRejected ==
  ASSUME NEW n \in 0..MaxCount, NEW body \in Seq(Byte), NEW parse, NEW depth, Deep("*", depth)
  PROVE  Rejects(At(parse, depth), Opening("*", n) \o body)
<1> DEFINE x == Tagged("*", <<Digits[n]>>)
           h == x \o CRLF
           code == h \o body
<1>0. /\ n \in -1..MaxCount /\ "*" \in Marks /\ <<Digits[n]>> \in Line /\ Len(<<Digits[n]>>) = 1
      /\ h = Opening("*", n)
  <2>1. n \in -1..MaxCount /\ "*" \in Marks
    BY ParserAssumption DEF Marks
  <2> QED
    BY <2>1, DigitIs, OpeningIs
<1>1. h \in Seq(Byte) /\ Len(h) = 4
  <2>1. h \in Seq(Byte) /\ Len(h) = Len(<<Digits[n]>>) + 3
    BY <1>0, HeadIs
  <2> HIDE DEF h
  <2> QED
    BY <1>0, <2>1
<1>2. code = Ended(x, body)
  BY DEF Ended
<1>3. ASSUME NEW r \in Seq(Byte) PROVE At(parse, depth)[Ended(x, r)] = Error(Ended(x, r))
  BY <1>0, TypedWhole
<1> HIDE DEF h
<1>4. ASSUME NEW t \in Seq(Byte) PROVE At(parse, depth)[code \o t].end = "error"
  <2>1. body \o t \in Seq(Byte)
    BY ConcatIs
  <2>2. code \o t = Ended(x, body \o t)
    <3>1. (h \o body) \o t = h \o (body \o t)
      <4>1. h \in Seq(Byte) /\ body \in Seq(Byte) /\ t \in Seq(Byte)
        BY <1>1
      <4> QED
        BY ONLY <4>1, ConcatAssociative
    <3> QED
      BY <3>1 DEF Ended, h
  <2>3. At(parse, depth)[Ended(x, body \o t)] = Error(Ended(x, body \o t))
    BY <1>3, <2>1
  <2> HIDE DEF x, code
  <2> QED
    BY <2>2, <2>3, EndIs
<1>5. ASSUME NEW k \in 0..(Len(code) - 1)
      PROVE  At(parse, depth)[SubSeq(code, 1, k)].end \in {"more", "error"}
  <2>1. Len(code) = 4 + Len(body) /\ Len(body) \in Nat
    <3>1. Len(h \o body) = Len(h) + Len(body) /\ Len(body) \in Nat
      BY <1>1, ConcatIs
    <3> QED
      BY <1>1, <3>1
  <2>2. CASE k <= 3
    <3>1. k \in 0..(Len(<<Digits[n]>>) + 2)
      BY <1>0, <2>1, <2>2
    <3>2. At(parse, depth)[SubSeq(Ended(x, body), 1, k)].end \in {"more", "error"}
      BY <1>0, <3>1, TypedOpen
    <3> QED
      BY <1>2, <3>2
  <2>3. CASE ~(k <= 3)
    <3> DEFINE r == SubSeq(body, 1, k - 4)
    <3>1. k - 4 \in 0..Len(body) /\ k \in 0..(Len(h) + Len(body)) /\ k >= Len(h) /\ k - Len(h) = k - 4
      BY <1>1, <2>1, <2>3
    <3>2. r \in Seq(Byte)
      BY <3>1, InitialIs
    <3>3. SubSeq(code, 1, k) = Ended(x, r)
      <4>0. h \in Seq(Byte) /\ body \in Seq(Byte)
        BY <1>1
      <4>1. SubSeq(h \o body, 1, k) = h \o SubSeq(body, 1, k - Len(h))
        <5>1. k \in 0..(Len(h) + Len(body)) /\ k >= Len(h)
          BY <3>1
        <5> QED
          BY ONLY <4>0, <5>1, BehindFirst
      <4> QED
        BY <3>1, <4>1 DEF Ended, h
    <3>4. At(parse, depth)[Ended(x, r)] = Error(Ended(x, r))
      BY <1>3, <3>2
    <3> HIDE DEF x, r, code
    <3> QED
      BY <3>3, <3>4, EndIs
  <2> QED
    BY <2>2, <2>3, <2>1
<1> HIDE DEF code
<1>6. Rejects(At(parse, depth), code)
  BY <1>4, <1>5 DEF Rejects
<1> QED
  BY <1>0, <1>6 DEF code

-----------------------------------------------------------------------------
\* Sequences laid end to end.
LEMMA FlattenIs ==
  ASSUME NEW S, NEW E \in Seq(Seq(S))
  PROVE  \E f : /\ \A i \in 1..Len(E) : f[i] = IF i = 1 THEN E[i] ELSE f[i - 1] \o E[i]
                /\ Len(E) > 0 => FlattenSeq(E) = f[Len(E)]
<1> DEFINE N == Len(E)
           IsLoop(n, f) == f = [i \in 1..n |-> IF i = 1 THEN E[i] ELSE f[i - 1] \o E[i]]
           I == {n \in Nat : \E f : IsLoop(n, f)}
<1>1. 0 \in I
  <2>1. IsLoop(0, [i \in 1..0 |-> E[i]])
    OBVIOUS
  <2> QED
    BY <2>1
<1>2. ASSUME NEW n \in Nat, n \in I PROVE n + 1 \in I
  <2>1. PICK f : IsLoop(n, f)
    BY <1>2
  <2> DEFINE g == [i \in 1..(n + 1) |->
                     IF i = n + 1 THEN (IF i = 1 THEN E[i] ELSE f[n] \o E[i]) ELSE f[i]]
             h == [i \in 1..(n + 1) |-> IF i = 1 THEN E[i] ELSE g[i - 1] \o E[i]]
  <2>2. ASSUME NEW i \in 1..(n + 1) PROVE g[i] = h[i]
    <3>1. CASE i = n + 1
      <4>1. CASE i = 1
        BY <3>1, <4>1
      <4>2. CASE i # 1
        <5>1. i - 1 = n /\ n \in 1..(n + 1) /\ n # n + 1
          BY <3>1, <4>2
        <5>2. g[n] = f[n]
          BY <5>1
        <5> QED
          BY <3>1, <4>2, <5>1, <5>2
      <4> QED
        BY <4>1, <4>2
    <3>2. CASE i # n + 1
      <4>1. i \in 1..n
        BY <3>2
      <4>2. f[i] = IF i = 1 THEN E[i] ELSE f[i - 1] \o E[i]
        BY <2>1, <4>1
      <4>3. i # 1 => i - 1 \in 1..(n + 1) /\ i - 1 # n + 1
        BY <4>1
      <4>4. i # 1 => g[i - 1] = f[i - 1]
        BY <4>3
      <4> QED
        BY <3>2, <4>1, <4>2, <4>4
    <3> QED
      BY <3>1, <3>2
  <2>3. g = h
    BY <2>2
  <2>4. IsLoop(n + 1, g)
    BY <2>3
  <2> HIDE DEF g, h, IsLoop
  <2>5. n + 1 \in Nat
    OBVIOUS
  <2> QED
    BY <2>4, <2>5
<1> HIDE DEF I
<1>3. N \in I
  BY <1>1, <1>2, Induction, LenProperties
<1>4. \E f : IsLoop(N, f)
  BY <1>3 DEF I
<1> DEFINE c == CHOOSE f : IsLoop(N, f)
<1>5. IsLoop(N, c)
  <2> HIDE DEF IsLoop
  <2> QED
    BY <1>4
<1>6. N > 0 => FlattenSeq(E) = c[N]
  <2>1. N \in Nat
    BY LenProperties
  <2> QED
    BY <2>1 DEF FlattenSeq
<1> HIDE DEF c
<1>7. \A i \in 1..N : c[i] = IF i = 1 THEN E[i] ELSE c[i - 1] \o E[i]
  BY <1>5
<1> QED
  BY <1>6, <1>7

Upto(E, i) == FlattenSeq(SubSeq(E, 1, i))

LEMMA UptoIs ==
  ASSUME NEW S, NEW E \in Seq(Seq(S))
  PROVE  /\ Upto(E, 0) = <<>> /\ Upto(E, Len(E)) = FlattenSeq(E) /\ Len(E) \in Nat
         /\ \A i \in 0..(Len(E) - 1) : Upto(E, i + 1) = Upto(E, i) \o E[i + 1]
         /\ \A i \in 0..Len(E) : Upto(E, i) \in Seq(S)
         /\ \A i \in 1..Len(E) : E[i] \in Seq(S)
<1> DEFINE N == Len(E)
<1>0. N \in Nat /\ \A i \in 1..N : E[i] \in Seq(S)
  BY LenProperties, ElementOfSeq
<1>1. PICK f : /\ \A i \in 1..N : f[i] = IF i = 1 THEN E[i] ELSE f[i - 1] \o E[i]
               /\ N > 0 => FlattenSeq(E) = f[N]
  BY FlattenIs
<1>2. Upto(E, 0) = <<>>
  <2>1. SubSeq(E, 1, 0) = <<>> /\ Len(<<>>) = 0
    BY SubSeqEmpty
  <2> QED
    BY <2>1 DEF Upto, FlattenSeq
<1>3. ASSUME NEW n \in 1..N PROVE Upto(E, n) = f[n]
  <2> DEFINE D == SubSeq(E, 1, n)
  <2>1. D \in Seq(Seq(S)) /\ Len(D) = n /\ \A i \in 1..n : D[i] = E[i]
    <3>1. n \in 0..Len(E)
      BY <1>0
    <3> QED
      BY <3>1, InitialIs
  <2> HIDE DEF D
  <2>2. PICK g : /\ \A i \in 1..Len(D) : g[i] = IF i = 1 THEN D[i] ELSE g[i - 1] \o D[i]
                 /\ Len(D) > 0 => FlattenSeq(D) = g[Len(D)]
    BY <2>1, FlattenIs
  <2> DEFINE I == {i \in Nat : i \in 1..n => g[i] = f[i]}
  <2>3. 0 \in I
    OBVIOUS
  <2>4. ASSUME NEW i \in Nat, i \in I PROVE i + 1 \in I
    <3> SUFFICES ASSUME i + 1 \in 1..n PROVE g[i + 1] = f[i + 1]
      OBVIOUS
    <3>0. i + 1 \in 1..N /\ i + 1 \in 1..Len(D) /\ (i + 1) - 1 = i /\ n \in 1..N
      BY <1>0, <2>1
    <3>1. f[i + 1] = IF i + 1 = 1 THEN E[i + 1] ELSE f[i] \o E[i + 1]
      BY <1>1, <3>0
    <3>2. g[i + 1] = IF i + 1 = 1 THEN D[i + 1] ELSE g[i] \o D[i + 1]
      BY <2>2, <3>0
    <3>3. i + 1 # 1 => i \in 1..n
      OBVIOUS
    <3>4. i + 1 # 1 => g[i] = f[i]
      BY <2>4, <3>3
    <3>5. D[i + 1] = E[i + 1]
      BY <2>1
    <3> QED
      BY <3>1, <3>2, <3>4, <3>5
  <2> HIDE DEF I
  <2>5. n \in I
    <3>1. n \in Nat
      BY <1>0
    <3>2. Nat \subseteq I
      BY ONLY <2>3, <2>4, Induction
    <3> QED
      BY <3>1, <3>2
  <2>6. g[n] = f[n]
    BY <2>5 DEF I
  <2>7. Len(D) > 0
    BY <1>0, <2>1
  <2> QED
    BY <2>1, <2>2, <2>6, <2>7 DEF Upto, D
<1>4. ASSUME NEW i \in 0..(N - 1), Upto(E, i) \in Seq(S)
      PROVE  Upto(E, i + 1) = Upto(E, i) \o E[i + 1]
  <2>0. i + 1 \in 1..N /\ (i + 1) - 1 = i
    BY <1>0
  <2>1. Upto(E, i + 1) = IF i + 1 = 1 THEN E[i + 1] ELSE f[i] \o E[i + 1]
    BY <1>1, <1>3, <2>0
  <2>2. CASE i = 0
    <3>1. <<>> \o E[i + 1] = E[i + 1]
      BY <1>0, <2>0, ConcatEmptySeq
    <3> QED
      BY <1>2, <2>1, <2>2, <3>1
  <2>3. CASE i # 0
    <3>1. i \in 1..N /\ i + 1 # 1
      BY <1>0, <2>3
    <3>2. Upto(E, i) = f[i]
      BY <1>3, <3>1
    <3> QED
      BY <2>1, <3>1, <3>2
  <2> QED
    BY <2>2, <2>3
<1> DEFINE T == {i \in Nat : i <= N => Upto(E, i) \in Seq(S)}
<1>5. 0 \in T
  BY <1>2, EmptySeq
<1>6. ASSUME NEW i \in Nat, i \in T PROVE i + 1 \in T
  <2> SUFFICES ASSUME i + 1 <= N PROVE Upto(E, i + 1) \in Seq(S)
    OBVIOUS
  <2>1. i \in 0..(N - 1) /\ i + 1 \in 1..N /\ i <= N
    BY <1>0
  <2>2. Upto(E, i) \in Seq(S) /\ E[i + 1] \in Seq(S)
    BY <1>0, <1>6, <2>1
  <2>3. Upto(E, i) \o E[i + 1] \in Seq(S)
    BY <2>2, ConcatProperties
  <2> QED
    BY <1>4, <2>1, <2>2, <2>3
<1> HIDE DEF T
<1>7. Nat \subseteq T
  BY <1>5, <1>6, Induction
<1>8. \A i \in 0..N : Upto(E, i) \in Seq(S)
  BY <1>0, <1>7 DEF T
<1>9. Upto(E, N) = FlattenSeq(E)
  BY SubSeqFull DEF Upto
<1>10. \A i \in 0..(N - 1) : i \in 0..N
  BY <1>0
<1>11. \A i \in 0..(N - 1) : Upto(E, i + 1) = Upto(E, i) \o E[i + 1]
  BY <1>4, <1>8, <1>10
<1> QED
  BY <1>0, <1>2, <1>8, <1>9, <1>11

\* b begins with the first q sequences and the one after them.
Splits(b, E, q) == \E u \in Seq(Byte) : b = Upto(E, q) \o (E[q + 1] \o u)

\* What is laid after the first q of k sequences begins with the next one.
LEMMA SplitAt ==
  ASSUME NEW E \in Seq(Seq(Byte)), NEW k \in 0..Len(E), NEW t \in Seq(Byte), NEW q \in 0..(k - 1)
  PROVE  Splits(Upto(E, k) \o t, E, q)
<1>8. \A x, y, z \in Seq(Byte) : (x \o y) \o z = x \o (y \o z)
  BY Associative
<1> DEFINE N == Len(E)
           Split(j) == \A x \in Seq(Byte) : \E u \in Seq(Byte) :
                         Upto(E, q + 1 + j) \o x = Upto(E, q) \o (E[q + 1] \o u)
           I == {j \in Nat : q + 1 + j <= N => Split(j)}
<1>0. /\ N \in Nat
      /\ \A i \in 0..(N - 1) : Upto(E, i + 1) = Upto(E, i) \o E[i + 1]
      /\ \A i \in 0..N : Upto(E, i) \in Seq(Byte)
      /\ \A i \in 1..N : E[i] \in Seq(Byte)
  BY UptoIs
<1>1. Split(0)
  <2> SUFFICES ASSUME NEW x \in Seq(Byte)
               PROVE  \E u \in Seq(Byte) : Upto(E, q + 1 + 0) \o x = Upto(E, q) \o (E[q + 1] \o u)
    OBVIOUS
  <2>1. q \in 0..(N - 1) /\ q \in 0..N /\ q + 1 \in 1..N /\ q + 1 + 0 = q + 1
    BY <1>0
  <2>2. Upto(E, q) \in Seq(Byte) /\ E[q + 1] \in Seq(Byte) /\ Upto(E, q + 1) = Upto(E, q) \o E[q + 1]
    BY <1>0, <2>1
  <2>3. (Upto(E, q) \o E[q + 1]) \o x = Upto(E, q) \o (E[q + 1] \o x)
    BY <1>8, <2>2
  <2> QED
    BY <2>1, <2>2, <2>3
<1>2. ASSUME NEW j \in Nat, Split(j), q + 1 + (j + 1) <= N PROVE Split(j + 1)
  <2> SUFFICES ASSUME NEW x \in Seq(Byte)
               PROVE  \E u \in Seq(Byte) : Upto(E, q + 1 + (j + 1)) \o x = Upto(E, q) \o (E[q + 1] \o u)
    OBVIOUS
  <2> DEFINE i == q + 1 + j
  <2>1. i \in 0..(N - 1) /\ i \in 0..N /\ i + 1 \in 1..N /\ q + 1 + (j + 1) = i + 1
    BY <1>0, <1>2
  <2>5. \A y \in Seq(Byte) : \E u \in Seq(Byte) : Upto(E, i) \o y = Upto(E, q) \o (E[q + 1] \o u)
    BY <1>2
  <2> HIDE DEF i
  <2>2. Upto(E, i) \in Seq(Byte) /\ E[i + 1] \in Seq(Byte) /\ Upto(E, i + 1) = Upto(E, i) \o E[i + 1]
    BY <1>0, <2>1
  <2>3. (Upto(E, i) \o E[i + 1]) \o x = Upto(E, i) \o (E[i + 1] \o x)
    BY <1>8, <2>2
  <2>4. E[i + 1] \o x \in Seq(Byte)
    BY ONLY <2>2, ConcatProperties, x \in Seq(Byte)
  <2>6. \E u \in Seq(Byte) : Upto(E, i) \o (E[i + 1] \o x) = Upto(E, q) \o (E[q + 1] \o u)
    BY ONLY <2>4, <2>5
  <2> QED
    BY <2>1, <2>2, <2>3, <2>6
<1> HIDE DEF Split
<1>3. 0 \in I
  BY <1>1
<1>4. ASSUME NEW j \in Nat, j \in I PROVE j + 1 \in I
  <2>1. j + 1 \in Nat /\ (q + 1 + (j + 1) <= N => q + 1 + j <= N)
    BY <1>0
  <2> QED
    BY <1>2, <1>4, <2>1
<1> HIDE DEF I
<1>5. Nat \subseteq I
  BY ONLY <1>3, <1>4, Induction
<1>6. k - (q + 1) \in Nat /\ q + 1 + (k - (q + 1)) = k /\ k <= N
  BY <1>0
<1>7. Split(k - (q + 1))
  BY <1>5, <1>6 DEF I
<1> QED
  BY <1>6, <1>7 DEF Split, Splits

-----------------------------------------------------------------------------
\* The loop over the values of a buffer, one more time round.
LEMMA InTurnIs ==
  ASSUME NEW parse, NEW b
  PROVE  /\ InTurn(parse, b, 0) = NoValues
         /\ \A n \in Nat : InTurn(parse, b, n + 1) = OneMore(parse, b, InTurn(parse, b, n))
<1> DEFINE IsLoop(n, f) ==
             f = [i \in 0..n |-> IF i = 0 THEN NoValues ELSE OneMore(parse, b, f[i - 1])]
           I == {n \in Nat : \E f : IsLoop(n, f)}
           c(n) == CHOOSE f : IsLoop(n, f)
<1>1. 0 \in I
  <2> DEFINE f == [i \in 0..0 |-> NoValues]
             g == [i \in 0..0 |-> IF i = 0 THEN NoValues ELSE OneMore(parse, b, f[i - 1])]
  <2>1. \A i \in 0..0 : f[i] = g[i]
    OBVIOUS
  <2>2. IsLoop(0, f)
    BY <2>1
  <2> HIDE DEF IsLoop, f
  <2> QED
    BY <2>2
<1>2. ASSUME NEW n \in Nat, n \in I PROVE n + 1 \in I
  <2>1. PICK f : IsLoop(n, f)
    BY <1>2
  <2> DEFINE step(x) == OneMore(parse, b, x)
             g == [i \in 0..(n + 1) |-> IF i = n + 1 THEN step(f[n]) ELSE f[i]]
             h == [i \in 0..(n + 1) |-> IF i = 0 THEN NoValues ELSE step(g[i - 1])]
  <2>2. f = [i \in 0..n |-> IF i = 0 THEN NoValues ELSE step(f[i - 1])]
    BY <2>1
  <2>3. h = [i \in 0..(n + 1) |-> IF i = 0 THEN NoValues ELSE OneMore(parse, b, g[i - 1])]
    OBVIOUS
  <2> HIDE DEF step
  <2>4. ASSUME NEW i \in 0..(n + 1) PROVE g[i] = h[i]
    <3>1. CASE i = n + 1
      <4>1. i - 1 = n /\ n \in 0..(n + 1) /\ n # n + 1 /\ i # 0
        BY <3>1
      <4> QED
        BY <3>1, <4>1
    <3>2. CASE i # n + 1
      <4>1. i \in 0..n
        BY <3>2
      <4>2. f[i] = IF i = 0 THEN NoValues ELSE step(f[i - 1])
        BY <2>2, <4>1
      <4>3. i # 0 => i - 1 \in 0..(n + 1) /\ i - 1 # n + 1
        BY <4>1
      <4>4. i # 0 => g[i - 1] = f[i - 1]
        BY <4>3
      <4> QED
        BY <3>2, <4>1, <4>2, <4>4
    <3> QED
      BY <3>1, <3>2
  <2>5. g = h
    BY <2>4
  <2> HIDE DEF g, h
  <2>6. IsLoop(n + 1, g)
    BY <2>3, <2>5
  <2>7. n + 1 \in Nat
    OBVIOUS
  <2> HIDE DEF IsLoop
  <2> QED
    BY <2>6, <2>7
<1> HIDE DEF I
<1>3. Nat \subseteq I
  BY ONLY <1>1, <1>2, Induction
<1>4. ASSUME NEW n \in Nat PROVE IsLoop(n, c(n))
  <2>1. \E f : IsLoop(n, f)
    BY <1>3 DEF I
  <2> HIDE DEF IsLoop
  <2> QED
    BY <2>1
<1> HIDE DEF c
<1>5. ASSUME NEW n \in Nat, NEW i \in 0..n
      PROVE  c(n)[i] = IF i = 0 THEN NoValues ELSE OneMore(parse, b, c(n)[i - 1])
  BY <1>4
<1>6. \A n \in Nat : InTurn(parse, b, n) = c(n)[n]
  BY DEF InTurn, c
<1> DEFINE A == {i \in Nat : \A m, n \in Nat : i <= m /\ i <= n => c(m)[i] = c(n)[i]}
<1> HIDE DEF IsLoop
<1>7. 0 \in A
  <2>1. \A n \in Nat : 0 \in 0..n
    OBVIOUS
  <2>2. \A n \in Nat : c(n)[0] = NoValues
    BY <1>5, <2>1
  <2> QED
    BY <2>2
<1>8. ASSUME NEW i \in Nat, i \in A PROVE i + 1 \in A
  <2>1. ASSUME NEW m \in Nat, NEW n \in Nat, i + 1 <= m, i + 1 <= n PROVE c(m)[i + 1] = c(n)[i + 1]
    <3>1. i + 1 \in 0..m /\ i + 1 \in 0..n /\ i + 1 # 0 /\ (i + 1) - 1 = i /\ i <= m /\ i <= n
      BY <2>1
    <3>2. c(m)[i] = c(n)[i]
      BY <1>8, <3>1
    <3>3. c(m)[i + 1] = OneMore(parse, b, c(m)[i]) /\ c(n)[i + 1] = OneMore(parse, b, c(n)[i])
      BY <1>5, <3>1
    <3> QED
      BY <3>2, <3>3
  <2>2. i + 1 \in Nat
    OBVIOUS
  <2> QED
    BY <2>1, <2>2
<1> HIDE DEF A
<1>9. Nat \subseteq A
  BY ONLY <1>7, <1>8, Induction
<1>10. InTurn(parse, b, 0) = NoValues
  <2>1. 0 \in Nat /\ 0 \in 0..0
    OBVIOUS
  <2>2. c(0)[0] = NoValues
    BY <1>5, <2>1
  <2> QED
    BY <1>6, <2>1, <2>2
<1>11. ASSUME NEW n \in Nat
       PROVE  InTurn(parse, b, n + 1) = OneMore(parse, b, InTurn(parse, b, n))
  <2>1. n + 1 \in Nat /\ n + 1 \in 0..(n + 1) /\ n + 1 # 0 /\ (n + 1) - 1 = n /\ n <= n /\ n <= n + 1
    OBVIOUS
  <2>2. c(n + 1)[n + 1] = OneMore(parse, b, c(n + 1)[n])
    BY <1>5, <2>1
  <2>3. c(n + 1)[n] = c(n)[n]
    BY <1>9, <2>1 DEF A
  <2> QED
    BY <1>6, <2>1, <2>2, <2>3
<1> QED
  BY <1>10, <1>11

-----------------------------------------------------------------------------
\* How far the loop is after each value it reads.
LEMMA OneLonger ==
  ASSUME NEW X, NEW V \in Seq(X), NEW i \in 0..(Len(V) - 1)
  PROVE  SubSeq(V, 1, i + 1) = Append(SubSeq(V, 1, i), V[i + 1])
<1> DEFINE p == SubSeq(V, 1, i)
           q == SubSeq(V, 1, i + 1)
           a == Append(p, V[i + 1])
<1>0. Len(V) \in Nat /\ i \in Nat /\ i \in 0..Len(V) /\ i + 1 \in 0..Len(V) /\ i + 1 \in 1..Len(V)
  BY LenProperties
<1>1. V[i + 1] \in X
  BY <1>0, ElementOfSeq
<1>2. p \in Seq(X) /\ Len(p) = i /\ \A j \in 1..i : p[j] = V[j]
  BY <1>0, InitialIs
<1>3. q \in Seq(X) /\ Len(q) = i + 1 /\ \A j \in 1..(i + 1) : q[j] = V[j]
  BY <1>0, InitialIs
<1> HIDE DEF p, q
<1>4. /\ a \in Seq(X) /\ Len(a) = i + 1
      /\ \A j \in 1..i : a[j] = p[j]
      /\ a[i + 1] = V[i + 1]
  BY <1>1, <1>2, AppendProperties
<1> HIDE DEF a
<1>5. \A j \in 1..(i + 1) : a[j] = q[j]
  <2> SUFFICES ASSUME NEW j \in 1..(i + 1) PROVE a[j] = q[j]
    OBVIOUS
  <2>1. j = i + 1 \/ j \in 1..i
    BY <1>0
  <2> QED
    BY <1>2, <1>3, <1>4, <2>1
<1>6. a = q
  BY <1>3, <1>4, <1>5, SeqEqual
<1> QED
  BY <1>6 DEF a, p, q

\* What the loop has after i of the values V, encoded as E.
Turned(E, V, i) ==
  [end |-> "value", values |-> SubSeq(V, 1, i), consumed |-> Len(Upto(E, i)), rest |-> <<>>]

\* A value more at the head of what is left.
LEMMA TurnOf ==
  ASSUME NEW parse, NEW X, NEW E \in Seq(Seq(Byte)), NEW V \in Seq(X), Len(V) = Len(E),
         NEW i \in 0..(Len(E) - 1), NEW b, NEW u \in Seq(Byte),
         b = Upto(E, i) \o (E[i + 1] \o u),
         Reads(parse, E[i + 1], V[i + 1])
  PROVE  OneMore(parse, b, Turned(E, V, i)) = Turned(E, V, i + 1)
<1> DEFINE t == Turned(E, V, i)
           p == Upto(E, i)
           x == E[i + 1]
           e == parse[From(b, t.consumed)]
<1>0. i \in 0..Len(E) /\ i + 1 \in 1..Len(E) /\ i \in 0..(Len(V) - 1) /\ i \in Nat /\ Len(E) \in Nat
  BY LenProperties
<1>1. p \in Seq(Byte) /\ x \in Seq(Byte) /\ Upto(E, i + 1) = p \o x
  BY <1>0, UptoIs
<1>2. t.end = "value" /\ t.values = SubSeq(V, 1, i) /\ t.consumed = Len(p)
  BY DEF Turned
<1> HIDE DEF p, x
<1>3. x \o u \in Seq(Byte) /\ b = p \o (x \o u)
  BY <1>1, ConcatProperties DEF p, x
<1>4. From(b, Len(p)) = x \o u
  BY <1>1, <1>3, FromConcat
<1>5. e = Value(V[i + 1], Len(x))
  BY <1>2, <1>4 DEF Reads, x
<1>6. e.end = "value" /\ e.value = V[i + 1] /\ e.consumed = Len(x)
  BY <1>5, EndIs
<1> HIDE DEF e
<1>7. OneMore(parse, b, t) = [t EXCEPT !.values = Append(@, e.value), !.consumed = @ + e.consumed]
  BY <1>2, <1>6 DEF OneMore, e
<1>8. Append(SubSeq(V, 1, i), V[i + 1]) = SubSeq(V, 1, i + 1)
  BY <1>0, OneLonger
<1>9. Len(Upto(E, i + 1)) = Len(p) + Len(x)
  BY <1>1, ConcatProperties
<1>10. OneMore(parse, b, t) =
         [end |-> "value", values |-> Append(SubSeq(V, 1, i), V[i + 1]),
          consumed |-> Len(p) + Len(x), rest |-> <<>>]
  BY <1>6, <1>7 DEF Turned, p
<1> QED
  BY <1>8, <1>9, <1>10 DEF Turned

\* The values at the head of a buffer, read one after the other.
LEMMA TurnsRead ==
  ASSUME NEW parse, NEW X, NEW E \in Seq(Seq(Byte)), NEW V \in Seq(X), Len(V) = Len(E),
         NEW k \in 0..Len(E), \A i \in 1..k : Reads(parse, E[i], V[i]),
         NEW t \in Seq(Byte)
  PROVE  \A i \in 0..k : InTurn(parse, Upto(E, k) \o t, i) = Turned(E, V, i)
<1>6. ASSUME NEW i \in 0..(k - 1)
      PROVE  \E u \in Seq(Byte) : Upto(E, k) \o t = Upto(E, i) \o (E[i + 1] \o u)
  <2>1. Splits(Upto(E, k) \o t, E, i)
    BY SplitAt
  <2> QED
    BY <2>1 DEF Splits
<1> DEFINE b == Upto(E, k) \o t
           I == {i \in Nat : i \in 0..k => InTurn(parse, b, i) = Turned(E, V, i)}
<1>1. 0 \in I
  <2>1. Upto(E, 0) = <<>> /\ SubSeq(V, 1, 0) = <<>> /\ Len(<<>>) = 0
    BY UptoIs, SubSeqEmpty
  <2>2. Turned(E, V, 0) = NoValues
    BY <2>1 DEF Turned, NoValues
  <2>3. InTurn(parse, b, 0) = NoValues
    BY InTurnIs
  <2> QED
    BY <2>2, <2>3
<1>2. ASSUME NEW i \in Nat, i \in I, i + 1 \in 0..k
      PROVE  InTurn(parse, b, i + 1) = Turned(E, V, i + 1)
  <2>0. i \in 0..k /\ i \in 0..(k - 1) /\ i + 1 \in 1..k /\ i \in 0..(Len(E) - 1)
    BY <1>2, LenProperties
  <2>1. InTurn(parse, b, i) = Turned(E, V, i)
    BY <1>2, <2>0
  <2>2. PICK u \in Seq(Byte) : b = Upto(E, i) \o (E[i + 1] \o u)
    BY <1>6, <2>0
  <2>3. Reads(parse, E[i + 1], V[i + 1])
    BY <2>0
  <2> HIDE DEF b
  <2>4. OneMore(parse, b, Turned(E, V, i)) = Turned(E, V, i + 1)
    BY <2>0, <2>2, <2>3, TurnOf
  <2>5. InTurn(parse, b, i + 1) = OneMore(parse, b, InTurn(parse, b, i))
    BY InTurnIs
  <2> QED
    BY <2>1, <2>4, <2>5
<1>3. ASSUME NEW i \in Nat, i \in I PROVE i + 1 \in I
  BY <1>2, <1>3
<1> HIDE DEF I
<1>4. Nat \subseteq I
  BY ONLY <1>1, <1>3, Induction
<1>5. \A i \in 0..k : i \in Nat
  BY LenProperties
<1> QED
  BY <1>4, <1>5 DEF I

\* It stops at the first that is incomplete or refused.
Stopped(parse, E, V, k, t) ==
  [Turned(E, V, k) EXCEPT !.end = parse[t].end, !.rest = parse[t].rest]

LEMMA TurnsStop ==
  ASSUME NEW parse, NEW X, NEW E \in Seq(Seq(Byte)), NEW V \in Seq(X), Len(V) = Len(E),
         NEW k \in 0..Len(E), \A i \in 1..k : Reads(parse, E[i], V[i]),
         NEW t \in Seq(Byte), parse[t].end # "value"
  PROVE  \A n \in Nat : k < n => InTurn(parse, Upto(E, k) \o t, n) = Stopped(parse, E, V, k, t)
<1> DEFINE b == Upto(E, k) \o t
           s == Stopped(parse, E, V, k, t)
           I == {j \in Nat : InTurn(parse, b, k + 1 + j) = s}
<1>0. k \in Nat /\ k \in 0..k
  BY LenProperties
<1>1. InTurn(parse, b, k) = Turned(E, V, k)
  BY <1>0, TurnsRead
<1>2. Turned(E, V, k).end = "value" /\ Turned(E, V, k).consumed = Len(Upto(E, k))
  BY DEF Turned
<1>3. From(b, Len(Upto(E, k))) = t
  BY UptoIs, FromConcat
<1>4. s.end = parse[t].end
  BY DEF Turned, Stopped
<1>5. OneMore(parse, b, Turned(E, V, k)) = s
  BY <1>2, <1>3 DEF OneMore, Stopped
<1> HIDE DEF b, s
<1>6. InTurn(parse, b, k + 1) = s
  BY <1>0, <1>1, <1>5, InTurnIs
<1>7. OneMore(parse, b, s) = s
  BY <1>4 DEF OneMore
<1>8. 0 \in I
  <2>1. k + 1 + 0 = k + 1
    BY <1>0
  <2> QED
    BY <1>6, <2>1
<1>9. ASSUME NEW j \in Nat, j \in I PROVE j + 1 \in I
  <2>1. k + 1 + j \in Nat /\ k + 1 + (j + 1) = (k + 1 + j) + 1 /\ j + 1 \in Nat
    BY <1>0
  <2>2. InTurn(parse, b, k + 1 + (j + 1)) = OneMore(parse, b, s)
    BY <1>9, <2>1, InTurnIs
  <2> QED
    BY <1>7, <2>1, <2>2
<1> HIDE DEF I
<1>10. Nat \subseteq I
  BY ONLY <1>8, <1>9, Induction
<1>12. ASSUME NEW n \in Nat, k < n PROVE InTurn(parse, b, n) = s
  <2>1. n - (k + 1) \in Nat /\ k + 1 + (n - (k + 1)) = n
    BY <1>0, <1>12
  <2> QED
    BY <1>10, <2>1 DEF I
<1> QED
  BY <1>12 DEF b, s

-----------------------------------------------------------------------------
\* A beginning of two sequences laid end to end.
LEMMA BeyondConcat ==
  ASSUME NEW p \in Seq(Byte), NEW z \in Seq(Byte), NEW m \in 0..Len(z)
  PROVE  SubSeq(p \o z, 1, Len(p) + m) = p \o SubSeq(z, 1, m)
<1> DEFINE r == Len(p) + m
<1>1. Len(p) \in Nat /\ Len(z) \in Nat
  BY LenProperties
<1>2. r \in 0..(Len(p) + Len(z)) /\ r >= Len(p) /\ r - Len(p) = m
  BY <1>1
<1> HIDE DEF r
<1>3. SubSeq(p \o z, 1, r) = p \o SubSeq(z, 1, r - Len(p))
  BY <1>2, FirstOfConcat
<1> QED
  BY <1>2, <1>3 DEF r

\* The part of a concatenation that has arrived ends in one of its sequences.
LEMMA PrefixIs ==
  ASSUME NEW E \in Seq(Seq(Byte)), NEW r \in Nat, r < Len(FlattenSeq(E))
  PROVE  \E w \in 0..(Len(E) - 1) : \E y \in 0..(Len(E[w + 1]) - 1) :
           /\ SubSeq(FlattenSeq(E), 1, r) = Upto(E, w) \o SubSeq(E[w + 1], 1, y)
           /\ r = Len(Upto(E, w)) + y
<1> DEFINE N == Len(E)
           Ends(i) == \E w \in 0..(i - 1) : Len(Upto(E, w)) <= r /\ r < Len(Upto(E, w + 1))
           I == {i \in Nat : i <= N /\ r < Len(Upto(E, i)) => Ends(i)}
<1>0. /\ Upto(E, 0) = <<>> /\ Upto(E, N) = FlattenSeq(E) /\ N \in Nat
      /\ \A i \in 0..(N - 1) : Upto(E, i + 1) = Upto(E, i) \o E[i + 1]
      /\ \A i \in 0..N : Upto(E, i) \in Seq(Byte)
      /\ \A i \in 1..N : E[i] \in Seq(Byte)
  BY UptoIs
<1>1. 0 \in I
  <2>1. Len(Upto(E, 0)) = 0
    <3>1. Len(<<>>) = 0
      OBVIOUS
    <3> QED
      BY <1>0, <3>1
  <2> QED
    BY <2>1
<1>2. ASSUME NEW i \in Nat, i \in I PROVE i + 1 \in I
  <2>0. i + 1 \in Nat
    OBVIOUS
  <2>1. ASSUME i + 1 <= N, r < Len(Upto(E, i + 1)) PROVE Ends(i + 1)
    <3>0. i \in 0..N
      BY <1>0, <2>1
    <3>1. Len(Upto(E, i)) \in Nat
      <4>1. Upto(E, i) \in Seq(Byte)
        BY <1>0, <3>0
      <4> QED
        BY <4>1, LenProperties
    <3>2. CASE r < Len(Upto(E, i))
      <4>1. Ends(i)
        BY <1>2, <3>0, <3>2
      <4>2. PICK w \in 0..(i - 1) : Len(Upto(E, w)) <= r /\ r < Len(Upto(E, w + 1))
        BY <4>1
      <4>3. w \in 0..((i + 1) - 1)
        OBVIOUS
      <4> QED
        BY <4>2, <4>3
    <3>3. CASE ~(r < Len(Upto(E, i)))
      <4>1. Len(Upto(E, i)) <= r
        BY <3>1, <3>3
      <4>2. i \in 0..((i + 1) - 1)
        OBVIOUS
      <4> QED
        BY <2>1, <4>1, <4>2
    <3> QED
      BY <3>2, <3>3
  <2> HIDE DEF Ends
  <2> QED
    BY <2>0, <2>1
<1> HIDE DEF I
<1>3. Nat \subseteq I
  BY ONLY <1>1, <1>2, Induction
<1>4. Ends(N)
  <2>1. N \in I /\ N <= N /\ r < Len(Upto(E, N))
    BY <1>0, <1>3
  <2> HIDE DEF Ends
  <2> QED
    BY <2>1 DEF I
<1>5. PICK w \in 0..(N - 1) : Len(Upto(E, w)) <= r /\ r < Len(Upto(E, w + 1))
  BY <1>4
<1> DEFINE p == Upto(E, w)
           x == E[w + 1]
           y == r - Len(p)
<1>6. w \in 0..N /\ w + 1 \in 1..N
  BY <1>0
<1>7. p \in Seq(Byte) /\ x \in Seq(Byte) /\ Upto(E, w + 1) = p \o x
  BY <1>0, <1>6
<1> HIDE DEF p, x
<1>8. Len(Upto(E, w + 1)) = Len(p) + Len(x) /\ Len(p) \in Nat /\ Len(x) \in Nat
  BY <1>7, ConcatIs
<1>9. y \in 0..(Len(x) - 1) /\ r = Len(p) + y
  BY <1>5, <1>8 DEF p
<1>10. SubSeq(FlattenSeq(E), 1, r) = p \o SubSeq(x, 1, y)
  <2>1. \E u \in Seq(Byte) : FlattenSeq(E) = p \o (x \o u)
    <3>1. Splits(Upto(E, N) \o <<>>, E, w)
      <4>1. N \in 0..Len(E) /\ <<>> \in Seq(Byte) /\ w \in 0..(N - 1)
        BY <1>0, EmptySeq
      <4> QED
        BY <4>1, SplitAt
    <3>2. Upto(E, N) \o <<>> = FlattenSeq(E)
      <4>1. Upto(E, N) \in Seq(Byte)
        BY <1>0
      <4> QED
        BY <1>0, <4>1, ConcatEmptySeq
    <3> QED
      BY <3>1, <3>2 DEF Splits, p, x
  <2>2. PICK u \in Seq(Byte) : FlattenSeq(E) = p \o (x \o u)
    BY <2>1
  <2>3. x \o u \in Seq(Byte) /\ Len(x \o u) = Len(x) + Len(u) /\ Len(u) \in Nat
    BY <1>7, ConcatIs
  <2>4. r \in 0..(Len(p) + Len(x \o u)) /\ r >= Len(p) /\ r - Len(p) = y
    BY <1>8, <1>9, <2>3
  <2>5. SubSeq(p \o (x \o u), 1, r) = p \o SubSeq(x \o u, 1, y)
    <3>1. y \in 0..Len(x \o u)
      BY <1>8, <1>9, <2>3
    <3> HIDE DEF y
    <3> QED
      BY <1>7, <1>9, <2>3, <3>1, BeyondConcat
  <2>6. SubSeq(x \o u, 1, y) = SubSeq(x, 1, y)
    <3>1. y \in 0..(Len(x) + Len(u)) /\ y <= Len(x)
      BY <1>8, <1>9, <2>3
    <3> HIDE DEF y
    <3> QED
      BY <1>7, <3>1, FirstOfConcat
  <2> QED
    BY <2>2, <2>5, <2>6
<1> QED
  BY <1>9, <1>10 DEF p, x

-----------------------------------------------------------------------------
\* The header of an array and its body.
LEMMA ArrayCode ==
  ASSUME NEW n \in 0..MaxCount, NEW body \in Seq(Byte)
  PROVE  LET x == Tagged("*", <<Digits[n]>>)
             code == Opening("*", n) \o body
         IN  /\ code \in Seq(Byte) /\ Len(code) = 4 + Len(body) /\ Len(body) \in Nat
             /\ \A t \in Seq(Byte) : body \o t \in Seq(Byte) /\ code \o t = Ended(x, body \o t)
             /\ \A k \in 0..(Len(code) - 1) :
                  \/ k <= 3 /\ SubSeq(code, 1, k) = SubSeq(Ended(x, body), 1, k)
                  \/ k - 4 \in 0..(Len(body) - 1) /\ SubSeq(code, 1, k) = Ended(x, SubSeq(body, 1, k - 4))
<1> DEFINE x == Tagged("*", <<Digits[n]>>)
           h == x \o CRLF
           code == h \o body
<1>0. /\ n \in -1..MaxCount /\ "*" \in Marks /\ <<Digits[n]>> \in Line /\ Len(<<Digits[n]>>) = 1
      /\ h = Opening("*", n)
  <2>1. n \in -1..MaxCount /\ "*" \in Marks
    BY ParserAssumption DEF Marks
  <2> QED
    BY <2>1, DigitIs, OpeningIs
<1>1. h \in Seq(Byte) /\ Len(h) = 4
  <2>1. h \in Seq(Byte) /\ Len(h) = Len(<<Digits[n]>>) + 3
    BY <1>0, HeadIs
  <2> HIDE DEF h
  <2> QED
    BY <1>0, <2>1
<1>2. code = Ended(x, body)
  BY DEF Ended
<1> HIDE DEF h
<1>3. h \o body \in Seq(Byte) /\ Len(h \o body) = 4 + Len(body) /\ Len(body) \in Nat
  <2>1. h \o body \in Seq(Byte) /\ Len(h \o body) = Len(h) + Len(body) /\ Len(body) \in Nat
    BY <1>1, ConcatIs
  <2> QED
    BY <1>1, <2>1
<1>4. ASSUME NEW t \in Seq(Byte) PROVE body \o t \in Seq(Byte) /\ code \o t = Ended(x, body \o t)
  <2>1. body \o t \in Seq(Byte)
    BY ConcatIs
  <2>2. (h \o body) \o t = h \o (body \o t)
    <3>1. h \in Seq(Byte) /\ body \in Seq(Byte) /\ t \in Seq(Byte)
      BY <1>1
    <3> QED
      BY ONLY <3>1, ConcatAssociative
  <2> QED
    BY <2>1, <2>2 DEF Ended, h
<1>5. ASSUME NEW k \in 0..(Len(code) - 1)
      PROVE  \/ k <= 3 /\ SubSeq(code, 1, k) = SubSeq(Ended(x, body), 1, k)
             \/ k - 4 \in 0..(Len(body) - 1) /\ SubSeq(code, 1, k) = Ended(x, SubSeq(body, 1, k - 4))
  <2>1. CASE k <= 3
    BY <1>2, <2>1
  <2>2. CASE ~(k <= 3)
    <3> DEFINE m == k - 4
    <3>1. m \in 0..(Len(body) - 1) /\ m \in 0..Len(body) /\ k = 4 + m
      BY <1>3, <2>2
    <3> HIDE DEF m
    <3>2. SubSeq(h \o body, 1, Len(h) + m) = h \o SubSeq(body, 1, m)
      BY <1>1, <3>1, BeyondConcat
    <3>3. SubSeq(h \o body, 1, k) = h \o SubSeq(body, 1, m)
      BY <1>1, <3>1, <3>2
    <3> QED
      BY <3>1, <3>3 DEF m, Ended, h
  <2> QED
    BY <2>1, <2>2
<1> HIDE DEF x
<1> QED
  BY <1>0, <1>3, <1>4, <1>5 DEF x

\* What _parseArray makes of its elements.
Elements(el) == CASE el.end = "more" -> More
                  [] el.end = "error" -> Error(el.rest)
                  [] el.end = "value" -> Value(<<"array", el.values>>, 4 + el.consumed)

LEMMA ArrayIs ==
  ASSUME NEW n \in 0..MaxCount, NEW r \in Seq(Byte), NEW parse, NEW depth, ~Deep("*", depth)
  PROVE  At(parse, depth)[Ended(Tagged("*", <<Digits[n]>>), r)] = Elements(InTurn(parse, r, n))
<1> DEFINE f == <<Digits[n]>>
           b == Ended(Tagged("*", f), r)
<1>0. n \in -1..MaxCount /\ n \in Nat /\ MaxCount \in Nat
  BY ParserAssumption
<1>1. "*" \in Marks /\ Len(f) = 1 /\ f \in Line
  BY <1>0, DigitIs DEF Marks
<1> HIDE DEF f
<1>2. /\ b \in Seq(Byte) /\ b[1] = "*"
      /\ LengthField(b, Len(f) + 1) = f /\ From(b, Len(f) + 3) = r
  BY <1>1, TypedIs
<1>3. At(parse, depth)[b] = ParseTyped(parse, b, Len(f) + 1)
  BY <1>1, TypedWhole
<1> HIDE DEF b
<1>4. Number(b, 2).ok = TRUE /\ Number(b, 2).n = n
  <2>1. Number(b, 2) = [ok |-> TRUE, n |-> n]
    <3>1. LengthField(b, 2) = <<Digits[n]>>
      BY <1>1, <1>2 DEF f
    <3> QED
      BY <1>0, <3>1, NumberIs
  <2> QED
    BY <2>1
<1>5. ParseTyped(parse, b, Len(f) + 1) = ParseArray(parse, b, 2)
  <2>1. b[1] \notin {"+", "-"} /\ b[1] # ":" /\ b[1] # "$" /\ b[1] = "*" /\ Len(f) + 1 = 2
    BY <1>1, <1>2
  <2> QED
    BY <2>1 DEF ParseTyped
<1>6. From(b, 2 + 2) = r
  <2>1. Len(f) + 3 = 2 + 2
    BY <1>1
  <2> QED
    BY <1>2, <2>1
<1>7. ParseArray(parse, b, 2) = Elements(InTurn(parse, r, n))
  <2> DEFINE el == InTurn(parse, r, n)
  <2>1. n # -1 /\ n >= 0 /\ 2 + 2 = 4
    BY <1>0
  <2>2. InTurn(parse, From(b, 2 + 2), Number(b, 2).n) = el
    BY <1>4, <1>6
  <2> HIDE DEF el
  <2>3. ParseArray(parse, b, 2) =
          CASE el.end = "more" -> More
            [] el.end = "error" -> Error(el.rest)
            [] el.end = "value" -> Value(<<"array", el.values>>, 2 + 2 + el.consumed)
    BY <1>4, <2>1, <2>2 DEF ParseArray
  <2> QED
    BY <2>1, <2>3 DEF Elements, el
<1> QED
  BY <1>3, <1>5, <1>7 DEF b, f

LEMMA ElementsIs ==
  ASSUME NEW el
  PROVE  /\ el.end = "more" => Elements(el).end = "more"
         /\ el.end = "error" => Elements(el).end = "error"
         /\ el.end = "value" => Elements(el) = Value(<<"array", el.values>>, 4 + el.consumed)
BY EndIs DEF Elements

-----------------------------------------------------------------------------
\* The loop ends as the first value that is not read.
LEMMA TurnsEnd ==
  ASSUME NEW parse, NEW X, NEW E \in Seq(Seq(Byte)), NEW V \in Seq(X), Len(V) = Len(E),
         NEW k \in 0..(Len(E) - 1), \A i \in 1..k : Reads(parse, E[i], V[i]),
         NEW t \in Seq(Byte), parse[t].end # "value"
  PROVE  InTurn(parse, Upto(E, k) \o t, Len(E)).end = parse[t].end
<1> DEFINE s == Stopped(parse, E, V, k, t)
<1>0. Len(E) \in Nat /\ k < Len(E) /\ k \in 0..Len(E)
  BY LenProperties
<1>1. InTurn(parse, Upto(E, k) \o t, Len(E)) = s
  <2>1. \A n \in Nat : k < n => InTurn(parse, Upto(E, k) \o t, n) = s
    BY <1>0, TurnsStop
  <2> QED
    BY <1>0, <2>1
<1>2. s.end = parse[t].end
  BY DEF Turned, Stopped
<1> QED
  BY <1>1, <1>2

\* k of the values are read, and the next one, if there is one, is refused.
ReadsSome(parse, E, V, k) ==
  /\ \A i \in 1..k : Reads(parse, E[i], V[i])
  /\ k = Len(E) \/ Rejects(parse, E[k + 1])

\* The whole of what is refused.
LEMMA TurnsReject ==
  ASSUME NEW parse, NEW X, NEW E \in Seq(Seq(Byte)), NEW V \in Seq(X), Len(V) = Len(E),
         NEW k \in 0..(Len(E) - 1), ReadsSome(parse, E, V, k),
         NEW w \in (k + 1)..Len(E), NEW t \in Seq(Byte)
  PROVE  InTurn(parse, Upto(E, w) \o t, Len(E)).end = "error"
<1>0. Len(E) \in Nat /\ w \in 0..Len(E) /\ k \in 0..(w - 1) /\ k + 1 \in 1..Len(E) /\ k # Len(E)
  BY LenProperties
<1>1. E[k + 1] \in Seq(Byte)
  BY <1>0, UptoIs
<1>2. Splits(Upto(E, w) \o t, E, k)
  BY <1>0, SplitAt
<1>3. PICK u \in Seq(Byte) : Upto(E, w) \o t = Upto(E, k) \o (E[k + 1] \o u)
  BY <1>2 DEF Splits
<1> DEFINE z == E[k + 1] \o u
<1>4. z \in Seq(Byte)
  BY <1>1, ConcatIs
<1>5. parse[z].end = "error"
  BY <1>0 DEF ReadsSome, Rejects
<1> HIDE DEF z
<1>6. \A i \in 1..k : Reads(parse, E[i], V[i])
  BY DEF ReadsSome
<1>7. parse[z].end # "value"
  BY <1>5
<1>8. InTurn(parse, Upto(E, k) \o z, Len(E)).end = parse[z].end
  BY <1>4, <1>6, <1>7, TurnsEnd
<1> QED
  BY <1>3, <1>5, <1>8 DEF z

\* A part of it.
LEMMA TurnsWait ==
  ASSUME NEW parse, NEW X, NEW E \in Seq(Seq(Byte)), NEW V \in Seq(X), Len(V) = Len(E),
         NEW k \in 0..Len(E), ReadsSome(parse, E, V, k),
         NEW r \in 0..(Len(FlattenSeq(E)) - 1)
  PROVE  /\ InTurn(parse, SubSeq(FlattenSeq(E), 1, r), Len(E)).end \in {"more", "error"}
         /\ k < Len(E) \/ InTurn(parse, SubSeq(FlattenSeq(E), 1, r), Len(E)).end = "more"
<1> DEFINE N == Len(E)
           all == InTurn(parse, SubSeq(FlattenSeq(E), 1, r), Len(E))
<1>0. N \in Nat /\ k \in Nat /\ r \in Nat /\ FlattenSeq(E) \in Seq(Byte) /\ r < Len(FlattenSeq(E))
  <2>1. N \in Nat /\ N \in 0..N /\ Upto(E, N) = FlattenSeq(E) /\ \A i \in 0..N : Upto(E, i) \in Seq(Byte)
    <3>1. N \in Nat
      BY LenProperties
    <3> QED
      BY <3>1, UptoIs
  <2>2. FlattenSeq(E) \in Seq(Byte)
    BY <2>1
  <2>3. Len(FlattenSeq(E)) \in Nat
    BY <2>2, LenProperties
  <2> QED
    BY <2>1, <2>2, <2>3
<1>10. PICK w \in 0..(N - 1) : \E y \in 0..(Len(E[w + 1]) - 1) :
           SubSeq(FlattenSeq(E), 1, r) = Upto(E, w) \o SubSeq(E[w + 1], 1, y)
  BY <1>0, PrefixIs
<1>1. PICK y \in 0..(Len(E[w + 1]) - 1) :
           SubSeq(FlattenSeq(E), 1, r) = Upto(E, w) \o SubSeq(E[w + 1], 1, y)
  BY <1>10
<1> DEFINE t == SubSeq(E[w + 1], 1, y)
<1>2. w + 1 \in 1..N /\ w \in 0..N /\ w \in Nat
  BY <1>0
<1>3. t \in Seq(Byte)
  <2>1. E[w + 1] \in Seq(Byte)
    BY <1>2, UptoIs
  <2>2. y \in 0..Len(E[w + 1])
    BY <2>1, LenProperties
  <2> QED
    BY <2>1, <2>2, InitialIs
<1>4. /\ w + 1 \in 1..k => parse[t].end = "more"
      /\ w = k => parse[t].end \in {"more", "error"}
  <2>1. ASSUME w + 1 \in 1..k PROVE parse[t].end = "more"
    <3>1. Reads(parse, E[w + 1], V[w + 1])
      BY <2>1 DEF ReadsSome
    <3> QED
      BY <3>1 DEF Reads
  <2>2. ASSUME w = k PROVE parse[t].end \in {"more", "error"}
    <3>1. Rejects(parse, E[w + 1])
      BY <1>0, <1>2, <2>2 DEF ReadsSome
    <3> QED
      BY <3>1 DEF Rejects
  <2> QED
    BY <2>1, <2>2
<1> HIDE DEF t
<1>5. all = InTurn(parse, Upto(E, w) \o t, N)
  BY <1>1 DEF t
<1> HIDE DEF all
<1>6. ASSUME w <= k, parse[t].end # "value" PROVE all.end = parse[t].end
  <2>1. \A i \in 1..w : Reads(parse, E[i], V[i])
    <3>1. \A i \in 1..w : i \in 1..k
      BY <1>0, <1>2, <1>6
    <3> QED
      BY <3>1 DEF ReadsSome
  <2>2. InTurn(parse, Upto(E, w) \o t, N).end = parse[t].end
    BY <1>3, <1>6, <2>1, TurnsEnd
  <2> QED
    BY <1>5, <2>2
<1>7. CASE w < k
  <2>1. w + 1 \in 1..k /\ w <= k
    BY <1>0, <1>2, <1>7
  <2>2. parse[t].end = "more"
    BY <1>4, <2>1
  <2>3. all.end = "more"
    BY <1>6, <2>1, <2>2
  <2> QED
    BY <2>3 DEF all
<1>8. CASE w = k
  <2>1. k < N /\ w <= k
    BY <1>0, <1>2, <1>8
  <2>2. parse[t].end \in {"more", "error"}
    BY <1>4, <1>8
  <2>3. parse[t].end # "value"
    BY <2>2
  <2>4. all.end \in {"more", "error"}
    BY <1>6, <2>1, <2>2, <2>3
  <2> QED
    BY <2>1, <2>4 DEF all
<1>9. CASE k < w
  <2>1. k \in 0..(N - 1) /\ w \in (k + 1)..N /\ k < N
    BY <1>0, <1>2, <1>9
  <2>2. InTurn(parse, Upto(E, w) \o t, N).end = "error"
    BY <1>3, <2>1, TurnsReject
  <2> QED
    BY <1>5, <2>1, <2>2 DEF all
<1> QED
  BY <1>0, <1>2, <1>7, <1>8, <1>9

-----------------------------------------------------------------------------
\* The code of an array, over the codes of its elements.
ArrayOf(E) == Opening("*", Len(E)) \o FlattenSeq(E)

LEMMA FlatIs ==
  ASSUME NEW E \in Seq(Seq(Byte))
  PROVE  /\ FlattenSeq(E) \in Seq(Byte) /\ Len(FlattenSeq(E)) \in Nat /\ Len(E) \in Nat
         /\ Upto(E, Len(E)) = FlattenSeq(E)
<1>1. Len(E) \in Nat /\ Len(E) \in 0..Len(E)
  BY LenProperties
<1>2. Upto(E, Len(E)) = FlattenSeq(E) /\ \A i \in 0..Len(E) : Upto(E, i) \in Seq(Byte)
  BY UptoIs
<1>3. FlattenSeq(E) \in Seq(Byte)
  BY <1>1, <1>2
<1>4. Len(FlattenSeq(E)) \in Nat
  BY <1>3, LenProperties
<1> QED
  BY <1>1, <1>2, <1>3, <1>4

\* An array some of whose elements are read is not returned before it is whole.
LEMMA ArrayWaits ==
  ASSUME NEW parse, NEW depth, ~Deep("*", depth),
         NEW X, NEW E \in Seq(Seq(Byte)), NEW V \in Seq(X), Len(V) = Len(E), Len(E) <= MaxCount,
         NEW k \in 0..Len(E), ReadsSome(parse, E, V, k),
         NEW m \in 0..(Len(ArrayOf(E)) - 1)
  PROVE  /\ At(parse, depth)[SubSeq(ArrayOf(E), 1, m)].end \in {"more", "error"}
         /\ k < Len(E) \/ At(parse, depth)[SubSeq(ArrayOf(E), 1, m)].end = "more"
<1> DEFINE F == FlattenSeq(E)
           x == Tagged("*", <<Digits[Len(E)]>>)
           code == Opening("*", Len(E)) \o F
<1>0. /\ F \in Seq(Byte) /\ Len(E) \in Nat /\ Len(E) \in 0..MaxCount /\ MaxCount \in Nat
      /\ "*" \in Marks /\ code = ArrayOf(E)
  BY FlatIs, ParserAssumption DEF Marks, ArrayOf
<1>1. <<Digits[Len(E)]>> \in Line /\ Len(<<Digits[Len(E)]>>) = 1
  BY <1>0, DigitIs
<1> HIDE DEF F
<1>2. \/ m <= 3 /\ SubSeq(code, 1, m) = SubSeq(Ended(x, F), 1, m)
      \/ m - 4 \in 0..(Len(F) - 1) /\ SubSeq(code, 1, m) = Ended(x, SubSeq(F, 1, m - 4))
  <2>1. m \in 0..(Len(code) - 1)
    BY <1>0
  <2> QED
    BY <1>0, <2>1, ArrayCode
<1>3. CASE m <= 3 /\ SubSeq(code, 1, m) = SubSeq(Ended(x, F), 1, m)
  <2>1. m \in 0..(Len(<<Digits[Len(E)]>>) + 2)
    BY <1>1, <1>3
  <2>2. At(parse, depth)[SubSeq(Ended(x, F), 1, m)].end = "more"
    BY <1>0, <1>1, <2>1, TypedWaits
  <2> QED
    BY <1>0, <1>3, <2>2
<1>4. CASE m - 4 \in 0..(Len(F) - 1) /\ SubSeq(code, 1, m) = Ended(x, SubSeq(F, 1, m - 4))
  <2> DEFINE r == m - 4
             part == SubSeq(F, 1, r)
             el == InTurn(parse, part, Len(E))
  <2>0. r \in 0..(Len(F) - 1)
    BY <1>4
  <2> HIDE DEF r
  <2>1. part \in Seq(Byte)
    <3>1. r \in 0..Len(F)
      BY <2>0, <1>0, LenProperties
    <3> QED
      BY <1>0, <3>1, InitialIs
  <2>2. el.end \in {"more", "error"} /\ (k < Len(E) \/ el.end = "more")
    BY <2>0, TurnsWait DEF F
  <2> HIDE DEF el, part
  <2>3. At(parse, depth)[Ended(x, part)] = Elements(el)
    BY <1>0, <2>1, ArrayIs DEF el
  <2>4. At(parse, depth)[SubSeq(code, 1, m)] = Elements(el)
    BY <1>4, <2>3 DEF part, r
  <2> HIDE DEF code
  <2>5. Elements(el).end = el.end
    <3>1. (el.end = "more" => Elements(el).end = "more") /\ (el.end = "error" => Elements(el).end = "error")
      BY ONLY ElementsIs
    <3> QED
      BY <2>2, <3>1
  <2> QED
    BY <1>0, <2>2, <2>4, <2>5
<1> QED
  BY <1>2, <1>3, <1>4

\* It is refused if one of its elements is,
LEMMA ArrayRejected ==
  ASSUME NEW parse, NEW depth, ~Deep("*", depth),
         NEW X, NEW E \in Seq(Seq(Byte)), NEW V \in Seq(X), Len(V) = Len(E), Len(E) <= MaxCount,
         NEW k \in 0..(Len(E) - 1), ReadsSome(parse, E, V, k)
  PROVE  Rejects(At(parse, depth), ArrayOf(E))
<1> DEFINE F == FlattenSeq(E)
           x == Tagged("*", <<Digits[Len(E)]>>)
           code == Opening("*", Len(E)) \o F
<1>0. /\ F \in Seq(Byte) /\ Len(E) \in Nat /\ Len(E) \in 0..MaxCount
      /\ Upto(E, Len(E)) = F /\ code = ArrayOf(E)
      /\ k \in 0..Len(E) /\ Len(E) \in (k + 1)..Len(E)
  BY FlatIs, ParserAssumption DEF ArrayOf
<1> HIDE DEF F
<1>1. ASSUME NEW t \in Seq(Byte) PROVE At(parse, depth)[code \o t].end = "error"
  <2> DEFINE el == InTurn(parse, F \o t, Len(E))
  <2>1. F \o t \in Seq(Byte) /\ code \o t = Ended(x, F \o t)
    BY <1>0, ArrayCode
  <2>2. el.end = "error"
    <3>1. InTurn(parse, Upto(E, Len(E)) \o t, Len(E)).end = "error"
      BY <1>0, TurnsReject
    <3> QED
      BY <1>0, <3>1
  <2> HIDE DEF el
  <2>3. At(parse, depth)[Ended(x, F \o t)] = Elements(el)
    BY <1>0, <2>1, ArrayIs DEF el
  <2>4. Elements(el).end = "error"
    BY <2>2, ElementsIs
  <2> QED
    BY <2>1, <2>3, <2>4
<1>2. ASSUME NEW m \in 0..(Len(code) - 1)
      PROVE  At(parse, depth)[SubSeq(code, 1, m)].end \in {"more", "error"}
  <2>1. m \in 0..(Len(ArrayOf(E)) - 1)
    BY <1>0
  <2>2. At(parse, depth)[SubSeq(ArrayOf(E), 1, m)].end \in {"more", "error"}
    BY <1>0, <2>1, ArrayWaits
  <2> QED
    BY <1>0, <2>2
<1> HIDE DEF code
<1>3. Rejects(At(parse, depth), code)
  BY <1>1, <1>2 DEF Rejects
<1> QED
  BY <1>0, <1>3

\* and read if they all are.
LEMMA ArrayRead ==
  ASSUME NEW parse, NEW depth, ~Deep("*", depth),
         NEW X, NEW E \in Seq(Seq(Byte)), NEW V \in Seq(X), Len(V) = Len(E), Len(E) <= MaxCount,
         \A i \in 1..Len(E) : Reads(parse, E[i], V[i])
  PROVE  Reads(At(parse, depth), ArrayOf(E), <<"array", V>>)
<1> DEFINE F == FlattenSeq(E)
           x == Tagged("*", <<Digits[Len(E)]>>)
           code == Opening("*", Len(E)) \o F
<1>0. /\ F \in Seq(Byte) /\ Len(E) \in Nat /\ Len(E) \in 0..MaxCount
      /\ Upto(E, Len(E)) = F /\ code = ArrayOf(E) /\ Len(E) \in 0..Len(E)
      /\ ReadsSome(parse, E, V, Len(E))
  BY FlatIs, ParserAssumption DEF ArrayOf, ReadsSome
<1> HIDE DEF F
<1>4. Len(code) = 4 + Len(F)
  BY <1>0, ArrayCode
<1>1. ASSUME NEW t \in Seq(Byte) PROVE At(parse, depth)[code \o t] = Value(<<"array", V>>, Len(code))
  <2> DEFINE el == InTurn(parse, F \o t, Len(E))
  <2>1. F \o t \in Seq(Byte) /\ code \o t = Ended(x, F \o t)
    BY <1>0, ArrayCode
  <2>2. el = Turned(E, V, Len(E))
    <3>1. InTurn(parse, Upto(E, Len(E)) \o t, Len(E)) = Turned(E, V, Len(E))
      <4>1. \A i \in 0..Len(E) : InTurn(parse, Upto(E, Len(E)) \o t, i) = Turned(E, V, i)
        <5>1. /\ Len(V) = Len(E) /\ Len(E) \in 0..Len(E)
              /\ \A i \in 1..Len(E) : Reads(parse, E[i], V[i])
          BY <1>0
        <5> QED
          BY <5>1, TurnsRead
      <4> QED
        BY <1>0, <4>1
    <3> QED
      BY <1>0, <3>1
  <2> HIDE DEF el
  <2>3. At(parse, depth)[Ended(x, F \o t)] = Elements(el)
    BY <1>0, <2>1, ArrayIs DEF el
  <2>4. SubSeq(V, 1, Len(E)) = V
    BY SubSeqFull
  <2>5. el.end = "value" /\ el.values = V /\ el.consumed = Len(F)
    BY <1>0, <2>2, <2>4 DEF Turned
  <2>6. Elements(el) = Value(<<"array", V>>, 4 + Len(F))
    BY <2>5, ElementsIs
  <2> HIDE DEF code
  <2> QED
    BY <1>4, <2>1, <2>3, <2>6
<1>2. ASSUME NEW m \in 0..(Len(code) - 1) PROVE At(parse, depth)[SubSeq(code, 1, m)].end = "more"
  <2> PICK k : k = Len(E)
    OBVIOUS
  <2>1. m \in 0..(Len(ArrayOf(E)) - 1) /\ ~(k < Len(E)) /\ k \in 0..Len(E) /\ ReadsSome(parse, E, V, k)
    BY <1>0
  <2>2. \/ k < Len(E)
        \/ At(parse, depth)[SubSeq(ArrayOf(E), 1, m)].end = "more"
    BY <2>1, ArrayWaits
  <2> QED
    BY <1>0, <2>1, <2>2
<1> HIDE DEF code
<1>3. Reads(At(parse, depth), code, <<"array", V>>)
  BY <1>1, <1>2 DEF Reads
<1> QED
  BY <1>0, <1>3

-----------------------------------------------------------------------------
\* The values of one level more.
Arrays(values) == {"array"} \X {s \in Seq(values) : Len(s) <= MaxCount}

LEMMA NestedIs ==
  ASSUME NEW values
  PROVE  /\ Nested(values, 0) = values
         /\ \A n \in Nat : Nested(values, n + 1) = values \cup Arrays(Nested(values, n))
<1> DEFINE IsLoop(n, f) ==
             f = [i \in 0..n |-> IF i = 0 THEN values ELSE values \cup Arrays(f[i - 1])]
           I == {n \in Nat : \E f : IsLoop(n, f)}
           c(n) == CHOOSE f : IsLoop(n, f)
<1>1. 0 \in I
  <2> DEFINE f == [i \in 0..0 |-> values]
             g == [i \in 0..0 |-> IF i = 0 THEN values ELSE values \cup Arrays(f[i - 1])]
  <2>1. \A i \in 0..0 : f[i] = g[i]
    OBVIOUS
  <2>2. IsLoop(0, f)
    BY <2>1
  <2> HIDE DEF IsLoop, f
  <2> QED
    BY <2>2
<1>2. ASSUME NEW n \in Nat, n \in I PROVE n + 1 \in I
  <2>1. PICK f : IsLoop(n, f)
    BY <1>2
  <2> DEFINE step(x) == values \cup Arrays(x)
             g == [i \in 0..(n + 1) |-> IF i = n + 1 THEN step(f[n]) ELSE f[i]]
             h == [i \in 0..(n + 1) |-> IF i = 0 THEN values ELSE step(g[i - 1])]
  <2>2. f = [i \in 0..n |-> IF i = 0 THEN values ELSE step(f[i - 1])]
    BY <2>1
  <2>3. h = [i \in 0..(n + 1) |-> IF i = 0 THEN values ELSE values \cup Arrays(g[i - 1])]
    OBVIOUS
  <2> HIDE DEF step
  <2>4. ASSUME NEW i \in 0..(n + 1) PROVE g[i] = h[i]
    <3>1. CASE i = n + 1
      <4>1. i - 1 = n /\ n \in 0..(n + 1) /\ n # n + 1 /\ i # 0
        BY <3>1
      <4> QED
        BY <3>1, <4>1
    <3>2. CASE i # n + 1
      <4>1. i \in 0..n
        BY <3>2
      <4>2. f[i] = IF i = 0 THEN values ELSE step(f[i - 1])
        BY <2>2, <4>1
      <4>3. i # 0 => i - 1 \in 0..(n + 1) /\ i - 1 # n + 1
        BY <4>1
      <4>4. i # 0 => g[i - 1] = f[i - 1]
        BY <4>3
      <4> QED
        BY <3>2, <4>1, <4>2, <4>4
    <3> QED
      BY <3>1, <3>2
  <2>5. g = h
    BY <2>4
  <2> HIDE DEF g, h
  <2>6. IsLoop(n + 1, g)
    BY <2>3, <2>5
  <2>7. n + 1 \in Nat
    OBVIOUS
  <2> HIDE DEF IsLoop
  <2> QED
    BY <2>6, <2>7
<1> HIDE DEF I
<1>3. Nat \subseteq I
  BY ONLY <1>1, <1>2, Induction
<1>4. ASSUME NEW n \in Nat PROVE IsLoop(n, c(n))
  <2>1. \E f : IsLoop(n, f)
    BY <1>3 DEF I
  <2> HIDE DEF IsLoop
  <2> QED
    BY <2>1
<1>6. \A n \in Nat : Nested(values, n) = c(n)[n]
  BY DEF Nested, Arrays
<1> HIDE DEF c
<1>5. ASSUME NEW n \in Nat, NEW i \in 0..n
      PROVE  c(n)[i] = IF i = 0 THEN values ELSE values \cup Arrays(c(n)[i - 1])
  BY <1>4
<1> DEFINE A == {i \in Nat : \A m, n \in Nat : i <= m /\ i <= n => c(m)[i] = c(n)[i]}
<1> HIDE DEF IsLoop
<1>7. 0 \in A
  <2>1. \A n \in Nat : 0 \in 0..n
    OBVIOUS
  <2>2. \A n \in Nat : c(n)[0] = values
    BY <1>5, <2>1
  <2> QED
    BY <2>2
<1>8. ASSUME NEW i \in Nat, i \in A PROVE i + 1 \in A
  <2>1. ASSUME NEW m \in Nat, NEW n \in Nat, i + 1 <= m, i + 1 <= n PROVE c(m)[i + 1] = c(n)[i + 1]
    <3>1. i + 1 \in 0..m /\ i + 1 \in 0..n /\ i + 1 # 0 /\ (i + 1) - 1 = i /\ i <= m /\ i <= n
      BY <2>1
    <3>2. c(m)[i] = c(n)[i]
      BY <1>8, <3>1
    <3>3. c(m)[i + 1] = values \cup Arrays(c(m)[i]) /\ c(n)[i + 1] = values \cup Arrays(c(n)[i])
      BY <1>5, <3>1
    <3> QED
      BY <3>2, <3>3
  <2>2. i + 1 \in Nat
    OBVIOUS
  <2> QED
    BY <2>1, <2>2
<1> HIDE DEF A
<1>9. Nat \subseteq A
  BY ONLY <1>7, <1>8, Induction
<1>10. Nested(values, 0) = values
  <2>1. 0 \in Nat /\ 0 \in 0..0
    OBVIOUS
  <2>2. c(0)[0] = values
    BY <1>5, <2>1
  <2> QED
    BY <1>6, <2>1, <2>2
<1>11. ASSUME NEW n \in Nat
       PROVE  Nested(values, n + 1) = values \cup Arrays(Nested(values, n))
  <2>1. n + 1 \in Nat /\ n + 1 \in 0..(n + 1) /\ n + 1 # 0 /\ (n + 1) - 1 = n /\ n <= n /\ n <= n + 1
    OBVIOUS
  <2>2. c(n + 1)[n + 1] = values \cup Arrays(c(n + 1)[n])
    BY <1>5, <2>1
  <2>3. c(n + 1)[n] = c(n)[n]
    BY <1>9, <2>1 DEF A
  <2> QED
    BY <1>6, <2>1, <2>2, <2>3
<1> QED
  BY <1>10, <1>11

\* The values that hold no others.
Leaf == Plain \cup Broken

LEMMA LeafIs ==
  /\ \A m \in Leaf : m[1] # "array"
  /\ \A m \in Broken : m \notin Plain
BY DEF Leaf, Plain, Broken

\* A value that is written or read without a look at what is below.
LEMMA LeafCode ==
  ASSUME NEW m \in Leaf, NEW e, NEW f
  PROVE  Code(e, m) = Code(f, m)
BY LeafIs DEF Code

LEMMA DeepestIs ==
  ASSUME NEW p, NEW q
  PROVE  At(p, MaxNesting + 1) = At(q, MaxNesting + 1)
<1>1. MaxNesting + 1 > MaxNesting
  BY ParserAssumption
<1>2. ASSUME NEW b \in Seq(Byte) PROVE TryOne(p, b, MaxNesting + 1) = TryOne(q, b, MaxNesting + 1)
  <2>1. ASSUME b[1] # "*", b[1] \in Marks
        PROVE ParseTyped(p, b, FindCRLF(b, 1)) = ParseTyped(q, b, FindCRLF(b, 1))
    BY <2>1 DEF ParseTyped, Marks
  <2>2. CASE b[1] = "*"
    BY <1>1, <2>2 DEF TryOne
  <2>3. CASE b[1] # "*"
    BY <2>1, <2>3 DEF TryOne
  <2> QED
    BY <2>2, <2>3
<1> QED
  BY <1>2 DEF At

-----------------------------------------------------------------------------
\* The codes of the values of every number of levels exist,
LEMMA EncodedIs ==
  \A n \in 0..MaxDepth : Encoded[n] = [m \in Sendable(n) |-> Code(Encoded[n - 1], m)]
<1> DEFINE step(x, i) == [m \in Sendable(i) |-> Code(x, m)]
           IsLoop(n, f) == f = [i \in 0..n |-> step(f[i - 1], i)]
           I == {n \in Nat : \E f : IsLoop(n, f)}
<1>0. Sendable(0) = Leaf
  BY NestedIs DEF Sendable, Leaf
<1>1. \A x, y : step(x, 0) = step(y, 0)
  BY <1>0, LeafCode
<1>2. Encoded = CHOOSE f : IsLoop(MaxDepth, f)
  BY DEF Encoded
<1> HIDE DEF step
<1>3. 0 \in I
  <2> DEFINE f == [i \in 0..0 |-> step(0, i)]
             g == [i \in 0..0 |-> step(f[i - 1], i)]
  <2>1. \A i \in 0..0 : f[i] = g[i]
    BY <1>1
  <2>2. IsLoop(0, f)
    BY <2>1
  <2> HIDE DEF IsLoop, f
  <2> QED
    BY <2>2
<1>4. ASSUME NEW n \in Nat, n \in I PROVE n + 1 \in I
  <2>1. PICK f : IsLoop(n, f)
    BY <1>4
  <2> DEFINE g == [i \in 0..(n + 1) |-> IF i = n + 1 THEN step(f[n], i) ELSE f[i]]
             h == [i \in 0..(n + 1) |-> step(g[i - 1], i)]
  <2>2. ASSUME NEW i \in 0..(n + 1) PROVE g[i] = h[i]
    <3>1. CASE i = n + 1
      <4>1. i - 1 = n /\ n \in 0..(n + 1) /\ n # n + 1
        BY <3>1
      <4> QED
        BY <3>1, <4>1
    <3>2. CASE i # n + 1
      <4>1. i \in 0..n
        BY <3>2
      <4>2. f[i] = step(f[i - 1], i)
        BY <2>1, <4>1
      <4>3. CASE i = 0
        BY <1>1, <3>2, <4>2, <4>3
      <4>4. CASE i # 0
        <5>1. i - 1 \in 0..(n + 1) /\ i - 1 # n + 1
          BY <4>1, <4>4
        <5>2. g[i - 1] = f[i - 1]
          BY <5>1
        <5> QED
          BY <3>2, <4>2, <5>2
      <4> QED
        BY <4>3, <4>4
    <3> QED
      BY <3>1, <3>2
  <2>3. IsLoop(n + 1, g)
    BY <2>2
  <2>4. n + 1 \in Nat
    OBVIOUS
  <2> HIDE DEF IsLoop, g
  <2> QED
    BY <2>3, <2>4
<1> HIDE DEF I
<1>5. Nat \subseteq I
  BY ONLY <1>3, <1>4, Induction
<1>6. MaxDepth \in Nat
  BY ParserAssumption
<1>7. \E f : IsLoop(MaxDepth, f)
  BY <1>5, <1>6 DEF I
<1>8. IsLoop(MaxDepth, Encoded)
  <2> HIDE DEF IsLoop
  <2> QED
    BY <1>2, <1>7
<1>9. \A n \in 0..MaxDepth : Encoded[n] = step(Encoded[n - 1], n)
  BY <1>8
<1> QED
  BY <1>9 DEF step

\* and so do the parsers of every depth.
LEMMA TryParseIs ==
  /\ \A d \in 0..MaxNesting : TryParse[d] = At(TryParse[d + 1], d)
  /\ \A p : TryParse[MaxNesting + 1] = At(p, MaxNesting + 1)
<1> DEFINE top == MaxNesting + 1
           IsLoop(n, f) == f = [d \in (top - n)..top |-> At(f[d + 1], d)]
           I == {n \in Nat : \E f : IsLoop(n, f)}
<1>0. top \in Nat /\ \A x, y : At(x, top) = At(y, top)
  BY DeepestIs, ParserAssumption
<1>1. \A d \in 0..MaxNesting : d \in 0..top
  BY ParserAssumption
<1>2. TryParse = CHOOSE f : IsLoop(top, f)
  <2>1. top - top = 0
    BY <1>0
  <2> QED
    BY <2>1 DEF TryParse, At
<1> HIDE DEF top
<1>3. 0 \in I
  <2> DEFINE f == [d \in (top - 0)..top |-> At(0, d)]
             g == [d \in (top - 0)..top |-> At(f[d + 1], d)]
  <2>1. ASSUME NEW d \in (top - 0)..top PROVE f[d] = g[d]
    <3>1. d = top
      BY <1>0
    <3> QED
      BY <1>0, <3>1
  <2>2. IsLoop(0, f)
    BY <2>1
  <2> HIDE DEF IsLoop, f
  <2> QED
    BY <2>2
<1>4. ASSUME NEW n \in Nat, n \in I PROVE n + 1 \in I
  <2>1. PICK f : IsLoop(n, f)
    BY <1>4
  <2> DEFINE l == top - (n + 1)
             g == [d \in l..top |-> IF d = l THEN At(f[l + 1], d) ELSE f[d]]
             h == [d \in l..top |-> At(g[d + 1], d)]
  <2>2. ASSUME NEW d \in l..top PROVE g[d] = h[d]
    <3>0. l \in Int /\ l < top
      BY <1>0
    <3>1. CASE d = l
      <4>1. d + 1 = l + 1 /\ l + 1 \in l..top /\ l + 1 # l
        BY <1>0, <3>0, <3>1
      <4> HIDE DEF l
      <4> QED
        BY <3>1, <4>1
    <3>2. CASE d # l
      <4>1. d \in (top - n)..top
        BY <1>0, <3>2
      <4>2. f[d] = At(f[d + 1], d)
        BY <2>1, <4>1
      <4> HIDE DEF l
      <4>3. CASE d = top
        BY <1>0, <3>2, <4>2, <4>3
      <4>4. CASE d # top
        <5>1. d + 1 \in l..top /\ d + 1 # l
          BY <1>0, <3>0, <4>1, <4>4
        <5>2. g[d + 1] = f[d + 1]
          BY <5>1
        <5> QED
          BY <3>2, <4>2, <5>2
      <4> QED
        BY <4>3, <4>4
    <3> QED
      BY <3>1, <3>2
  <2>3. IsLoop(n + 1, g)
    BY <2>2
  <2>4. n + 1 \in Nat
    OBVIOUS
  <2> HIDE DEF IsLoop, g
  <2> QED
    BY <2>3, <2>4
<1> HIDE DEF I
<1>5. Nat \subseteq I
  BY ONLY <1>3, <1>4, Induction
<1>7. \E f : IsLoop(top, f)
  BY <1>0, <1>5 DEF I
<1>8. IsLoop(top, TryParse)
  <2> HIDE DEF IsLoop
  <2> QED
    BY <1>2, <1>7
<1>9. \A d \in 0..top : TryParse[d] = At(TryParse[d + 1], d)
  <2>1. top - top = 0
    BY <1>0
  <2> QED
    BY <1>8, <2>1
<1>10. \A p : TryParse[top] = At(p, top)
  <2>1. top \in 0..top
    BY <1>0
  <2> QED
    BY <1>0, <1>9, <2>1
<1> QED
  BY <1>1, <1>9, <1>10 DEF top

-----------------------------------------------------------------------------
\* The code of a value without others is read or refused, at every depth.
Written(code) == code \in Seq(Byte) /\ Len(code) \in Nat \ {0}

LEMMA HeadWritten ==
  ASSUME NEW mark \in Marks, NEW field \in Line
  PROVE  Written(Tagged(mark, field) \o CRLF)
<1> DEFINE code == Tagged(mark, field) \o CRLF
<1>1. code \in Seq(Byte) /\ Len(code) = Len(field) + 3 /\ Len(field) \in Nat
  BY HeadIs
<1> HIDE DEF code
<1>2. Written(code)
  BY <1>1 DEF Written
<1> QED
  BY <1>2 DEF code

LEMMA BulkWritten ==
  ASSUME NEW s \in Payload, NEW e \in Seq(Byte), Len(e) = 2
  PROVE  Written((Opening("$", Len(s)) \o s) \o e)
<1> DEFINE code == (Opening("$", Len(s)) \o s) \o e
<1>1. code \in Seq(Byte) /\ Len(code) = Len(s) + 6 /\ Len(s) \in Nat
  BY BulkBody
<1> HIDE DEF code
<1>2. Written(code)
  BY <1>1 DEF Written
<1> QED
  BY <1>2 DEF code

LEMMA PlainRead ==
  ASSUME NEW m \in Plain, NEW e, NEW parse, NEW depth
  PROVE  Written(Code(e, m)) /\ Reads(At(parse, depth), Code(e, m), m)
<1> DEFINE Good(code, v) == Written(code) /\ Reads(At(parse, depth), code, v)
<1>1. ASSUME NEW s \in Line, m = <<"simple", s>> PROVE Good(Code(e, m), m)
  <2>1. Code(e, m) = Tagged("+", s) \o CRLF
    BY <1>1 DEF Code, Tagged
  <2>2. "+" \in Marks
    BY DEF Marks
  <2>3. Good(Tagged("+", s) \o CRLF, <<"simple", s>>)
    BY <2>2, HeadWritten, SimpleRead
  <2> QED
    BY <1>1, <2>1, <2>3
<1>2. ASSUME NEW s \in Line, m = <<"error", s>> PROVE Good(Code(e, m), m)
  <2>1. Code(e, m) = Tagged("-", s) \o CRLF
    BY <1>2 DEF Code, Tagged
  <2>2. "-" \in Marks
    BY DEF Marks
  <2>3. Good(Tagged("-", s) \o CRLF, <<"error", s>>)
    BY <2>2, HeadWritten, SimpleRead
  <2> QED
    BY <1>2, <2>1, <2>3
<1>3. ASSUME NEW n \in -1..MaxCount, m = <<"integer", Digits[n]>> PROVE Good(Code(e, m), m)
  <2>1. ":" \in Marks /\ <<Digits[n]>> \in Line
    BY DigitIs DEF Marks
  <2>2. Code(e, m) = Opening(":", n)
    BY <1>3 DEF Code, Opening
  <2>3. Opening(":", n) = Tagged(":", <<Digits[n]>>) \o CRLF
    BY <2>1, OpeningIs
  <2>4. Good(Tagged(":", <<Digits[n]>>) \o CRLF, <<"integer", Digits[n]>>)
    BY <2>1, HeadWritten, IntegerRead
  <2> QED
    BY <1>3, <2>2, <2>3, <2>4
<1>4. ASSUME m = <<"null", 0>> PROVE Good(Code(e, m), m)
  <2>0. -1 \in -1..MaxCount
    BY ParserAssumption
  <2>1. "$" \in Marks /\ <<Digits[-1]>> \in Line
    BY <2>0, DigitIs DEF Marks
  <2>2. Code(e, m) = Opening("$", -1)
    BY <1>4 DEF Code
  <2>3. Opening("$", -1) = Tagged("$", <<Digits[-1]>>) \o CRLF
    BY <2>0, <2>1, OpeningIs
  <2>4. Good(Tagged("$", <<Digits[-1]>>) \o CRLF, <<"null", 0>>)
    BY <2>1, HeadWritten, NullRead
  <2> QED
    BY <1>4, <2>2, <2>3, <2>4
<1>5. ASSUME NEW s \in Payload, m = <<"bulk", s>> PROVE Good(Code(e, m), m)
  <2>1. Code(e, m) = (Opening("$", Len(s)) \o s) \o CRLF
    BY <1>5 DEF Code
  <2>2. Good((Opening("$", Len(s)) \o s) \o CRLF, <<"bulk", s>>)
    BY BulkWritten, BulkRead, CRLFIs
  <2> QED
    BY <1>5, <2>1, <2>2
<1>6. ASSUME NEW s \in Inline, m = <<"line", s>> PROVE Good(Code(e, m), m)
  <2>1. Code(e, m) = s \o CRLF
    BY <1>6 DEF Code
  <2>2. s \in Seq(Byte)
    BY DEF Inline
  <2>3. s \o CRLF \in Seq(Byte) /\ Len(s \o CRLF) = Len(s) + 2 /\ Len(s) \in Nat
    BY <2>2, WithCRLF
  <2>4. Written(s \o CRLF)
    <3> DEFINE c == s \o CRLF
    <3>1. c \in Seq(Byte) /\ Len(c) = Len(s) + 2 /\ Len(s) \in Nat
      BY <2>3
    <3> HIDE DEF c
    <3>2. Written(c)
      BY <3>1 DEF Written
    <3> QED
      BY <3>2 DEF c
  <2>5. Good(s \o CRLF, <<"line", s>>)
    BY <2>4, InlineRead
  <2> QED
    BY <1>6, <2>1, <2>5
<1> HIDE DEF Good
<1>7. Good(Code(e, m), m)
  <2>1. \/ \E s \in Line : m = <<"simple", s>> \/ m = <<"error", s>>
        \/ \E n \in -1..MaxCount : m = <<"integer", Digits[n]>>
        \/ m = <<"null", 0>>
        \/ \E s \in Payload : m = <<"bulk", s>>
        \/ \E s \in Inline : m = <<"line", s>>
    BY DEF Plain
  <2> QED
    BY <1>1, <1>2, <1>3, <1>4, <1>5, <1>6, <2>1
<1> QED
  BY <1>7 DEF Good

LEMMA BrokenRejected ==
  ASSUME NEW m \in Broken, NEW e, NEW parse, NEW depth
  PROVE  Written(Code(e, m)) /\ Rejects(At(parse, depth), Code(e, m))
<1> DEFINE Bad(code) == Written(code) /\ Rejects(At(parse, depth), code)
<1>1. ASSUME NEW mark \in {":", "$", "*"}, NEW field \in Line, m = <<"number", <<mark, field>>>>,
             \A n \in -1..MaxCount : field # <<Digits[n]>>
      PROVE  Bad(Code(e, m))
  <2>1. Code(e, m) = Tagged(mark, field) \o CRLF
    BY <1>1 DEF Code, Tagged
  <2>2. mark \in Marks
    BY DEF Marks
  <2>3. Bad(Tagged(mark, field) \o CRLF)
    BY <1>1, <2>2, HeadWritten, HeaderRejected
  <2> QED
    BY <2>1, <2>3
<1>2. ASSUME NEW s \in Payload, NEW x \in Byte \X Byte, x # CRLF, m = <<"endless", <<s, x>>>>
      PROVE  Bad(Code(e, m))
  <2>1. Code(e, m) = (Opening("$", Len(s)) \o s) \o x
    BY <1>2 DEF Code
  <2>2. x \in Seq(Byte) /\ Len(x) = 2
    <3>1. PICK y \in Byte, z \in Byte : x = <<y, z>>
      OBVIOUS
    <3> QED
      BY <3>1
  <2>3. Bad((Opening("$", Len(s)) \o s) \o x)
    BY <1>2, <2>2, BulkWritten, EndlessRejected
  <2> QED
    BY <2>1, <2>3
<1> HIDE DEF Bad
<1>3. Bad(Code(e, m))
  <2>1. \/ \E mark \in {":", "$", "*"}, field \in Line :
             m = <<"number", <<mark, field>>>> /\ \A n \in -1..MaxCount : field # <<Digits[n]>>
        \/ \E s \in Payload, x \in Byte \X Byte : x # CRLF /\ m = <<"endless", <<s, x>>>>
    BY DEF Broken
  <2> QED
    BY <1>1, <1>2, <2>1
<1> QED
  BY <1>3 DEF Bad

-----------------------------------------------------------------------------
\* The values that fit below a depth, and what the parser makes of a code there.
Fits(d) == Nested(Plain, (MaxNesting + 1) - d)

Handled(d, code, m) ==
  \/ m \in Fits(d) /\ Reads(TryParse[d], code, m)
  \/ m \notin Fits(d) /\ Rejects(TryParse[d], code)

LEMMA FitsIs ==
  /\ Fits(MaxNesting + 1) = Plain
  /\ \A d \in 0..MaxNesting : Fits(d) = Plain \cup Arrays(Fits(d + 1))
<1>1. (MaxNesting + 1) - (MaxNesting + 1) = 0
  BY ParserAssumption
<1>2. Fits(MaxNesting + 1) = Plain
  BY <1>1, NestedIs DEF Fits
<1>3. ASSUME NEW d \in 0..MaxNesting PROVE Fits(d) = Plain \cup Arrays(Fits(d + 1))
  <2>1. (MaxNesting + 1) - (d + 1) \in Nat /\ (MaxNesting + 1) - d = ((MaxNesting + 1) - (d + 1)) + 1
    BY ParserAssumption
  <2> QED
    BY <2>1, NestedIs DEF Fits
<1> QED
  BY <1>2, <1>3

LEMMA LeafHandled ==
  ASSUME NEW m \in Leaf, NEW e, NEW d \in 0..(MaxNesting + 1)
  PROVE  Written(Code(e, m)) /\ Handled(d, Code(e, m), m)
<1>0. d = MaxNesting + 1 \/ d \in 0..MaxNesting
  BY ParserAssumption
<1>1. PICK p : TryParse[d] = At(p, d)
  BY <1>0, TryParseIs
<1>2. m \in Fits(d) <=> m \in Plain
  <2>1. \A values : m \notin Arrays(values)
    BY LeafIs DEF Arrays
  <2> QED
    BY <1>0, <2>1, FitsIs
<1>3. CASE m \in Plain
  BY <1>1, <1>2, <1>3, PlainRead DEF Handled
<1>4. CASE m \in Broken
  BY <1>1, <1>2, <1>4, LeafIs, BrokenRejected DEF Handled
<1> QED
  BY <1>3, <1>4 DEF Leaf

\* An array of values that are.
LEMMA ArrayHandled ==
  ASSUME NEW values, NEW c, NEW s \in Seq(values), Len(s) <= MaxCount,
         \A m \in values : /\ Written(c[m])
                           /\ \A d \in 0..(MaxNesting + 1) : Handled(d, c[m], m),
         NEW d \in 0..(MaxNesting + 1)
  PROVE  LET E == [i \in DOMAIN s |-> c[s[i]]]
         IN  Written(ArrayOf(E)) /\ Len(E) = Len(s) /\ Handled(d, ArrayOf(E), <<"array", s>>)
<1> DEFINE E == [i \in DOMAIN s |-> c[s[i]]]
           m == <<"array", s>>
<1>0. /\ Len(s) \in Nat /\ DOMAIN s = 1..Len(s) /\ Len(s) \in 0..MaxCount
      /\ \A i \in 1..Len(s) : s[i] \in values
  <2>1. Len(s) \in Nat /\ DOMAIN s = 1..Len(s) /\ \A i \in 1..Len(s) : s[i] \in values
    BY LenProperties, ElementOfSeq
  <2> QED
    BY <2>1, ParserAssumption
<1>1. E \in Seq(Seq(Byte)) /\ Len(E) = Len(s) /\ \A i \in 1..Len(s) : E[i] = c[s[i]]
  <2>1. E = [i \in 1..Len(s) |-> c[s[i]]]
    BY <1>0
  <2>2. \A i \in 1..Len(s) : c[s[i]] \in Seq(Byte)
    BY <1>0 DEF Written
  <2> QED
    BY <1>0, <2>1, <2>2
<1> HIDE DEF E
<1>2. ArrayOf(E) = Opening("*", Len(s)) \o FlattenSeq(E) /\ FlattenSeq(E) \in Seq(Byte)
  BY <1>1, FlatIs DEF ArrayOf
<1>3. Written(ArrayOf(E))
  <2> DEFINE F == FlattenSeq(E)
             code == Opening("*", Len(s)) \o F
  <2>1. F \in Seq(Byte)
    BY <1>2
  <2> HIDE DEF F
  <2>2. code \in Seq(Byte) /\ Len(code) = 4 + Len(F) /\ Len(F) \in Nat
    BY <1>0, <2>1, ArrayCode
  <2> HIDE DEF code
  <2>3. Written(code)
    BY <2>2 DEF Written
  <2> QED
    BY <1>2, <2>3 DEF code, F
<1>4. m \notin Plain
  BY LeafIs DEF Leaf
<1>5. CASE d = MaxNesting + 1
  <2>1. m \notin Fits(d)
    BY <1>4, <1>5, FitsIs
  <2>2. Deep("*", d)
    BY <1>5, ParserAssumption DEF Deep
  <2>3. Rejects(At(0, d), ArrayOf(E))
    BY <1>0, <1>2, <2>2, DeepRejected
  <2>4. TryParse[d] = At(0, d)
    BY <1>5, TryParseIs
  <2>5. Handled(d, ArrayOf(E), m)
    BY <2>1, <2>3, <2>4 DEF Handled
  <2> QED
    BY <1>1, <1>3, <2>5 DEF E
<1>6. CASE d \in 0..MaxNesting
  <2> DEFINE parse == TryParse[d + 1]
  <2>0. d + 1 \in 0..(MaxNesting + 1) /\ ~Deep("*", d) /\ TryParse[d] = At(parse, d)
    BY <1>6, ParserAssumption, TryParseIs DEF Deep
  <2>1. m \in Fits(d) <=> \A i \in 1..Len(s) : s[i] \in Fits(d + 1)
    <3>1. m \in Fits(d) <=> m \in Arrays(Fits(d + 1))
      BY <1>4, <1>6, FitsIs
    <3>2. m \in Arrays(Fits(d + 1)) <=> s \in Seq(Fits(d + 1))
      BY DEF Arrays
    <3>3. s \in Seq(Fits(d + 1)) <=> \A i \in 1..Len(s) : s[i] \in Fits(d + 1)
      <4>1. ASSUME \A i \in 1..Len(s) : s[i] \in Fits(d + 1) PROVE s \in Seq(Fits(d + 1))
        <5>1. s = [i \in 1..Len(s) |-> s[i]]
          BY LenProperties
        <5> QED
          BY <1>0, <4>1, <5>1
      <4>2. ASSUME s \in Seq(Fits(d + 1)) PROVE \A i \in 1..Len(s) : s[i] \in Fits(d + 1)
        BY <4>2, ElementOfSeq
      <4> QED
        BY <4>1, <4>2
    <3> QED
      BY <3>1, <3>2, <3>3
  <2>2. \A i \in 1..Len(s) : \/ s[i] \in Fits(d + 1) /\ Reads(parse, E[i], s[i])
                             \/ s[i] \notin Fits(d + 1) /\ Rejects(parse, E[i])
    BY <1>0, <1>1, <2>0 DEF Handled
  <2>3. CASE \A i \in 1..Len(s) : s[i] \in Fits(d + 1)
    <3>1. \A i \in 1..Len(E) : Reads(parse, E[i], s[i])
      BY <1>1, <2>2, <2>3
    <3>2. Reads(At(parse, d), ArrayOf(E), m)
      <4> HIDE DEF parse
      <4>1. Len(s) = Len(E) /\ Len(E) <= MaxCount
        BY <1>1
      <4> QED
        BY <1>1, <2>0, <3>1, <4>1, ArrayRead
    <3>3. Handled(d, ArrayOf(E), m)
      BY <2>0, <2>1, <2>3, <3>2 DEF Handled
    <3> QED
      BY <1>1, <1>3, <3>3 DEF E
  <2>4. CASE \E i \in 1..Len(s) : s[i] \notin Fits(d + 1)
    <3>1. PICK j \in 1..Len(s) : s[j] \notin Fits(d + 1) /\ \A i \in 1..(j - 1) : s[i] \in Fits(d + 1)
      <4> DEFINE P == {i \in 1..Len(s) : s[i] \notin Fits(d + 1)}
      <4>1. P \subseteq Nat /\ P # {}
        BY <2>4
      <4>2. PICK j \in P : \A i \in P : j <= i
        BY <4>1, LeastNumber
      <4>3. \A i \in 1..(j - 1) : i \in 1..Len(s) /\ ~(j <= i)
        BY <1>0
      <4> QED
        BY <4>2, <4>3
    <3> DEFINE k == j - 1
    <3>2. k \in 0..(Len(s) - 1) /\ k + 1 = j /\ \A i \in 1..k : i \in 1..Len(s)
      BY <1>0
    <3>3. \A i \in 1..k : s[i] \in Fits(d + 1)
      BY <3>1
    <3> HIDE DEF k
    <3>4. ReadsSome(parse, E, s, k)
      <4>1. \A i \in 1..k : Reads(parse, E[i], s[i])
        BY <2>2, <3>2, <3>3
      <4>2. Rejects(parse, E[k + 1])
        BY <2>2, <3>1, <3>2
      <4> QED
        BY <4>1, <4>2 DEF ReadsSome
    <3>5. Rejects(At(parse, d), ArrayOf(E))
      <4> HIDE DEF parse
      <4>1. Len(s) = Len(E) /\ Len(E) <= MaxCount /\ k \in 0..(Len(E) - 1)
        BY <1>1, <3>2
      <4> QED
        BY <1>1, <2>0, <3>4, <4>1, ArrayRejected
    <3>6. m \notin Fits(d)
      BY <2>1, <2>4
    <3>7. Handled(d, ArrayOf(E), m)
      BY <2>0, <3>5, <3>6 DEF Handled
    <3> QED
      BY <1>1, <1>3, <3>7 DEF E
  <2> QED
    BY <2>3, <2>4
<1> QED
  BY <1>5, <1>6, ParserAssumption

-----------------------------------------------------------------------------
\* What the parser makes of the code of every value, at every depth.
LEMMA EncodedHandled ==
  \A n \in 0..MaxDepth : \A m \in Sendable(n) :
    /\ Written(Encoded[n][m])
    /\ \A d \in 0..(MaxNesting + 1) : Handled(d, Encoded[n][m], m)
<1> DEFINE Good(n) == \A m \in Sendable(n) :
             /\ Written(Encoded[n][m])
             /\ \A d \in 0..(MaxNesting + 1) : Handled(d, Encoded[n][m], m)
           I == {n \in Nat : n \in 0..MaxDepth => Good(n)}
<1>0. MaxDepth \in Nat
  BY ParserAssumption
<1>1. /\ Sendable(0) = Leaf
      /\ \A n \in Nat : Sendable(n + 1) = Leaf \cup Arrays(Sendable(n))
  BY NestedIs DEF Sendable, Leaf
<1>2. ASSUME NEW n \in 0..MaxDepth, NEW m \in Leaf, m \in Sendable(n)
      PROVE  /\ Written(Encoded[n][m])
             /\ \A d \in 0..(MaxNesting + 1) : Handled(d, Encoded[n][m], m)
  <2>1. Encoded[n][m] = Code(Encoded[n - 1], m)
    BY <1>2, EncodedIs
  <2>2. 0 \in 0..(MaxNesting + 1)
    BY ParserAssumption
  <2> QED
    BY <2>1, <2>2, LeafHandled
<1>3. Good(0)
  <2>1. 0 \in 0..MaxDepth
    BY <1>0
  <2> QED
    BY <1>1, <1>2, <2>1
<1>4. ASSUME NEW n \in Nat, n + 1 \in 0..MaxDepth, Good(n) PROVE Good(n + 1)
  <2> SUFFICES ASSUME NEW m \in Sendable(n + 1)
               PROVE  /\ Written(Encoded[n + 1][m])
                      /\ \A d \in 0..(MaxNesting + 1) : Handled(d, Encoded[n + 1][m], m)
    OBVIOUS
  <2>1. CASE m \in Leaf
    BY <1>2, <1>4, <2>1
  <2>2. CASE m \in Arrays(Sendable(n))
    <3>1. PICK s \in Seq(Sendable(n)) : m = <<"array", s>> /\ Len(s) <= MaxCount
      BY <2>2 DEF Arrays
    <3> DEFINE E == [i \in DOMAIN s |-> Encoded[n][s[i]]]
    <3>2. ASSUME NEW d \in 0..(MaxNesting + 1)
          PROVE  Written(ArrayOf(E)) /\ Len(E) = Len(s) /\ Handled(d, ArrayOf(E), <<"array", s>>)
      <4> DEFINE values == Sendable(n)
                 c == Encoded[n]
      <4>1. /\ s \in Seq(values) /\ Len(s) <= MaxCount
            /\ \A v \in values : /\ Written(c[v])
                                 /\ \A k \in 0..(MaxNesting + 1) : Handled(k, c[v], v)
        BY <1>4, <3>1
      <4> HIDE DEF values, c
      <4>2. LET C == [i \in DOMAIN s |-> c[s[i]]]
            IN  Written(ArrayOf(C)) /\ Len(C) = Len(s) /\ Handled(d, ArrayOf(C), <<"array", s>>)
        BY <4>1, ArrayHandled
      <4> QED
        BY <4>2 DEF c
    <3>3. Encoded[n + 1][m] = Code(Encoded[n], m)
      <4>1. (n + 1) - 1 = n
        OBVIOUS
      <4>2. Encoded[n + 1] = [x \in Sendable(n + 1) |-> Code(Encoded[(n + 1) - 1], x)]
        BY <1>4, EncodedIs
      <4> QED
        BY <4>1, <4>2
    <3>4. Code(Encoded[n], m) = Opening("*", Len(s)) \o FlattenSeq(E)
      BY <3>1 DEF Code
    <3> HIDE DEF E
    <3>5. 0 \in 0..(MaxNesting + 1)
      BY ParserAssumption
    <3>6. Encoded[n + 1][m] = ArrayOf(E)
      BY <3>2, <3>3, <3>4, <3>5 DEF ArrayOf
    <3> QED
      BY <3>1, <3>2, <3>5, <3>6
  <2> QED
    BY <1>1, <2>1, <2>2
<1> HIDE DEF Good
<1>5. 0 \in I
  BY <1>3
<1>6. ASSUME NEW n \in Nat, n \in I PROVE n + 1 \in I
  <2>1. n + 1 \in Nat /\ (n + 1 \in 0..MaxDepth => n \in 0..MaxDepth)
    BY <1>0
  <2> QED
    BY <1>4, <1>6, <2>1
<1> HIDE DEF I
<1>7. Nat \subseteq I
  BY ONLY <1>5, <1>6, Induction
<1>8. ASSUME NEW n \in 0..MaxDepth PROVE Good(n)
  <2>1. n \in I
    BY <1>0, <1>7
  <2> QED
    BY <2>1 DEF I
<1> QED
  BY <1>8 DEF Good

\* The code of a value on its own: read if the value is sound, refused otherwise.
Taken(code, m) ==
  /\ Written(code)
  /\ \/ m \in Sound /\ Reads(TryParse[0], code, m)
     \/ m \notin Sound /\ Rejects(TryParse[0], code)

LEMMA MessageTaken ==
  ASSUME NEW m \in Message
  PROVE  Taken(Encoded[MaxDepth][m], m)
<1>1. MaxDepth \in 0..MaxDepth /\ m \in Sendable(MaxDepth) /\ 0 \in 0..(MaxNesting + 1)
  BY ParserAssumption
<1>2. Written(Encoded[MaxDepth][m]) /\ Handled(0, Encoded[MaxDepth][m], m)
  BY <1>1, EncodedHandled
<1>3. Fits(0) = Sound
  <2>1. (MaxNesting + 1) - 0 = MaxNesting + 1
    BY ParserAssumption
  <2> QED
    BY <2>1 DEF Fits, Sound
<1> QED
  BY <1>2, <1>3 DEF Taken, Handled

\* Every code is at least one byte.
LEMMA UptoGrows ==
  ASSUME NEW E \in Seq(Seq(Byte)), \A i \in 1..Len(E) : Written(E[i])
  PROVE  \A i \in 0..Len(E) : \A j \in i..Len(E) : /\ Len(Upto(E, i)) \in Nat
                                                  /\ Len(Upto(E, i)) + (j - i) <= Len(Upto(E, j))
<1> DEFINE N == Len(E)
           I == {k \in Nat : \A i \in 0..N : i + k <= N => Len(Upto(E, i)) + k <= Len(Upto(E, i + k))}
<1>0. /\ N \in Nat
      /\ \A i \in 0..(N - 1) : Upto(E, i + 1) = Upto(E, i) \o E[i + 1]
      /\ \A i \in 0..N : Upto(E, i) \in Seq(Byte)
  BY UptoIs
<1>1. \A i \in 0..N : Len(Upto(E, i)) \in Nat
  BY <1>0, LenProperties
<1>2. ASSUME NEW i \in 0..(N - 1) PROVE Len(Upto(E, i)) + 1 <= Len(Upto(E, i + 1))
  <2>1. i \in 0..N /\ i + 1 \in 1..N
    BY <1>0
  <2> DEFINE p == Upto(E, i)
             x == E[i + 1]
  <2>2. p \in Seq(Byte) /\ x \in Seq(Byte) /\ Len(x) \in Nat \ {0} /\ Upto(E, i + 1) = p \o x
    BY <1>0, <2>1 DEF Written
  <2> HIDE DEF p, x
  <2>3. Len(Upto(E, i + 1)) = Len(p) + Len(x) /\ Len(p) \in Nat
    BY <2>2, ConcatIs
  <2> QED
    BY <2>2, <2>3 DEF p
<1>3. 0 \in I
  <2>1. \A i \in 0..N : i + 0 = i /\ Len(Upto(E, i)) + 0 <= Len(Upto(E, i))
    BY <1>0, <1>1
  <2> QED
    BY <2>1
<1>4. ASSUME NEW k \in Nat, k \in I PROVE k + 1 \in I
  <2>1. ASSUME NEW i \in 0..N, i + (k + 1) <= N
        PROVE  Len(Upto(E, i)) + (k + 1) <= Len(Upto(E, i + (k + 1)))
    <3>1. i + k <= N /\ i + k \in 0..(N - 1) /\ i + k \in 0..N /\ (i + k) + 1 = i + (k + 1)
          /\ i + (k + 1) \in 0..N
      BY <1>0, <2>1
    <3>2. Len(Upto(E, i)) + k <= Len(Upto(E, i + k))
      BY <1>4, <3>1
    <3>3. Len(Upto(E, i + k)) + 1 <= Len(Upto(E, i + (k + 1)))
      BY <1>2, <3>1
    <3>4. Len(Upto(E, i)) \in Nat /\ Len(Upto(E, i + k)) \in Nat /\ Len(Upto(E, i + (k + 1))) \in Nat
      BY <1>1, <3>1
    <3> QED
      BY <3>2, <3>3, <3>4
  <2>2. k + 1 \in Nat
    OBVIOUS
  <2> QED
    BY <2>1, <2>2
<1> HIDE DEF I
<1>5. Nat \subseteq I
  BY ONLY <1>3, <1>4, Induction
<1>6. ASSUME NEW i \in 0..N, NEW j \in i..N PROVE Len(Upto(E, i)) + (j - i) <= Len(Upto(E, j))
  <2>1. j - i \in Nat /\ i + (j - i) = j /\ i + (j - i) <= N
    BY <1>0
  <2>2. j - i \in I
    BY <1>5, <2>1
  <2> DEFINE k == j - i
  <2>3. k \in I /\ i + k = j /\ i + k <= N
    BY <2>1, <2>2
  <2> HIDE DEF k
  <2>4. Len(Upto(E, i)) + k <= Len(Upto(E, i + k))
    BY <2>3 DEF I
  <2> QED
    BY <2>3, <2>4 DEF k
<1> QED
  BY <1>1, <1>6

-----------------------------------------------------------------------------
\* parse() on the codes of k values and something that is not yet, or not, a value.
LEMMA ParseStops ==
  ASSUME NEW X, NEW E \in Seq(Seq(Byte)), NEW V \in Seq(X), Len(V) = Len(E),
         NEW k \in 0..Len(E), \A i \in 1..k : Reads(TryParse[0], E[i], V[i]),
         NEW t \in Seq(Byte), TryParse[0][t].end \in {"more", "error"},
         k <= Len(Upto(E, k) \o t)
  PROVE  \/ TryParse[0][t].end = "error" /\ Parse(Upto(E, k) \o t).threw = TRUE
         \/ /\ TryParse[0][t].end = "more"
            /\ Parse(Upto(E, k) \o t) = [results |-> SubSeq(V, 1, k), rest |-> t, threw |-> FALSE]
<1> DEFINE b == Upto(E, k) \o t
           parse == TryParse[0]
           s == Stopped(parse, E, V, k, t)
           all == InTurn(parse, b, Len(b) + 1)
<1>0. /\ Upto(E, k) \in Seq(Byte) /\ b \in Seq(Byte) /\ Len(b) \in Nat /\ k \in Nat
      /\ From(b, Len(Upto(E, k))) = t
  <2>1. Upto(E, k) \in Seq(Byte) /\ k \in Nat
    BY UptoIs
  <2>2. b \in Seq(Byte) /\ Len(b) = Len(Upto(E, k)) + Len(t) /\ Len(Upto(E, k)) \in Nat /\ Len(t) \in Nat
    BY <2>1, ConcatIs
  <2>3. From(b, Len(Upto(E, k))) = t
    BY <2>1, FromConcat
  <2> HIDE DEF b
  <2> QED
    BY <2>1, <2>2, <2>3
<1>1. all = s
  <2>1. \A n \in Nat : k < n => InTurn(parse, b, n) = s
    <3>1. parse[t].end # "value"
      OBVIOUS
    <3> QED
      BY <3>1, TurnsStop
  <2>2. Len(b) + 1 \in Nat /\ k < Len(b) + 1
    BY <1>0
  <2> HIDE DEF b, s
  <2> QED
    BY <2>1, <2>2
<1>2. s.end = parse[t].end /\ s.values = SubSeq(V, 1, k) /\ s.consumed = Len(Upto(E, k))
  BY DEF Turned, Stopped
<1> HIDE DEF s
<1>3. Parse(b) = IF all.end = "error" THEN [results |-> <<>>, rest |-> all.rest, threw |-> TRUE]
                 ELSE [results |-> all.values, rest |-> From(b, all.consumed), threw |-> FALSE]
  BY DEF Parse
<1> HIDE DEF all
<1>4. From(b, all.consumed) = t
  BY <1>0, <1>1, <1>2
<1> HIDE DEF b
<1>5. CASE parse[t].end = "error"
  <2>1. Parse(b) = [results |-> <<>>, rest |-> all.rest, threw |-> TRUE]
    BY <1>1, <1>2, <1>3, <1>5
  <2>2. Parse(b).threw = TRUE
    BY <2>1
  <2> QED
    BY <1>5, <2>2 DEF b
<1>6. CASE parse[t].end = "more"
  <2>1. Parse(b) = [results |-> SubSeq(V, 1, k), rest |-> t, threw |-> FALSE]
    BY <1>1, <1>2, <1>3, <1>4, <1>6
  <2> QED
    BY <1>6, <2>1 DEF b
<1> QED
  BY <1>5, <1>6

\* parse() of the codes that have arrived, the last one perhaps in part, returns what is
\* whole and keeps the rest, or throws where a value is unsound.
ParsedOf(E, V, r, p) ==
  \/ p.threw = TRUE /\ \E i \in 1..Len(V) : V[i] \notin Sound
  \/ /\ p.threw = FALSE
     /\ \E k \in 0..Len(E) : /\ p.results = SubSeq(V, 1, k) /\ p.rest \in Seq(Byte)
                             /\ SubSeq(FlattenSeq(E), 1, r) = Upto(E, k) \o p.rest
                             /\ k = Len(E) \/ r < Len(Upto(E, k + 1))

LEMMA ParseIs ==
  ASSUME NEW X, NEW E \in Seq(Seq(Byte)), NEW V \in Seq(X), Len(V) = Len(E),
         \A i \in 1..Len(E) : Taken(E[i], V[i]),
         NEW r \in 0..Len(FlattenSeq(E))
  PROVE  ParsedOf(E, V, r, Parse(SubSeq(FlattenSeq(E), 1, r)))
<1> DEFINE N == Len(E)
           F == FlattenSeq(E)
           b == SubSeq(F, 1, r)
           parse == TryParse[0]
<1>0. N \in Nat /\ F \in Seq(Byte) /\ Upto(E, N) = F /\ Len(F) \in Nat /\ r \in Nat
  <2>1. N \in Nat /\ F \in Seq(Byte) /\ Upto(E, N) = F /\ Len(F) \in Nat
    BY FlatIs
  <2> HIDE DEF F
  <2> QED
    BY <2>1
<1>1. b \in Seq(Byte) /\ Len(b) = r
  BY <1>0, InitialIs
<1>2. ASSUME NEW t \in Seq(Byte), NEW w \in 0..N, b = Upto(E, w) \o t PROVE w <= r
  <2>1. Upto(E, w) \in Seq(Byte)
    BY UptoIs
  <2>2. Len(Upto(E, w) \o t) = Len(Upto(E, w)) + Len(t) /\ Len(t) \in Nat /\ Len(Upto(E, w)) \in Nat
    BY <2>1, ConcatIs
  <2>3. 0 \in 0..N /\ w \in 0..N /\ w - 0 = w
    BY <1>0
  <2>4. Len(Upto(E, 0)) \in Nat /\ Len(Upto(E, 0)) + (w - 0) <= Len(Upto(E, w))
    <3>1. \A i \in 1..N : Written(E[i])
      BY DEF Taken
    <3> QED
      BY <2>3, <3>1, UptoGrows
  <2> HIDE DEF b
  <2>5. w <= Len(Upto(E, w))
    BY <2>2, <2>3, <2>4
  <2> QED
    BY <1>1, <1>2, <2>2, <2>5
\* The sound values at the head of V.
<1>3. PICK k \in 0..N : /\ \A i \in 1..k : V[i] \in Sound
                        /\ k = N \/ V[k + 1] \notin Sound
  <2>1. CASE \A i \in 1..N : V[i] \in Sound
    BY <1>0, <2>1
  <2>2. CASE \E i \in 1..N : V[i] \notin Sound
    <3> DEFINE P == {i \in 1..N : V[i] \notin Sound}
    <3>1. P \subseteq Nat /\ P # {}
      <4>1. PICK i \in 1..N : V[i] \notin Sound
        BY <2>2
      <4>2. i \in P
        BY <4>1
      <4>3. P \subseteq Nat
        OBVIOUS
      <4> QED
        BY <4>2, <4>3
    <3>2. PICK j \in P : \A i \in P : j <= i
      BY <3>1, LeastNumber
    <3>3. j - 1 \in 0..N /\ (j - 1) + 1 = j /\ \A i \in 1..(j - 1) : i \in 1..N /\ ~(j <= i)
      BY <1>0
    <3>4. \A i \in 1..(j - 1) : V[i] \in Sound
      BY <3>2, <3>3
    <3> QED
      BY <3>2, <3>3, <3>4
  <2> QED
    BY <2>1, <2>2
<1>4. ReadsSome(parse, E, V, k)
  <2>1. \A i \in 1..k : Reads(parse, E[i], V[i])
    <3>1. \A i \in 1..k : i \in 1..N
      BY <1>0
    <3> QED
      BY <1>3, <3>1 DEF Taken
  <2>2. k = N \/ Rejects(parse, E[k + 1])
    <3>1. k = N \/ k + 1 \in 1..N
      BY <1>0
    <3> QED
      BY <1>3, <3>1 DEF Taken
  <2> QED
    BY <2>1, <2>2 DEF ReadsSome
<1>5. k = N \/ \E i \in 1..Len(V) : V[i] \notin Sound
  <2>1. k = N \/ k + 1 \in 1..Len(V)
    BY <1>0
  <2> QED
    BY <1>3, <2>1
\* What is left once w of them are taken is not a value.
<1>6. ASSUME NEW w \in 0..k, NEW t \in Seq(Byte), b = Upto(E, w) \o t,
             parse[t].end = "more" \/ (parse[t].end = "error" /\ k < N),
             w = N \/ r < Len(Upto(E, w + 1))
      PROVE  ParsedOf(E, V, r, Parse(b))
  <2>0. w \in 0..N /\ w <= r /\ w <= Len(Upto(E, w) \o t)
    <3>1. w \in 0..N
      BY <1>0
    <3> QED
      BY <1>1, <1>2, <1>6, <3>1
  <2>1. \A i \in 1..w : Reads(parse, E[i], V[i])
    <3>1. \A i \in 1..w : i \in 1..k
      BY <1>0
    <3> QED
      BY <1>4, <3>1 DEF ReadsSome
  <2>2. \/ parse[t].end = "error" /\ Parse(b).threw = TRUE
        \/ /\ parse[t].end = "more"
           /\ Parse(b) = [results |-> SubSeq(V, 1, w), rest |-> t, threw |-> FALSE]
    <3>1. parse[t].end \in {"more", "error"}
      BY <1>6
    <3>2. \/ parse[t].end = "error" /\ Parse(Upto(E, w) \o t).threw = TRUE
          \/ /\ parse[t].end = "more"
             /\ Parse(Upto(E, w) \o t) = [results |-> SubSeq(V, 1, w), rest |-> t, threw |-> FALSE]
      BY <2>0, <2>1, <3>1, ParseStops
    <3> QED
      BY <1>6, <3>2
  <2>3. CASE parse[t].end = "error" /\ Parse(b).threw = TRUE
    <3>1. k < N
      BY <1>6, <2>3
    <3>2. k # N
      BY <1>0, <3>1
    <3> QED
      BY <1>5, <2>3, <3>2 DEF ParsedOf
  <2>4. CASE Parse(b) = [results |-> SubSeq(V, 1, w), rest |-> t, threw |-> FALSE]
    <3>1. Parse(b).threw = FALSE /\ Parse(b).results = SubSeq(V, 1, w) /\ Parse(b).rest = t
      BY <2>4
    <3> QED
      BY <1>6, <2>0, <3>1 DEF ParsedOf
  <2> QED
    BY <2>2, <2>3, <2>4
\* What is left once k of them are taken is an unsound one.
<1>7. ASSUME NEW w \in 0..N, k < w, NEW t \in Seq(Byte), b = Upto(E, w) \o t
      PROVE  ParsedOf(E, V, r, Parse(b))
  <2>1. k \in 0..(w - 1) /\ k \in 0..N /\ k # N /\ k + 1 \in 1..N /\ k \in Nat
    BY <1>0, <1>7
  <2>2. Splits(Upto(E, w) \o t, E, k)
    BY <2>1, SplitAt
  <2>3. PICK u \in Seq(Byte) : b = Upto(E, k) \o (E[k + 1] \o u)
    BY <1>7, <2>2 DEF Splits
  <2> DEFINE z == E[k + 1] \o u
  <2>4. z \in Seq(Byte)
    <3>1. E[k + 1] \in Seq(Byte)
      BY <2>1, UptoIs
    <3> QED
      BY <3>1, ConcatIs
  <2>5. parse[z].end = "error"
    BY <1>4, <2>1 DEF ReadsSome, Rejects
  <2> HIDE DEF z
  <2>6. k <= r /\ b = Upto(E, k) \o z
    BY <1>2, <2>1, <2>3, <2>4 DEF z
  <2>7. Parse(b).threw = TRUE
    <3>1. /\ \A i \in 1..k : Reads(parse, E[i], V[i])
          /\ parse[z].end \in {"more", "error"}
          /\ k <= Len(Upto(E, k) \o z)
      BY <1>1, <1>4, <2>5, <2>6 DEF ReadsSome
    <3>2. \/ parse[z].end = "error" /\ Parse(Upto(E, k) \o z).threw = TRUE
          \/ /\ parse[z].end = "more"
             /\ Parse(Upto(E, k) \o z) = [results |-> SubSeq(V, 1, k), rest |-> z, threw |-> FALSE]
      BY <2>1, <2>4, <3>1, ParseStops
    <3> QED
      BY <2>5, <2>6, <3>2
  <2> QED
    BY <1>5, <2>1, <2>7 DEF ParsedOf
<1>8. CASE r = Len(F)
  <2>1. b = Upto(E, N) \o <<>> /\ <<>> \in Seq(Byte)
    <3>1. SubSeq(F, 1, Len(F)) = F
      BY <1>0, SubSeqFull
    <3>2. F \o <<>> = F /\ <<>> \in Seq(Byte)
      BY <1>0, ConcatEmptySeq, EmptySeq
    <3> QED
      BY <1>0, <1>8, <3>1, <3>2
  <2> PICK t : t = <<>>
    OBVIOUS
  <2>2. b = Upto(E, N) \o t /\ t \in Seq(Byte)
    BY <2>1
  <2>3. CASE k = N
    <3>1. parse[t].end = "more"
      <4>1. PICK p : TryParse[0] = At(p, 0)
        <5>1. 0 \in 0..MaxNesting
          BY ParserAssumption
        <5> QED
          BY <5>1, TryParseIs
      <4>2. At(p, 0)[t] = More
        BY <2>2 DEF At, TryOne
      <4> QED
        BY <4>1, <4>2, EndIs
    <3>2. N \in 0..k
      BY <1>0, <2>3
    <3> QED
      BY <1>6, <2>2, <3>1, <3>2
  <2>4. CASE k < N
    <3>1. N \in 0..N
      BY <1>0
    <3> QED
      BY <1>7, <2>2, <2>4, <3>1
  <2> QED
    BY <1>0, <2>3, <2>4
<1>9. CASE r < Len(F)
  <2>1. PICK w \in 0..(N - 1) : \E y \in 0..(Len(E[w + 1]) - 1) :
               b = Upto(E, w) \o SubSeq(E[w + 1], 1, y) /\ r = Len(Upto(E, w)) + y
    BY <1>0, <1>9, PrefixIs
  <2>2. PICK y \in 0..(Len(E[w + 1]) - 1) :
               b = Upto(E, w) \o SubSeq(E[w + 1], 1, y) /\ r = Len(Upto(E, w)) + y
    BY <2>1
  <2> DEFINE x == E[w + 1]
             t == SubSeq(x, 1, y)
  <2>3. w + 1 \in 1..N /\ w \in 0..N /\ w \in 0..(N - 1) /\ w \in Nat
    BY <1>0
  <2>4. x \in Seq(Byte) /\ Upto(E, w + 1) = Upto(E, w) \o x /\ Upto(E, w) \in Seq(Byte)
    BY <2>3, UptoIs
  <2>5. w + 1 \in 1..k => Reads(parse, x, V[w + 1])
    BY <1>4 DEF ReadsSome
  <2>6. w = k => Rejects(parse, x)
    <3>1. w # N
      BY <1>0
    <3> QED
      BY <1>4, <3>1 DEF ReadsSome
  <2> HIDE DEF x
  <2>7. t \in Seq(Byte) /\ y \in 0..Len(x) /\ r < Len(Upto(E, w + 1))
    <3>1. /\ Len(Upto(E, w + 1)) = Len(Upto(E, w)) + Len(x)
          /\ Len(Upto(E, w)) \in Nat /\ Len(x) \in Nat
      BY <2>4, ConcatIs
    <3>2. y \in 0..Len(x) /\ r < Len(Upto(E, w + 1))
      BY <2>2, <3>1 DEF x
    <3> QED
      BY <2>4, <3>2, InitialIs
  <2>8. b = Upto(E, w) \o t
    BY <2>2 DEF x
  <2>9. y \in 0..(Len(x) - 1)
    BY <2>2 DEF x
  <2>10. CASE w < k
    <3>1. w + 1 \in 1..k /\ w \in 0..k
      BY <1>0, <2>3, <2>10
    <3>2. parse[t].end = "more"
      BY <2>5, <2>9, <3>1 DEF Reads
    <3> HIDE DEF t
    <3> QED
      BY <1>6, <2>7, <2>8, <3>1, <3>2
  <2>11. CASE w = k
    <3>1. w \in 0..k /\ k < N
      BY <1>0, <2>3, <2>11
    <3>2. parse[t].end \in {"more", "error"}
      BY <2>6, <2>9, <2>11 DEF Rejects
    <3> HIDE DEF t
    <3> QED
      BY <1>6, <2>7, <2>8, <3>1, <3>2
  <2>12. CASE k < w
    <3> HIDE DEF t
    <3> QED
      BY <1>7, <2>3, <2>7, <2>8, <2>12
  <2> QED
    BY <1>0, <2>3, <2>10, <2>11, <2>12
<1> QED
  BY <1>0, <1>8, <1>9

-----------------------------------------------------------------------------
\* The codes of the messages, one by one.
Codes(ms) == [i \in DOMAIN ms |-> Encoded[MaxDepth][ms[i]]]

LEMMA CodesIs ==
  ASSUME NEW ms \in Seq(Message)
  PROVE  /\ Codes(ms) \in Seq(Seq(Byte)) /\ Len(Codes(ms)) = Len(ms) /\ Len(ms) \in Nat
         /\ \A i \in 1..Len(ms) : Codes(ms)[i] = Encoded[MaxDepth][ms[i]] /\ Taken(Codes(ms)[i], ms[i])
         /\ Stream(ms) = FlattenSeq(Codes(ms))
<1> DEFINE E == Codes(ms)
<1>1. Len(ms) \in Nat /\ DOMAIN ms = 1..Len(ms) /\ \A i \in 1..Len(ms) : ms[i] \in Message
  BY LenProperties, ElementOfSeq
<1>2. E = [i \in 1..Len(ms) |-> Encoded[MaxDepth][ms[i]]]
  BY <1>1 DEF Codes
<1>3. \A i \in 1..Len(ms) : Taken(Encoded[MaxDepth][ms[i]], ms[i])
  BY <1>1, MessageTaken
<1>4. \A i \in 1..Len(ms) : Encoded[MaxDepth][ms[i]] \in Seq(Byte)
  BY <1>3 DEF Taken, Written
<1>5. Stream(ms) = FlattenSeq(E)
  BY DEF Stream, Codes
<1> HIDE DEF E
<1>6. E \in Seq(Seq(Byte)) /\ Len(E) = Len(ms)
  BY <1>1, <1>2, <1>4
<1>7. \A i \in 1..Len(ms) : E[i] = Encoded[MaxDepth][ms[i]]
  BY <1>2
<1> QED
  BY <1>1, <1>3, <1>5, <1>6, <1>7 DEF E

\* The codes of a part of the messages.
LEMMA CodesPart ==
  ASSUME NEW ms \in Seq(Message), NEW w \in 0..Len(ms)
  PROVE  /\ Stream(SubSeq(ms, 1, w)) = Upto(Codes(ms), w)
         /\ From(ms, w) \in Seq(Message) /\ Codes(From(ms, w)) = From(Codes(ms), w)
<1> DEFINE E == Codes(ms)
<1>1. /\ E \in Seq(Seq(Byte)) /\ Len(E) = Len(ms) /\ Len(ms) \in Nat
      /\ \A i \in 1..Len(ms) : E[i] = Encoded[MaxDepth][ms[i]]
  BY CodesIs
<1> HIDE DEF E
<1>2. Codes(SubSeq(ms, 1, w)) = SubSeq(E, 1, w)
  <2> DEFINE p == SubSeq(ms, 1, w)
             q == SubSeq(E, 1, w)
  <2>1. p \in Seq(Message) /\ Len(p) = w /\ \A i \in 1..w : p[i] = ms[i]
    BY InitialIs
  <2>2. q \in Seq(Seq(Byte)) /\ Len(q) = w /\ \A i \in 1..w : q[i] = E[i]
    BY <1>1, InitialIs
  <2> HIDE DEF p, q
  <2>3. /\ Codes(p) \in Seq(Seq(Byte)) /\ Len(Codes(p)) = Len(p)
        /\ \A i \in 1..Len(p) : Codes(p)[i] = Encoded[MaxDepth][p[i]]
    BY <2>1, CodesIs
  <2>4. ASSUME NEW i \in 1..w PROVE Codes(p)[i] = q[i]
    <3>1. i \in 1..Len(ms) /\ i \in 1..Len(p)
      BY <1>1, <2>1
    <3>2. Codes(p)[i] = Encoded[MaxDepth][p[i]]
      BY <2>3, <3>1
    <3>3. p[i] = ms[i] /\ q[i] = E[i] /\ E[i] = Encoded[MaxDepth][ms[i]]
      BY <1>1, <2>1, <2>2, <3>1
    <3> QED
      BY <3>2, <3>3
  <2>5. Codes(p) = q
    BY <2>1, <2>2, <2>3, <2>4, SeqEqual
  <2> QED
    BY <2>5 DEF p, q
<1>3. Stream(SubSeq(ms, 1, w)) = Upto(E, w)
  <2>1. SubSeq(ms, 1, w) \in Seq(Message)
    BY InitialIs
  <2> QED
    BY <1>2, <2>1, CodesIs DEF Upto
<1>4. From(ms, w) \in Seq(Message) /\ Codes(From(ms, w)) = From(E, w)
  <2> DEFINE p == From(ms, w)
             q == From(E, w)
  <2>1. p \in Seq(Message) /\ Len(p) = Len(ms) - w /\ \A i \in 1..(Len(ms) - w) : p[i] = ms[w + i]
    BY FromIs
  <2>2. q \in Seq(Seq(Byte)) /\ Len(q) = Len(ms) - w /\ \A i \in 1..(Len(ms) - w) : q[i] = E[w + i]
    BY <1>1, FromIs
  <2> HIDE DEF p, q
  <2>3. /\ Codes(p) \in Seq(Seq(Byte)) /\ Len(Codes(p)) = Len(p)
        /\ \A i \in 1..Len(p) : Codes(p)[i] = Encoded[MaxDepth][p[i]]
    BY <2>1, CodesIs
  <2>4. ASSUME NEW i \in 1..(Len(ms) - w) PROVE Codes(p)[i] = q[i]
    <3>1. w + i \in 1..Len(ms)
      BY <1>1
    <3> QED
      BY <1>1, <2>1, <2>2, <2>3, <3>1
  <2>5. Codes(p) = q
    BY <2>1, <2>2, <2>3, <2>4, SeqEqual
  <2> QED
    BY <2>1, <2>5 DEF p, q
<1> QED
  BY <1>3, <1>4 DEF E

\* Sequences laid end to end, the first w and then some of the others.
LEMMA Joined ==
  ASSUME NEW E \in Seq(Seq(Byte)), NEW w \in 0..Len(E)
  PROVE  /\ Len(From(E, w)) = Len(E) - w /\ From(E, w) \in Seq(Seq(Byte))
         /\ \A k \in 0..(Len(E) - w) : Upto(E, w + k) = Upto(E, w) \o Upto(From(E, w), k)
<1> DEFINE N == Len(E)
           R == From(E, w)
           I == {k \in Nat : k <= N - w => Upto(E, w + k) = Upto(E, w) \o Upto(R, k)}
<1>0. /\ N \in Nat /\ w \in Nat
      /\ \A i \in 0..(N - 1) : Upto(E, i + 1) = Upto(E, i) \o E[i + 1]
      /\ \A i \in 0..N : Upto(E, i) \in Seq(Byte)
      /\ \A i \in 1..N : E[i] \in Seq(Byte)
  <2>1. /\ Len(E) \in Nat
        /\ \A i \in 0..(Len(E) - 1) : Upto(E, i + 1) = Upto(E, i) \o E[i + 1]
        /\ \A i \in 0..Len(E) : Upto(E, i) \in Seq(Byte)
        /\ \A i \in 1..Len(E) : E[i] \in Seq(Byte)
    BY UptoIs
  <2> QED
    BY <2>1
<1>1. R \in Seq(Seq(Byte)) /\ Len(R) = N - w /\ \A i \in 1..(N - w) : R[i] = E[w + i]
  BY FromIs
<1> HIDE DEF R
<1>2. /\ Upto(R, 0) = <<>>
      /\ \A i \in 0..(Len(R) - 1) : Upto(R, i + 1) = Upto(R, i) \o R[i + 1]
      /\ \A i \in 0..Len(R) : Upto(R, i) \in Seq(Byte)
  BY <1>1, UptoIs
<1>8. \A x, y, z \in Seq(Byte) : (x \o y) \o z = x \o (y \o z)
  BY Associative
<1>3. 0 \in I
  <2>1. Upto(E, w) \in Seq(Byte) /\ w + 0 = w
    BY <1>0
  <2>2. Upto(E, w) \o <<>> = Upto(E, w)
    BY <2>1, ConcatEmptySeq
  <2> QED
    BY <1>2, <2>1, <2>2
<1>4. ASSUME NEW k \in Nat, k + 1 <= N - w, Upto(E, w + k) = Upto(E, w) \o Upto(R, k)
      PROVE  Upto(E, w + (k + 1)) = Upto(E, w) \o Upto(R, k + 1)
  <2>1. /\ w + k \in 0..(N - 1) /\ (w + k) + 1 = w + (k + 1) /\ w + (k + 1) \in 1..N
        /\ k \in 0..(Len(R) - 1) /\ k \in 0..Len(R) /\ k + 1 \in 1..(N - w)
    BY <1>0, <1>1, <1>4
  <2> DEFINE p == Upto(E, w)
             q == Upto(R, k)
             x == E[w + (k + 1)]
  <2>2. p \in Seq(Byte) /\ q \in Seq(Byte) /\ x \in Seq(Byte)
    BY <1>0, <1>2, <2>1
  <2>3. Upto(E, w + (k + 1)) = (p \o q) \o x
    BY <1>0, <1>4, <2>1
  <2>4. Upto(R, k + 1) = q \o x
    <3>1. R[k + 1] = x
      BY <1>1, <2>1
    <3> QED
      BY <1>2, <2>1, <3>1
  <2> HIDE DEF p, q, x
  <2>5. (p \o q) \o x = p \o (q \o x)
    BY <1>8, <2>2
  <2> QED
    BY <2>3, <2>4, <2>5 DEF p
<1>5. ASSUME NEW k \in Nat, k \in I PROVE k + 1 \in I
  <2>1. k + 1 \in Nat /\ (k + 1 <= N - w => k <= N - w)
    BY <1>0
  <2> QED
    BY <1>4, <1>5, <2>1
<1> HIDE DEF I
<1>6. Nat \subseteq I
  BY ONLY <1>3, <1>5, Induction
<1>7. \A k \in 0..(N - w) : Upto(E, w + k) = Upto(E, w) \o Upto(R, k)
  BY <1>0, <1>6 DEF I
<1> QED
  BY <1>1, <1>7 DEF R

LEMMA PartsJoined ==
  ASSUME NEW X, NEW V \in Seq(X), NEW m \in 0..Len(V), NEW n \in m..Len(V)
  PROVE  /\ SubSeq(V, 1, m) \o SubSeq(V, m + 1, n) = SubSeq(V, 1, n)
         /\ SubSeq(From(V, m), 1, n - m) = SubSeq(V, m + 1, n)
<1> DEFINE p == SubSeq(V, 1, m)
           q == SubSeq(V, m + 1, n)
           a == SubSeq(V, 1, n)
           f == From(V, m)
           g == SubSeq(f, 1, n - m)
<1>0. Len(V) \in Nat /\ m \in Nat /\ n \in Nat /\ n \in 0..Len(V) /\ m <= n
  BY LenProperties
<1>1. p \in Seq(X) /\ Len(p) = m /\ \A i \in 1..m : p[i] = V[i]
  BY InitialIs
<1>2. q \in Seq(X) /\ Len(q) = n - m /\ \A i \in 1..(n - m) : q[i] = V[m + i]
  BY PartIs
<1>3. a \in Seq(X) /\ Len(a) = n /\ \A i \in 1..n : a[i] = V[i]
  BY <1>0, InitialIs
<1>4. f \in Seq(X) /\ Len(f) = Len(V) - m /\ \A i \in 1..(Len(V) - m) : f[i] = V[m + i]
  BY FromIs
<1> HIDE DEF p, q, a, f
<1>5. g \in Seq(X) /\ Len(g) = n - m /\ \A i \in 1..(n - m) : g[i] = f[i]
  <2>1. n - m \in 0..Len(f)
    BY <1>0, <1>4
  <2> QED
    BY <1>4, <2>1, InitialIs
<1> HIDE DEF g
<1>6. p \o q = a
  <2> DEFINE z == p \o q
  <2>1. /\ z \in Seq(X) /\ Len(z) = Len(p) + Len(q)
        /\ \A i \in 1..Len(p) : z[i] = p[i]
        /\ \A i \in 1..Len(q) : z[Len(p) + i] = q[i]
    <3>1. p \in Seq(X) /\ q \in Seq(X)
      BY <1>1, <1>2
    <3> QED
      BY <3>1, ConcatIs
  <2> HIDE DEF z
  <2>2. ASSUME NEW i \in 1..n PROVE z[i] = a[i]
    <3>1. CASE i <= m
      <4>1. i \in 1..m /\ i \in 1..Len(p)
        BY <1>0, <1>1, <3>1
      <4> QED
        BY <1>1, <1>3, <2>1, <4>1
    <3>2. CASE ~(i <= m)
      <4>1. i - m \in 1..(n - m) /\ m + (i - m) = i
        BY <1>0, <3>2
      <4>2. z[m + (i - m)] = q[i - m]
        BY <1>1, <1>2, <2>1, <4>1
      <4>3. q[i - m] = V[m + (i - m)]
        BY <1>2, <4>1
      <4> QED
        BY <1>3, <4>1, <4>2, <4>3
    <3> QED
      BY <3>1, <3>2
  <2>3. Len(z) = n
    BY <1>0, <1>1, <1>2, <2>1
  <2>4. z = a
    BY <1>3, <2>1, <2>2, <2>3, SeqEqual
  <2> QED
    BY <2>4 DEF z
<1>7. g = q
  <2>1. \A i \in 1..(n - m) : g[i] = q[i]
    <3> SUFFICES ASSUME NEW i \in 1..(n - m) PROVE g[i] = q[i]
      OBVIOUS
    <3>1. i \in 1..(Len(V) - m)
      BY <1>0
    <3> QED
      BY <1>2, <1>4, <1>5, <3>1
  <2> QED
    BY <1>2, <1>5, <2>1, SeqEqual
<1> QED
  BY <1>6, <1>7 DEF p, q, a, f, g

-----------------------------------------------------------------------------
\* The parser has returned the first w messages, and _buffer is what has arrived since.
Arrived(w) ==
  /\ parsed = SubSeq(messages, 1, w) /\ bytes \in Seq(Byte)
  /\ SubSeq(Stream(messages), 1, received) = Upto(Codes(messages), w) \o bytes
  /\ w = Len(messages) \/ received < Len(Upto(Codes(messages), w + 1))

ParserInv ==
  /\ messages \in Seq(Message) /\ received \in 0..Len(Stream(messages))
  /\ threw \in BOOLEAN
  /\ threw = FALSE => \E w \in 0..Len(messages) : Arrived(w)
  /\ threw = TRUE => received > MaxBuffer \/ \E i \in 1..Len(messages) : messages[i] \notin Sound

LEMMA StreamIs ==
  ASSUME NEW ms \in Seq(Message)
  PROVE  /\ Stream(ms) \in Seq(Byte) /\ Len(Stream(ms)) \in Nat
         /\ \A i \in 1..Len(ms) : Len(Upto(Codes(ms), i)) \in Nat
         /\ \A i \in 0..Len(ms) : \A j \in i..Len(ms) :
              Len(Upto(Codes(ms), i)) + (j - i) <= Len(Upto(Codes(ms), j))
<1> DEFINE E == Codes(ms)
<1>1. /\ E \in Seq(Seq(Byte)) /\ Len(E) = Len(ms) /\ Len(ms) \in Nat /\ Stream(ms) = FlattenSeq(E)
      /\ \A i \in 1..Len(ms) : Taken(E[i], ms[i])
  BY CodesIs
<1> HIDE DEF E
<1>2. Stream(ms) \in Seq(Byte) /\ Len(Stream(ms)) \in Nat
  BY <1>1, FlatIs
<1>3. \A i \in 1..Len(E) : Written(E[i])
  BY <1>1 DEF Taken
<1>4. \A i \in 0..Len(E) : \A j \in i..Len(E) : /\ Len(Upto(E, i)) \in Nat
                                               /\ Len(Upto(E, i)) + (j - i) <= Len(Upto(E, j))
  BY <1>1, <1>3, UptoGrows
<1>5. \A i \in 1..Len(ms) : i \in 0..Len(E) /\ i \in i..Len(E)
  BY <1>1
<1>6. \A i \in 1..Len(ms) : Len(Upto(E, i)) \in Nat
  BY <1>4, <1>5
<1> QED
  BY <1>1, <1>2, <1>4, <1>6 DEF E

LEMMA ParserStarts ==
  ASSUME ParserInit
  PROVE  ParserInv
<1>1. messages \in Seq(Message) /\ received = 0 /\ bytes = <<>> /\ parsed = <<>> /\ threw = FALSE
  BY DEF ParserInit
<1> DEFINE E == Codes(messages)
           N == Len(messages)
<1>2. /\ Stream(messages) \in Seq(Byte) /\ Len(Stream(messages)) \in Nat /\ N \in Nat
      /\ \A i \in 0..N : \A j \in i..N : Len(Upto(E, i)) + (j - i) <= Len(Upto(E, j))
      /\ \A i \in 1..N : Len(Upto(E, i)) \in Nat
  BY <1>1, StreamIs, LenProperties
<1>3. Upto(E, 0) = <<>> /\ Len(<<>>) = 0
  BY <1>1, CodesIs, UptoIs
<1>4. N = 0 \/ received < Len(Upto(E, 0 + 1))
  <2>1. N = 0 \/ (0 \in 0..N /\ 1 \in 0..N /\ 1 \in 1..N /\ 0 + 1 = 1)
    BY <1>2
  <2>2. N = 0 \/ Len(Upto(E, 0)) + (1 - 0) <= Len(Upto(E, 1))
    BY <1>2, <2>1
  <2> HIDE DEF E, N
  <2>3. Len(Upto(E, 0)) = 0
    BY <1>3
  <2> QED
    BY <1>1, <1>2, <2>1, <2>2, <2>3
<1>5. Arrived(0)
  <2>1. SubSeq(messages, 1, 0) = <<>> /\ SubSeq(Stream(messages), 1, 0) = <<>>
    BY SubSeqEmpty
  <2>2. <<>> \o <<>> = <<>>
    BY ConcatEmptySeq, EmptySeq
  <2>3. bytes \in Seq(Byte)
    BY <1>1, EmptySeq
  <2> QED
    BY <1>1, <1>3, <1>4, <2>1, <2>2, <2>3 DEF Arrived
<1>6. 0 \in 0..N /\ received \in 0..Len(Stream(messages))
  BY <1>1, <1>2
<1> HIDE DEF E
<1> QED
  BY <1>1, <1>5, <1>6 DEF ParserInv

\* A chunk of the stream behind the first w messages.
LEMMA ChunkIs ==
  ASSUME NEW ms \in Seq(Message), NEW w \in 0..Len(ms), NEW old \in Seq(Byte),
         NEW got \in 0..Len(Stream(ms)), NEW now \in got..Len(Stream(ms)),
         SubSeq(Stream(ms), 1, got) = Upto(Codes(ms), w) \o old
  PROVE  LET b == old \o SubSeq(Stream(ms), got + 1, now)
             R == From(Codes(ms), w)
             r == now - Len(Upto(Codes(ms), w))
         IN  /\ b \in Seq(Byte) /\ Len(b) = r /\ r \in 0..Len(FlattenSeq(R))
             /\ b = SubSeq(FlattenSeq(R), 1, r)
             /\ Len(Upto(Codes(ms), w)) \in Nat
             /\ SubSeq(Stream(ms), 1, now) = Upto(Codes(ms), w) \o b
<1> DEFINE E == Codes(ms)
           S == Stream(ms)
           N == Len(ms)
           R == From(E, w)
           p == Upto(E, w)
           x == SubSeq(S, got + 1, now)
           b == old \o x
           F == FlattenSeq(R)
           r == now - Len(p)
<1>1. /\ E \in Seq(Seq(Byte)) /\ Len(E) = N /\ N \in Nat /\ S = FlattenSeq(E)
  BY CodesIs
<1>2. S \in Seq(Byte) /\ Len(S) \in Nat /\ now \in Nat /\ got \in Nat /\ now \in 0..Len(S)
  BY StreamIs
<1> HIDE DEF E, S
<1>3. /\ p \in Seq(Byte) /\ Len(p) \in Nat
      /\ R \in Seq(Seq(Byte)) /\ Len(R) = N - w
      /\ S = p \o F /\ F \in Seq(Byte) /\ Len(F) \in Nat
  <2>1. p \in Seq(Byte)
    BY <1>1, UptoIs
  <2>2. R \in Seq(Seq(Byte)) /\ Len(R) = N - w /\ \A k \in 0..(N - w) : Upto(E, w + k) = p \o Upto(R, k)
    BY <1>1, Joined
  <2>3. N - w \in 0..(N - w) /\ w + (N - w) = N
    BY <1>1
  <2> HIDE DEF R
  <2>4. Upto(E, N) = S /\ Upto(R, N - w) = F /\ F \in Seq(Byte) /\ Len(F) \in Nat
    BY <1>1, <2>2, FlatIs
  <2>5. Upto(E, w + (N - w)) = p \o Upto(R, N - w)
    BY <2>2, <2>3
  <2>6. S = p \o F
    BY <2>3, <2>4, <2>5
  <2>7. Len(p) \in Nat
    BY <2>1, LenProperties
  <2> QED
    BY <2>1, <2>2, <2>4, <2>6, <2>7
<1> HIDE DEF p, F, R
<1>4. x \in Seq(Byte) /\ Len(x) = now - got
  BY <1>2, PartIs
<1>5. SubSeq(S, 1, got) \o x = SubSeq(S, 1, now)
  BY <1>2, PartsJoined
<1> HIDE DEF x
<1>6. b \in Seq(Byte)
  BY <1>4, ConcatIs
<1>7. SubSeq(S, 1, got) = p \o old
  BY DEF S, p, E
<1>8. SubSeq(S, 1, now) = p \o b
  <2>1. \A u, v, z \in Seq(Byte) : (u \o v) \o z = u \o (v \o z)
    BY Associative
  <2>2. (p \o old) \o x = p \o (old \o x)
    BY <1>3, <1>4, <2>1
  <2> QED
    BY <1>5, <1>7, <2>2
<1> HIDE DEF b
<1>9. Len(b) = r
  <2>1. Len(SubSeq(S, 1, now)) = now
    BY <1>2, InitialIs
  <2>2. Len(p \o b) = Len(p) + Len(b) /\ Len(b) \in Nat
    BY <1>3, <1>6, ConcatIs
  <2> QED
    BY <1>2, <1>3, <1>8, <2>1, <2>2
<1>10. r \in 0..Len(F)
  <2>1. Len(S) = Len(p) + Len(F)
    BY <1>3, ConcatIs
  <2>2. Len(b) \in Nat
    BY <1>6, LenProperties
  <2> QED
    BY <1>2, <1>3, <1>9, <2>1, <2>2
<1>11. b = SubSeq(F, 1, r)
  <2>1. Len(p) + r = now
    BY <1>2, <1>3
  <2> HIDE DEF r
  <2>2. SubSeq(p \o F, 1, Len(p) + r) = p \o SubSeq(F, 1, r)
    BY <1>3, <1>10, BeyondConcat
  <2>3. p \o b = p \o SubSeq(F, 1, r)
    BY <1>3, <1>8, <2>1, <2>2
  <2>4. SubSeq(F, 1, r) \in Seq(Byte)
    BY <1>3, <1>10, InitialIs
  <2> DEFINE c == SubSeq(F, 1, r)
  <2>5. c \in Seq(Byte) /\ p \o b = p \o c
    BY <2>3, <2>4
  <2> HIDE DEF c
  <2>6. From(p \o b, Len(p)) = b /\ From(p \o c, Len(p)) = c
    BY <1>3, <1>6, <2>5, FromConcat
  <2> QED
    BY <2>5, <2>6 DEF c
<1> QED
  BY <1>3, <1>6, <1>8, <1>9, <1>10, <1>11 DEF b, x, p, F, R, E, S

-----------------------------------------------------------------------------
\* What parse() makes of it.
LEMMA ChunkParsed ==
  ASSUME NEW ms \in Seq(Message), NEW w \in 0..Len(ms), NEW now \in 0..Len(Stream(ms)),
         NEW b \in Seq(Byte),
         Len(Upto(Codes(ms), w)) \in Nat,
         now - Len(Upto(Codes(ms), w)) \in 0..Len(FlattenSeq(From(Codes(ms), w))),
         b = SubSeq(FlattenSeq(From(Codes(ms), w)), 1, now - Len(Upto(Codes(ms), w))),
         SubSeq(Stream(ms), 1, now) = Upto(Codes(ms), w) \o b
  PROVE  \/ Parse(b).threw = TRUE /\ \E i \in 1..Len(ms) : ms[i] \notin Sound
         \/ /\ Parse(b).threw = FALSE /\ Parse(b).rest \in Seq(Byte)
            /\ \E v \in 0..Len(ms) :
                 /\ SubSeq(ms, 1, w) \o Parse(b).results = SubSeq(ms, 1, v)
                 /\ SubSeq(Stream(ms), 1, now) = Upto(Codes(ms), v) \o Parse(b).rest
                 /\ v = Len(ms) \/ now < Len(Upto(Codes(ms), v + 1))
<1> DEFINE E == Codes(ms)
           N == Len(ms)
           R == From(E, w)
           V == From(ms, w)
           p == Upto(E, w)
           r == now - Len(p)
           q == Parse(b)
<1>1. /\ E \in Seq(Seq(Byte)) /\ Len(E) = N /\ N \in Nat /\ w \in Nat
  BY CodesIs
<1>2. V \in Seq(Message) /\ Codes(V) = R
  BY CodesPart
<1>3. Len(V) = N - w /\ \A i \in 1..(N - w) : V[i] = ms[w + i]
  BY FromIs
<1> HIDE DEF V
<1>4. R \in Seq(Seq(Byte)) /\ Len(R) = Len(V) /\ \A i \in 1..Len(R) : Taken(R[i], V[i])
  BY <1>2, CodesIs
<1>5. \A k \in 0..(N - w) : Upto(E, w + k) = p \o Upto(R, k)
  BY <1>1, Joined
<1>6. p \in Seq(Byte) /\ Len(p) \in Nat
  BY <1>1, UptoIs
<1>7. r \in 0..Len(FlattenSeq(R)) /\ b = SubSeq(FlattenSeq(R), 1, r) /\ now = Len(p) + r
  <2>1. now \in Nat
    BY StreamIs
  <2> QED
    BY <1>6, <2>1
<1>8. SubSeq(Stream(ms), 1, now) = p \o b
  OBVIOUS
<1> HIDE DEF E, R, p, r
<1>9. ParsedOf(R, V, r, q)
  BY <1>2, <1>4, <1>7, ParseIs
<1> HIDE DEF q
<1>10. CASE q.threw = TRUE /\ \E i \in 1..Len(V) : V[i] \notin Sound
  <2>1. PICK i \in 1..Len(V) : V[i] \notin Sound
    BY <1>10
  <2>2. w + i \in 1..N /\ V[i] = ms[w + i]
    BY <1>1, <1>3
  <2> QED
    BY <1>10, <2>1, <2>2 DEF q
<1>11. ASSUME q.threw = FALSE, NEW k \in 0..Len(R), q.results = SubSeq(V, 1, k), q.rest \in Seq(Byte),
              SubSeq(FlattenSeq(R), 1, r) = Upto(R, k) \o q.rest,
              k = Len(R) \/ r < Len(Upto(R, k + 1))
       PROVE  /\ w + k \in 0..N
              /\ SubSeq(ms, 1, w) \o q.results = SubSeq(ms, 1, w + k)
              /\ SubSeq(Stream(ms), 1, now) = Upto(E, w + k) \o q.rest
              /\ w + k = N \/ now < Len(Upto(E, (w + k) + 1))
  <2>1. k \in Nat /\ w + k \in w..N /\ w + k \in 0..N /\ (w + k) - w = k /\ k \in 0..(N - w)
    BY <1>1, <1>3, <1>4
  <2>2. SubSeq(ms, 1, w) \o q.results = SubSeq(ms, 1, w + k)
    <3> DEFINE n == w + k
    <3>1. n \in w..N /\ n - w = k
      BY <2>1
    <3> HIDE DEF n
    <3>2. /\ SubSeq(ms, 1, w) \o SubSeq(ms, w + 1, n) = SubSeq(ms, 1, n)
          /\ SubSeq(From(ms, w), 1, n - w) = SubSeq(ms, w + 1, n)
      BY <3>1, PartsJoined
    <3> QED
      BY <1>11, <3>1, <3>2 DEF V, n
  <2>3. Upto(R, k) \in Seq(Byte) /\ Upto(E, w + k) = p \o Upto(R, k)
    BY <1>4, <1>5, <2>1, UptoIs
  <2>4. SubSeq(Stream(ms), 1, now) = Upto(E, w + k) \o q.rest
    <3> DEFINE u == Upto(R, k)
    <3>1. u \in Seq(Byte)
      BY <2>3
    <3> HIDE DEF u
    <3>2. \A x, y, z \in Seq(Byte) : (x \o y) \o z = x \o (y \o z)
      BY Associative
    <3>3. (p \o u) \o q.rest = p \o (u \o q.rest)
      BY <1>6, <1>11, <3>1, <3>2
    <3>4. b = u \o q.rest
      BY <1>7, <1>11 DEF u
    <3> QED
      BY <1>8, <2>3, <3>3, <3>4 DEF u
  <2>5. w + k = N \/ now < Len(Upto(E, (w + k) + 1))
    <3>1. CASE k = Len(R)
      BY <1>1, <1>3, <1>4, <3>1
    <3>2. CASE k # Len(R)
      <4>1. k + 1 \in 0..(N - w) /\ k + 1 \in 0..Len(R) /\ (w + k) + 1 = w + (k + 1)
        BY <1>1, <1>3, <1>4, <2>1, <3>2
      <4> DEFINE u == Upto(R, k + 1)
      <4>2. u \in Seq(Byte) /\ Upto(E, w + (k + 1)) = p \o u
        BY <1>4, <1>5, <4>1, UptoIs
      <4>3. r < Len(u)
        BY <1>11, <3>2
      <4> HIDE DEF u
      <4>4. Len(p \o u) = Len(p) + Len(u) /\ Len(u) \in Nat
        BY <1>6, <4>2, ConcatIs
      <4>5. r \in Int
        BY <1>7
      <4>6. now < Len(p \o u)
        BY <1>6, <1>7, <4>3, <4>4, <4>5
      <4> QED
        BY <4>1, <4>2, <4>6
    <3> QED
      BY <3>1, <3>2
  <2> QED
    BY <2>1, <2>2, <2>4, <2>5
<1>12. CASE /\ q.threw = FALSE
            /\ \E k \in 0..Len(R) : /\ q.results = SubSeq(V, 1, k) /\ q.rest \in Seq(Byte)
                                    /\ SubSeq(FlattenSeq(R), 1, r) = Upto(R, k) \o q.rest
                                    /\ k = Len(R) \/ r < Len(Upto(R, k + 1))
  <2>1. PICK k \in 0..Len(R) : /\ q.results = SubSeq(V, 1, k) /\ q.rest \in Seq(Byte)
                               /\ SubSeq(FlattenSeq(R), 1, r) = Upto(R, k) \o q.rest
                               /\ k = Len(R) \/ r < Len(Upto(R, k + 1))
    BY <1>12
  <2>2. /\ w + k \in 0..N
        /\ SubSeq(ms, 1, w) \o q.results = SubSeq(ms, 1, w + k)
        /\ SubSeq(Stream(ms), 1, now) = Upto(E, w + k) \o q.rest
        /\ w + k = N \/ now < Len(Upto(E, (w + k) + 1))
    BY <1>11, <1>12, <2>1
  <2> QED
    BY <1>12, <2>1, <2>2 DEF q, E
<1> QED
  BY <1>9, <1>10, <1>12 DEF ParsedOf

LEMMA ParserKeeps ==
  ASSUME ParserInv, [ParserNext]_parserVars
  PROVE  ParserInv'
<1>1. CASE UNCHANGED parserVars
  BY <1>1 DEF ParserInv, Arrived, parserVars
<1>2. CASE Chunk
  <2> DEFINE S == Stream(messages)
  <2>1. /\ messages \in Seq(Message) /\ messages' = messages /\ received \in 0..Len(S)
        /\ threw = FALSE /\ S \in Seq(Byte) /\ Len(S) \in Nat
    <3>1. messages \in Seq(Message) /\ messages' = messages /\ received \in 0..Len(S)
          /\ threw = FALSE
      BY <1>2 DEF ParserInv, Chunk
    <3> QED
      BY <3>1, StreamIs
  <2>2. PICK w \in 0..Len(messages) : Arrived(w)
    BY <2>1 DEF ParserInv
  <2>3. PICK n \in 1..(Len(S) - received) :
          LET b == bytes \o SubSeq(S, received + 1, received + n)
              p == Parse(b)
          IN  /\ received' = received + n
              /\ IF Len(b) > MaxBuffer
                   THEN bytes' = <<>> /\ threw' = TRUE /\ UNCHANGED parsed
                   ELSE bytes' = p.rest /\ threw' = p.threw /\ parsed' = parsed \o p.results
    BY <1>2 DEF Chunk
  <2> DEFINE now == received + n
             b == bytes \o SubSeq(S, received + 1, now)
             p == Parse(b)
             off == Len(Upto(Codes(messages), w))
  <2>4. /\ received' = now
        /\ IF Len(b) > MaxBuffer
             THEN bytes' = <<>> /\ threw' = TRUE /\ UNCHANGED parsed
             ELSE bytes' = p.rest /\ threw' = p.threw /\ parsed' = parsed \o p.results
    BY <2>3
  <2>5. now \in received..Len(S) /\ now \in 0..Len(S) /\ now \in Nat
    BY <2>1
  <2> HIDE DEF now
  <2>6. /\ b \in Seq(Byte) /\ Len(b) = now - off /\ off \in Nat
        /\ now - off \in 0..Len(FlattenSeq(From(Codes(messages), w)))
        /\ b = SubSeq(FlattenSeq(From(Codes(messages), w)), 1, now - off)
        /\ SubSeq(S, 1, now) = Upto(Codes(messages), w) \o b
    BY <2>1, <2>2, <2>5, ChunkIs DEF Arrived
  <2> HIDE DEF b
  <2>7. \/ p.threw = TRUE /\ \E i \in 1..Len(messages) : messages[i] \notin Sound
        \/ /\ p.threw = FALSE /\ p.rest \in Seq(Byte)
           /\ \E v \in 0..Len(messages) :
                /\ SubSeq(messages, 1, w) \o p.results = SubSeq(messages, 1, v)
                /\ SubSeq(S, 1, now) = Upto(Codes(messages), v) \o p.rest
                /\ v = Len(messages) \/ now < Len(Upto(Codes(messages), v + 1))
    BY <2>1, <2>5, <2>6, ChunkParsed
  <2> HIDE DEF p
  <2>8. CASE Len(b) > MaxBuffer
    <3>1. bytes' = <<>> /\ threw' = TRUE
      BY <2>4, <2>8
    <3>2. now > MaxBuffer
      BY <2>5, <2>6, <2>8, ParserAssumption
    <3> QED
      BY <2>1, <2>4, <2>5, <3>1, <3>2 DEF ParserInv
  <2>9. CASE ~(Len(b) > MaxBuffer)
    <3>1. bytes' = p.rest /\ threw' = p.threw /\ parsed' = parsed \o p.results
      BY <2>4, <2>9
    <3>2. CASE p.threw = TRUE /\ \E i \in 1..Len(messages) : messages[i] \notin Sound
      BY <2>1, <2>4, <2>5, <3>1, <3>2 DEF ParserInv
    <3>3. CASE /\ p.threw = FALSE /\ p.rest \in Seq(Byte)
               /\ \E v \in 0..Len(messages) :
                    /\ SubSeq(messages, 1, w) \o p.results = SubSeq(messages, 1, v)
                    /\ SubSeq(S, 1, now) = Upto(Codes(messages), v) \o p.rest
                    /\ v = Len(messages) \/ now < Len(Upto(Codes(messages), v + 1))
      <4>1. PICK v \in 0..Len(messages) :
                    /\ SubSeq(messages, 1, w) \o p.results = SubSeq(messages, 1, v)
                    /\ SubSeq(S, 1, now) = Upto(Codes(messages), v) \o p.rest
                    /\ v = Len(messages) \/ now < Len(Upto(Codes(messages), v + 1))
        BY <3>3
      <4>2. Arrived(v)'
        <5>1. parsed' = SubSeq(messages', 1, v) /\ bytes' \in Seq(Byte)
          <6>1. parsed = SubSeq(messages, 1, w)
            BY <2>2 DEF Arrived
          <6> QED
            BY <2>1, <3>1, <3>3, <4>1, <6>1
        <5>2. SubSeq(Stream(messages'), 1, received') = Upto(Codes(messages'), v) \o bytes'
          BY <2>1, <2>4, <3>1, <4>1
        <5>3. v = Len(messages') \/ received' < Len(Upto(Codes(messages'), v + 1))
          BY <2>1, <2>4, <4>1
        <5> QED
          BY <5>1, <5>2, <5>3 DEF Arrived
      <4>3. v \in 0..Len(messages')
        BY <2>1
      <4> QED
        BY <2>1, <2>4, <2>5, <3>1, <3>3, <4>2, <4>3 DEF ParserInv
    <3> QED
      BY <2>7, <3>2, <3>3
  <2> QED
    BY <2>8, <2>9
<1> QED
  BY <1>1, <1>2 DEF ParserNext

\* Exactly one number of messages has arrived whole.
LEMMA WholeIs ==
  ASSUME messages \in Seq(Message), NEW w \in 0..Len(messages), Arrived(w),
         received \in 0..Len(Stream(messages))
  PROVE  Whole = w
<1> DEFINE E == Codes(messages)
           N == Len(messages)
           off(n) == Len(Stream(SubSeq(messages, 1, n)))
           Fit(n) == off(n) <= received /\ (n < N => off(n + 1) > received)
<1>1. /\ N \in Nat /\ received \in Nat
      /\ \A i \in 0..N : off(i) = Len(Upto(E, i)) /\ off(i) \in Nat
      /\ \A i \in 0..N : \A j \in i..N : off(i) + (j - i) <= off(j)
  <2>1. N \in Nat
    BY LenProperties
  <2>2. \A i \in 0..N : off(i) = Len(Upto(E, i))
    BY CodesPart
  <2>3. \A i \in 0..N : \A j \in i..N : Len(Upto(E, i)) + (j - i) <= Len(Upto(E, j))
    BY StreamIs
  <2>4. \A i \in 0..N : Len(Upto(E, i)) \in Nat
    <3>1. E \in Seq(Seq(Byte)) /\ Len(E) = N
      BY CodesIs
    <3> HIDE DEF E
    <3>2. \A i \in 0..N : Upto(E, i) \in Seq(Byte)
      BY <3>1, UptoIs
    <3> QED
      BY <3>2, LenProperties
  <2>5. \A i \in 0..N : \A j \in i..N : j \in 0..N
    BY <2>1
  <2>6. received \in Nat
    BY StreamIs
  <2> HIDE DEF off, E
  <2> QED
    BY <2>1, <2>2, <2>3, <2>4, <2>5, <2>6
<1>2. Whole = CHOOSE n \in 0..N : Fit(n)
  BY DEF Whole
<1>3. Len(Upto(E, w)) <= received
  <2>1. E \in Seq(Seq(Byte)) /\ Len(E) = N
    BY CodesIs
  <2>2. SubSeq(Stream(messages), 1, received) = Upto(E, w) \o bytes /\ bytes \in Seq(Byte)
    BY DEF Arrived
  <2> HIDE DEF E
  <2>3. Upto(E, w) \in Seq(Byte)
    BY <2>1, UptoIs
  <2>4. Len(Upto(E, w) \o bytes) = Len(Upto(E, w)) + Len(bytes)
        /\ Len(Upto(E, w)) \in Nat /\ Len(bytes) \in Nat
    BY <2>2, <2>3, ConcatIs
  <2>5. Len(SubSeq(Stream(messages), 1, received)) = received
    BY StreamIs, InitialIs
  <2> QED
    BY <1>1, <2>2, <2>4, <2>5
<1>4. w = N \/ received < Len(Upto(E, w + 1))
  BY DEF Arrived
<1> HIDE DEF off, E
<1>5. Fit(w)
  <2>1. off(w) <= received
    BY <1>1, <1>3
  <2>2. ASSUME w < N PROVE off(w + 1) > received
    <3>1. w + 1 \in 0..N /\ w # N
      BY <1>1, <2>2
    <3> QED
      BY <1>1, <1>4, <3>1
  <2> QED
    BY <2>1, <2>2
<1>6. ASSUME NEW n \in 0..N, Fit(n), NEW m \in 0..N, Fit(m) PROVE ~(n < m)
  <2> SUFFICES ASSUME n < m PROVE FALSE
    OBVIOUS
  <2>1. n + 1 \in 0..N /\ m \in (n + 1)..N /\ n < N
    BY <1>1
  <2>2. off(n + 1) + (m - (n + 1)) <= off(m) /\ off(n + 1) \in Nat /\ off(m) \in Nat
    BY <1>1, <2>1
  <2>3. off(n + 1) > received /\ off(m) <= received
    BY <1>6, <2>1
  <2> QED
    BY <1>1, <2>1, <2>2, <2>3
<1> HIDE DEF Fit
<1>7. Whole \in 0..N /\ Fit(Whole)
  BY <1>2, <1>5
<1>8. ~(Whole < w) /\ ~(w < Whole)
  BY <1>5, <1>6, <1>7
<1> QED
  BY <1>1, <1>7, <1>8

\* CutAnywhere (protocol/parser.js): however the stream is cut, and whatever bytes a payload
\* holds, append and parse have returned exactly the messages that have arrived whole, each
\* once and in order, and throw only for a malformed or too deeply nested message or for more
\* bytes than the buffer may hold.
THEOREM StreamParsed == ParserSpec => []CutAnywhere
<1>1. ParserInit => ParserInv
  BY ParserStarts
<1>2. ParserInv /\ [ParserNext]_parserVars => ParserInv'
  BY ParserKeeps
<1>3. ParserInv => CutAnywhere
  <2> SUFFICES ASSUME ParserInv PROVE CutAnywhere
    OBVIOUS
  <2>1. ASSUME ~threw PROVE parsed = SubSeq(messages, 1, Whole)
    <3>1. PICK w \in 0..Len(messages) : Arrived(w)
      BY <2>1 DEF ParserInv
    <3>2. Whole = w
      BY <3>1, WholeIs DEF ParserInv
    <3> QED
      BY <3>1, <3>2 DEF Arrived
  <2>2. threw => received > MaxBuffer \/ \E i \in 1..Len(messages) : messages[i] \notin Sound
    BY DEF ParserInv
  <2> QED
    BY <2>1, <2>2 DEF CutAnywhere
<1> QED
  BY <1>1, <1>2, <1>3, PTL DEF ParserSpec
===============================================================================
