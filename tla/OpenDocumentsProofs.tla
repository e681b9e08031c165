------------------------- MODULE OpenDocumentsProofs -------------------------
(***************************************************************************)
(* What the server has of a document, for texts, changes, batches and        *)
(* sessions of any length.                                                  *)
(*                                                                          *)
(* The parts build on each other: how measures of a text add up; the byte    *)
(* offsets of its carets, in their order; its lines and where they start; the *)
(* caret that offset_at finds for a position; what apply_change makes of a    *)
(* text, and Tree::edit of the tree of it; the document after one change and  *)
(* after a batch; and, for every step of the session, the tree and the text.   *)
(* Then the token streams: the edit between two of them; the tokens of a text, *)
(* line by line, and of the regions of a Rust source; their encoding; and,     *)
(* for every step, the stream that the client shows.  Last the answers to     *)
(* requests of a range and of completions: the tokens in a range, the word at  *)
(* a caret, and the carets of a region; and the types of all this.            *)
(* What a recursive definition of OpenDocuments computes is first restated as *)
(* a function that satisfies the recursion at each index, and then reasoned   *)
(* about by counting up (CountUp).                                             *)
(***************************************************************************)
EXTENDS OpenDocuments, FiniteSetTheorems, SequenceTheorems, WellFoundedInduction, TLAPS

(* Numbers.  Induction comes from their well-founded order, that is, a set of *)
(* numbers has a least; what holds of all numbers is stated as a set.         *)
LEMMA LeastNumber ==
  ASSUME NEW S, S \subseteq Nat, S # {}
  PROVE  \E m \in S : \A k \in S : m <= k
<1>1. PICK m \in S : \A k \in S : <<k, m>> \notin OpToRel(<, Nat)
  BY WFMin, NatLessThanWellFounded
<1>2. \A k \in S : ~(k < m)
  BY <1>1 DEF OpToRel
<1> QED
  BY <1>2

LEMMA MinIsLeast ==
  ASSUME NEW S, S \subseteq Nat, S # {}
  PROVE  Min(S) \in S /\ \A k \in S : Min(S) <= k
BY LeastNumber DEF Min

(* A set that has 0 and the successor of each of its numbers has them all.    *)
LEMMA CountUp ==
  ASSUME NEW S, 0 \in S, \A n \in Nat : n \in S => n + 1 \in S
  PROVE  \A n \in Nat : n \in S
<1> DEFINE T == Nat \ S
<1> SUFFICES T = {}
  OBVIOUS
<1>1. SUFFICES ASSUME T # {} PROVE FALSE
  OBVIOUS
<1>2. PICK m \in T : \A k \in T : m <= k
  BY <1>1, LeastNumber
<1>3. m # 0 /\ m - 1 \in Nat /\ m - 1 \in S
  BY <1>2
<1> QED
  BY <1>3

(* A bounded set of numbers has a greatest.                                  *)
LEMMA GreatestNumber ==
  ASSUME NEW S, NEW bound \in Nat, S \subseteq 0..bound, S # {}
  PROVE  Max(S) \in S /\ \A k \in S : k <= Max(S)
<1> DEFINE T == {bound - k : k \in S}
<1>1. T \subseteq Nat /\ T # {}
  <2>1. \A k \in S : bound - k \in Nat
    OBVIOUS
  <2> QED
    BY <2>1
<1>2. PICK t \in T : \A u \in T : t <= u
  BY <1>1, LeastNumber
<1>3. PICK m \in S : t = bound - m
  OBVIOUS
<1>4. \A k \in S : m >= k
  BY <1>2, <1>3
<1>5. /\ Max(S) \in S
      /\ \A k \in S : Max(S) >= k
  BY <1>4 DEF Max
<1> QED
  BY <1>5
-----------------------------------------------------------------------------
Texts == Seq(Chars)
-----------------------------------------------------------------------------
(* Measures.                                                                *)
LEMMA WidthType ==
  ASSUME NEW e, NEW c
  PROVE  EncodedLen(e, c) \in Nat \ {0}
BY DEF EncodedLen, Utf8, Utf16

(* The recursion of Measure.                                                *)
Sums(e, s, m, f) ==
  /\ f[0] = 0
  /\ \A i \in 1..m : f[i] = f[i - 1] + EncodedLen(e, s[i])

LEMMA MeasureSteps ==
  ASSUME NEW e, NEW s \in Texts
  PROVE  \E f : Measure(e, s) = f[Len(s)] /\ Sums(e, s, Len(s), f)
<1> DEFINE Step(f, i) == IF i = 0 THEN 0 ELSE f[i - 1] + EncodedLen(e, s[i])
           sum == CHOOSE f : f = [i \in 0..Len(s) |-> Step(f, i)]
<1>1. Len(s) \in Nat
  BY DEF Texts
<1>2. Measure(e, s) = sum[Len(s)]
  BY DEF Measure
<1>3. sum = [i \in 0..Len(s) |-> Step(sum, i)]
  <2> DEFINE N == {n \in Nat : \E f : f = [i \in 0..n |-> Step(f, i)]}
  <2>1. 0 \in N
    <3>1. [i \in 0..0 |-> 0] = [i \in 0..0 |-> Step([j \in 0..0 |-> 0], i)]
      OBVIOUS
    <3> QED
      BY <3>1
  <2>2. ASSUME NEW n \in Nat, n \in N PROVE n + 1 \in N
    <3>1. PICK f : f = [i \in 0..n |-> Step(f, i)]
      BY <2>2
    <3>2. \A i \in 0..n : f[i] = Step(f, i)
      <4> HIDE DEF Step
      <4> QED
        BY <3>1
    <3> DEFINE g == [i \in 0..(n + 1) |-> IF i = n + 1 THEN Step(f, i) ELSE f[i]]
    <3>3. \A i \in 0..(n + 1) : g[i] = Step(g, i)
      <4> TAKE i \in 0..(n + 1)
      <4>1. CASE i = 0
        BY <3>1, <4>1
      <4>2. CASE i # 0
        <5>1. i - 1 \in 0..n /\ g[i - 1] = f[i - 1]
          BY <4>2
        <5>2. Step(g, i) = Step(f, i)
          BY <5>1
        <5>3. i # n + 1 => f[i] = Step(f, i)
          BY <3>2
        <5> QED
          BY <5>2, <5>3
      <4> QED
        BY <4>1, <4>2
    <3>4. g = [i \in 0..(n + 1) |-> Step(g, i)]
      BY <3>3
    <3> HIDE DEF g
    <3> QED
      BY <3>4
  <2> HIDE DEF N
  <2>3. Len(s) \in N
    BY <1>1, <2>1, <2>2, CountUp
  <2> QED
    BY <2>3 DEF N
<1> HIDE DEF sum, Step
<1>4. \A i \in 0..Len(s) : sum[i] = Step(sum, i)
  BY <1>3
<1>5. sum[0] = Step(sum, 0) /\ \A i \in 1..Len(s) : sum[i] = Step(sum, i)
  BY <1>1, <1>4
<1>6. sum[0] = 0
  BY <1>5 DEF Step
<1>7. \A i \in 1..Len(s) : sum[i] = sum[i - 1] + EncodedLen(e, s[i])
  BY <1>1, <1>5 DEF Step
<1> QED
  BY <1>2, <1>6, <1>7 DEF Sums

(* Two such recursions agree as far as the texts do.                          *)
LEMMA MeasuresAgree ==
  ASSUME NEW e, NEW s, NEW t, NEW f, NEW g, NEW m \in Nat,
         Sums(e, s, m, f), Sums(e, t, m, g), \A i \in 1..m : s[i] = t[i]
  PROVE  f[m] = g[m] /\ f[m] \in Nat
<1> USE DEF Sums
<1> DEFINE N == {n \in Nat : n <= m => f[n] = g[n] /\ f[n] \in Nat}
<1>1. 0 \in N
  OBVIOUS
<1>2. ASSUME NEW n \in Nat, n \in N PROVE n + 1 \in N
  <2> SUFFICES ASSUME n + 1 <= m PROVE f[n + 1] = g[n + 1] /\ f[n + 1] \in Nat
    OBVIOUS
  <2>1. n + 1 \in 1..m /\ (n + 1) - 1 = n /\ f[n] = g[n] /\ f[n] \in Nat
    BY <1>2
  <2>2. /\ f[n + 1] = f[n] + EncodedLen(e, s[n + 1])
        /\ g[n + 1] = g[n] + EncodedLen(e, s[n + 1])
    BY <2>1
  <2> QED
    BY <2>1, <2>2, WidthType
<1> HIDE DEF N
<1>3. m \in N
  BY <1>1, <1>2, CountUp
<1> QED
  BY <1>3 DEF N

LEMMA MeasureEmpty ==
  ASSUME NEW e
  PROVE  Measure(e, <<>>) = 0
<1>1. <<>> \in Texts /\ Len(<<>>) = 0
  BY DEF Texts
<1> QED
  BY <1>1, MeasureSteps DEF Sums

LEMMA MeasureType ==
  ASSUME NEW e, NEW s \in Texts
  PROVE  Measure(e, s) \in Nat
<1>1. PICK f : Measure(e, s) = f[Len(s)] /\ Sums(e, s, Len(s), f)
  BY MeasureSteps
<1>2. Len(s) \in Nat
  BY DEF Texts
<1> QED
  BY <1>1, <1>2, MeasuresAgree

LEMMA MeasureAppend ==
  ASSUME NEW e, NEW s \in Texts, NEW c \in Chars
  PROVE  Measure(e, Append(s, c)) = Measure(e, s) + EncodedLen(e, c)
<1> DEFINE t == Append(s, c)
<1>1. /\ t \in Texts /\ Len(t) = Len(s) + 1 /\ Len(s) \in Nat
      /\ \A i \in 1..Len(s) : s[i] = t[i]
      /\ t[Len(s) + 1] = c
  BY AppendProperties DEF Texts
<1> HIDE DEF t
<1>2. PICK f : Measure(e, s) = f[Len(s)] /\ Sums(e, s, Len(s), f)
  BY MeasureSteps
<1>3. PICK g : Measure(e, t) = g[Len(t)] /\ Sums(e, t, Len(t), g)
  BY <1>1, MeasureSteps
<1>4. Sums(e, t, Len(s), g)
  BY <1>1, <1>3 DEF Sums
<1>5. f[Len(s)] = g[Len(s)]
  BY <1>1, <1>2, <1>4, MeasuresAgree
<1>6. Len(t) \in 1..Len(t) /\ Len(t) - 1 = Len(s)
  BY <1>1
<1>7. g[Len(t)] = g[Len(s)] + EncodedLen(e, c)
  BY <1>1, <1>3, <1>6 DEF Sums
<1> QED
  BY <1>2, <1>3, <1>5, <1>7 DEF t
-----------------------------------------------------------------------------
(* Parts of a text.                                                         *)
LEMMA PartFacts ==
  ASSUME NEW s \in Texts, NEW i \in 0..Len(s), NEW j \in i..Len(s)
  PROVE  /\ SubSeq(s, i + 1, j) \in Texts
         /\ Len(SubSeq(s, i + 1, j)) = j - i
         /\ \A k \in 1..(j - i) : SubSeq(s, i + 1, j)[k] = s[i + k]
<1>1. /\ Len(s) \in Nat /\ i \in Nat /\ j \in Nat /\ i <= j /\ j <= Len(s)
      /\ \A k \in 1..Len(s) : s[k] \in Chars
  BY DEF Texts
<1>2. /\ SubSeq(s, i + 1, j) \in Seq(Chars)
      /\ Len(SubSeq(s, i + 1, j)) = IF i + 1 <= j THEN j - (i + 1) + 1 ELSE 0
      /\ \A k \in 1..(j - (i + 1) + 1) : SubSeq(s, i + 1, j)[k] = s[(i + 1) + k - 1]
  BY <1>1, SubSeqProperties DEF Texts
<1>3. \A k \in 1..(j - i) : (i + 1) + k - 1 = i + k
  BY <1>1
<1> QED
  BY <1>1, <1>2, <1>3 DEF Texts

LEMMA SameText ==
  ASSUME NEW s \in Texts, NEW t \in Texts, Len(s) = Len(t),
         \A i \in 1..Len(s) : s[i] = t[i]
  PROVE  s = t
<1>1. s \in Seq(Chars) /\ t \in Seq(Chars)
  BY DEF Texts
<1> QED
  BY <1>1, SeqEqual

LEMMA PartGrows ==
  ASSUME NEW s \in Texts, NEW i \in 0..Len(s), NEW j \in i..Len(s), j < Len(s)
  PROVE  /\ s[j + 1] \in Chars
         /\ SubSeq(s, i + 1, j + 1) = Append(SubSeq(s, i + 1, j), s[j + 1])
<1> DEFINE t == SubSeq(s, i + 1, j)
           u == SubSeq(s, i + 1, j + 1)
<1>1. Len(s) \in Nat /\ i \in Nat /\ j \in Nat /\ j + 1 \in i..Len(s)
  BY DEF Texts
<1>2. s[j + 1] \in Chars
  BY <1>1 DEF Texts
<1>3. t \in Texts /\ Len(t) = j - i /\ \A k \in 1..(j - i) : t[k] = s[i + k]
  BY PartFacts
<1>4. u \in Texts /\ Len(u) = (j + 1) - i /\ \A k \in 1..((j + 1) - i) : u[k] = s[i + k]
  BY <1>1, PartFacts
<1> HIDE DEF t, u
<1>5. /\ Append(t, s[j + 1]) \in Texts /\ Len(Append(t, s[j + 1])) = Len(t) + 1
      /\ \A k \in 1..Len(t) : Append(t, s[j + 1])[k] = t[k]
      /\ Append(t, s[j + 1])[Len(t) + 1] = s[j + 1]
  BY <1>2, <1>3, AppendProperties DEF Texts
<1>6. \A k \in 1..Len(u) : u[k] = Append(t, s[j + 1])[k]
  <2> TAKE k \in 1..Len(u)
  <2>1. CASE k = Len(t) + 1
    BY <1>1, <1>3, <1>4, <1>5, <2>1
  <2>2. CASE k \in 1..Len(t)
    BY <1>1, <1>3, <1>4, <1>5, <2>2
  <2> QED
    BY <1>1, <1>3, <1>4, <2>1, <2>2
<1>7. Len(u) = Len(Append(t, s[j + 1]))
  BY <1>1, <1>3, <1>4, <1>5
<1>8. u = Append(t, s[j + 1])
  BY <1>4, <1>5, <1>6, <1>7, SameText
<1> QED
  BY <1>2, <1>8 DEF t, u

LEMMA MeasureStep ==
  ASSUME NEW e, NEW s \in Texts, NEW i \in 0..Len(s), NEW j \in i..Len(s), j < Len(s)
  PROVE  Measure(e, SubSeq(s, i + 1, j + 1)) =
           Measure(e, SubSeq(s, i + 1, j)) + EncodedLen(e, s[j + 1])
BY PartGrows, PartFacts, MeasureAppend, ZenonT(30)

(* What is longer measures more.                                             *)
LEMMA MeasureGrows ==
  ASSUME NEW e, NEW s \in Texts,
         NEW i \in 0..Len(s), NEW j \in i..Len(s), NEW k \in j..Len(s)
  PROVE  Measure(e, SubSeq(s, i + 1, j)) + (k - j) <= Measure(e, SubSeq(s, i + 1, k))
<1> DEFINE M(m) == Measure(e, SubSeq(s, i + 1, m))
           N == {n \in Nat : j + n <= Len(s) => M(j) + n <= M(j + n)}
<1>1. Len(s) \in Nat /\ i \in Nat /\ j \in Nat /\ k \in Nat
  BY DEF Texts
<1>2. \A m \in i..Len(s) : M(m) \in Nat
  BY PartFacts, MeasureType
<1>3. \A m \in i..Len(s) : m < Len(s) => M(m + 1) >= M(m) + 1
  <2> TAKE m \in i..Len(s)
  <2>1. ASSUME m < Len(s) PROVE M(m + 1) = M(m) + EncodedLen(e, s[m + 1])
    BY <2>1, MeasureStep
  <2>2. M(m) \in Nat
    BY <1>2
  <2> HIDE DEF M
  <2> QED
    BY <2>1, <2>2, WidthType
<1> HIDE DEF M
<1>4. 0 \in N
  BY <1>1, <1>2
<1>5. ASSUME NEW n \in Nat, n \in N PROVE n + 1 \in N
  <2> SUFFICES ASSUME j + (n + 1) <= Len(s) PROVE M(j) + (n + 1) <= M(j + (n + 1))
    OBVIOUS
  <2>1. M(j) + n <= M(j + n)
    BY <1>1, <1>5
  <2>2. j + n \in i..Len(s) /\ j + n < Len(s) /\ (j + n) + 1 = j + (n + 1)
    BY <1>1
  <2>3. M(j + (n + 1)) >= M(j + n) + 1
    BY <1>3, <2>2
  <2>4. M(j) \in Nat /\ M(j + n) \in Nat /\ M(j + (n + 1)) \in Nat
    BY <1>1, <1>2, <2>2
  <2> QED
    BY <2>1, <2>3, <2>4
<1> HIDE DEF N
<1>6. k - j \in Nat /\ j + (k - j) = k
  BY <1>1
<1>7. k - j \in N
  BY <1>4, <1>5, <1>6, CountUp
<1>8. M(j) + (k - j) <= M(k)
  BY <1>1, <1>6, <1>7 DEF N
<1> QED
  BY <1>8 DEF M

(* Two texts in a row.                                                       *)
LEMMA ConcatFacts ==
  ASSUME NEW s \in Texts, NEW t \in Texts
  PROVE  /\ s \o t \in Texts
         /\ Len(s \o t) = Len(s) + Len(t)
         /\ \A i \in 1..Len(s) : (s \o t)[i] = s[i]
         /\ \A i \in 1..Len(t) : (s \o t)[Len(s) + i] = t[i]
<1>1. Len(s) \in Nat /\ Len(t) \in Nat
  BY DEF Texts
<1> QED
  BY <1>1, ConcatProperties DEF Texts

LEMMA NothingBefore ==
  ASSUME NEW s \in Texts
  PROVE  SubSeq(s, 1, 0) = <<>>
<1>1. s \in Seq(Chars) /\ 1 \in Int /\ 0 \in Int /\ 1 > 0
  BY DEF Texts
<1> QED
  BY <1>1, SubSeqEmpty

(* A part of a text measures the same in a text that contains it.              *)
LEMMA MeasureSecond ==
  ASSUME NEW e, NEW t \in Texts, NEW u \in Texts,
         NEW a \in Nat, a + Len(t) <= Len(u),
         \A i \in 1..Len(t) : u[a + i] = t[i],
         NEW n \in 0..Len(t)
  PROVE  Measure(e, SubSeq(u, 1, a + n)) =
           Measure(e, SubSeq(u, 1, a)) + Measure(e, SubSeq(t, 1, n))
<1> DEFINE M(m) == Measure(e, SubSeq(u, 1, m))
           K(m) == Measure(e, SubSeq(t, 1, m))
           N == {m \in Nat : m <= Len(t) => M(a + m) = M(a) + K(m)}
<1>1. Len(t) \in Nat /\ Len(u) \in Nat /\ n \in Nat
  BY DEF Texts
<1>2. \A m \in 0..Len(u) : m < Len(u) => M(m + 1) = M(m) + EncodedLen(e, u[m + 1])
  <2> TAKE m \in 0..Len(u)
  <2>1. 0 \in 0..Len(u) /\ 0 + 1 = 1
    BY <1>1
  <2> QED
    BY <2>1, MeasureStep
<1>3. \A m \in 0..Len(t) : m < Len(t) => K(m + 1) = K(m) + EncodedLen(e, t[m + 1])
  <2> TAKE m \in 0..Len(t)
  <2>1. 0 \in 0..Len(t) /\ 0 + 1 = 1
    BY <1>1
  <2> QED
    BY <2>1, MeasureStep
<1>4. \A m \in 0..Len(u) : M(m) \in Nat
  <2> TAKE m \in 0..Len(u)
  <2>1. 0 \in 0..Len(u) /\ 0 + 1 = 1
    BY <1>1
  <2> QED
    BY <2>1, PartFacts, MeasureType
<1>5. \A m \in 0..Len(t) : K(m) \in Nat
  <2> TAKE m \in 0..Len(t)
  <2>1. 0 \in 0..Len(t) /\ 0 + 1 = 1
    BY <1>1
  <2> QED
    BY <2>1, PartFacts, MeasureType
<1>6. K(0) = 0
  BY MeasureEmpty, NothingBefore
<1> HIDE DEF M, K
<1>7. 0 \in N
  BY <1>1, <1>4, <1>6
<1>8. ASSUME NEW m \in Nat, m \in N PROVE m + 1 \in N
  <2> SUFFICES ASSUME m + 1 <= Len(t) PROVE M(a + (m + 1)) = M(a) + K(m + 1)
    OBVIOUS
  <2>1. M(a + m) = M(a) + K(m)
    BY <1>1, <1>8
  <2>2. /\ m \in 0..Len(t) /\ m < Len(t) /\ m + 1 \in 1..Len(t) /\ a + m \in 0..Len(u)
        /\ a + m < Len(u) /\ (a + m) + 1 = a + (m + 1) /\ a \in 0..Len(u)
    BY <1>1
  <2>3. M(a + (m + 1)) = M(a + m) + EncodedLen(e, u[a + (m + 1)])
    BY <1>2, <2>2
  <2>4. K(m + 1) = K(m) + EncodedLen(e, t[m + 1])
    BY <1>3, <2>2
  <2>5. u[a + (m + 1)] = t[m + 1]
    BY <2>2
  <2>6. M(a) \in Nat /\ K(m) \in Nat /\ EncodedLen(e, t[m + 1]) \in Nat
    BY <1>4, <1>5, <2>2, WidthType
  <2> HIDE DEF N
  <2> QED
    BY <2>1, <2>3, <2>4, <2>5, <2>6
<1> HIDE DEF N
<1>9. n \in N
  BY <1>1, <1>7, <1>8, CountUp
<1> QED
  BY <1>9 DEF N, M, K
-----------------------------------------------------------------------------
(* Byte offsets of carets.                                                  *)
Offset(s, i) == Bytes(Before(s, i))

LEMMA OffsetFacts ==
  ASSUME NEW s \in Texts
  PROVE  /\ \A i \in 0..Len(s) : Offset(s, i) \in Nat
         /\ Offset(s, 0) = 0
         /\ Offset(s, Len(s)) = Bytes(s)
         /\ Bytes(s) \in Nat
         /\ \A i \in 0..Len(s) : i < Len(s) => Offset(s, i + 1) = Offset(s, i) + Utf8(s[i + 1])
         /\ \A i, j \in 0..Len(s) : i <= j => Offset(s, i) + (j - i) <= Offset(s, j)
<1>1. 0 \in 0..Len(s) /\ 0 + 1 = 1 /\ Len(s) \in Nat
  BY DEF Texts
<1>2. \A i \in 0..Len(s) : Offset(s, i) \in Nat
  BY <1>1, PartFacts, MeasureType DEF Offset, Bytes, Before
<1>3. Offset(s, 0) = 0
  BY MeasureEmpty, NothingBefore DEF Offset, Bytes, Before
<1>4. Offset(s, Len(s)) = Bytes(s)
  BY SubSeqFull DEF Offset, Bytes, Before, Texts
<1>5. ASSUME NEW i \in 0..Len(s), i < Len(s)
      PROVE  Offset(s, i + 1) = Offset(s, i) + Utf8(s[i + 1])
  BY <1>1, <1>5, MeasureStep DEF Offset, Bytes, Before, EncodedLen
<1>6. ASSUME NEW i \in 0..Len(s), NEW j \in 0..Len(s), i <= j
      PROVE  Offset(s, i) + (j - i) <= Offset(s, j)
  <2>1. i \in 0..Len(s) /\ j \in i..Len(s)
    BY <1>6
  <2> QED
    BY <1>1, <2>1, MeasureGrows DEF Offset, Bytes, Before
<1>7. Bytes(s) \in Nat
  BY MeasureType DEF Bytes
<1> QED
  BY <1>2, <1>3, <1>4, <1>5, <1>6, <1>7

(* In the order of the carets.                                              *)
LEMMA OffsetOrder ==
  ASSUME NEW s \in Texts, NEW i \in 0..Len(s), NEW j \in 0..Len(s)
  PROVE  /\ Offset(s, i) <= Offset(s, j) <=> i <= j
         /\ Offset(s, i) = Offset(s, j) <=> i = j
<1>1. i \in Int /\ j \in Int /\ Offset(s, i) \in Nat /\ Offset(s, j) \in Nat
  BY OffsetFacts
<1>2. /\ i <= j => Offset(s, i) + (j - i) <= Offset(s, j)
      /\ j <= i => Offset(s, j) + (i - j) <= Offset(s, i)
  BY OffsetFacts
<1> QED
  BY <1>1, <1>2

LEMMA IndexOfOffset ==
  ASSUME NEW s \in Texts, NEW i \in 0..Len(s)
  PROVE  IndexAt(s, Offset(s, i)) = i
<1>1. \A k \in 0..Len(s) : Offset(s, k) = Offset(s, i) <=> k = i
  BY OffsetOrder
<1> QED
  BY <1>1 DEF IndexAt, Offset

LEMMA SliceOfOffsets ==
  ASSUME NEW s \in Texts, NEW i \in 0..Len(s), NEW j \in 0..Len(s)
  PROVE  Slice(s, Offset(s, i), Offset(s, j)) = SubSeq(s, i + 1, j)
BY IndexOfOffset DEF Slice

LEMMA BoundariesAreOffsets ==
  ASSUME NEW s \in Texts
  PROVE  Boundaries(s) = {Offset(s, i) : i \in 0..Len(s)}
BY DEF Boundaries, Offset
-----------------------------------------------------------------------------
(* Lines.                                                                   *)
Breaks(s, i) == {j \in 1..i : s[j] = "n"}

LEMMA LinesFacts ==
  ASSUME NEW s, NEW i \in Nat
  PROVE  /\ LinesBefore(s, i) \in Nat
         /\ LinesBefore(s, 0) = 0
         /\ LinesBefore(s, i + 1) = IF s[i + 1] = "n" THEN LinesBefore(s, i) + 1
                                    ELSE LinesBefore(s, i)
         /\ LineStart(s, i) \in 0..i
         /\ LineStart(s, 0) = 0
         /\ LineStart(s, i + 1) = IF s[i + 1] = "n" THEN i + 1 ELSE LineStart(s, i)
         /\ LineStart(s, i) = 0 \/ s[LineStart(s, i)] = "n"
         /\ \A j \in 1..i : s[j] = "n" => j <= LineStart(s, i)
<1>1. IsFiniteSet(1..i)
  BY FS_Interval
<1>2. IsFiniteSet(Breaks(s, i)) /\ Cardinality(Breaks(s, i)) \in Nat
  BY <1>1, FS_Subset, FS_CardinalityType DEF Breaks
<1>3. Breaks(s, i + 1) = IF s[i + 1] = "n" THEN Breaks(s, i) \cup {i + 1} ELSE Breaks(s, i)
  <2>1. 1..(i + 1) = (1..i) \cup {i + 1}
    OBVIOUS
  <2> QED
    BY <2>1 DEF Breaks
<1>4. i + 1 \notin Breaks(s, i)
  BY DEF Breaks
<1>5. Breaks(s, 0) = {}
  BY DEF Breaks
<1>6. /\ LinesBefore(s, i) = Cardinality(Breaks(s, i))
      /\ LinesBefore(s, i + 1) = Cardinality(Breaks(s, i + 1))
      /\ LinesBefore(s, 0) = Cardinality(Breaks(s, 0))
  BY DEF LinesBefore, Breaks
<1>7. LinesBefore(s, i + 1) = IF s[i + 1] = "n" THEN LinesBefore(s, i) + 1
                              ELSE LinesBefore(s, i)
  BY <1>2, <1>3, <1>4, <1>6, FS_AddElement
<1>8. LinesBefore(s, 0) = 0
  BY <1>5, <1>6, FS_EmptySet
<1> DEFINE T(k) == {0} \cup Breaks(s, k)
<1>9. \A k \in Nat : LineStart(s, k) = Max(T(k))
  BY DEF LineStart, Breaks
<1>10. \A k \in Nat : Max(T(k)) \in T(k) /\ \A j \in T(k) : j <= Max(T(k))
  <2> TAKE k \in Nat
  <2>1. T(k) \subseteq 0..k /\ T(k) # {}
    BY DEF Breaks
  <2> QED
    BY <2>1, GreatestNumber
<1>11. LineStart(s, i) \in T(i) /\ \A j \in T(i) : j <= LineStart(s, i)
  BY <1>9, <1>10
<1>12. LineStart(s, i + 1) \in T(i + 1) /\ \A j \in T(i + 1) : j <= LineStart(s, i + 1)
  <2> HIDE DEF T
  <2>1. i + 1 \in Nat
    OBVIOUS
  <2> QED
    BY <1>9, <1>10, <2>1
<1>13. LineStart(s, 0) = 0
  BY <1>5, <1>9, <1>10
<1>14. /\ T(i) = {0} \cup Breaks(s, i) /\ T(i) \subseteq 0..i
       /\ T(i + 1) = IF s[i + 1] = "n" THEN T(i) \cup {i + 1} ELSE T(i)
  BY <1>3 DEF Breaks
<1> HIDE DEF T
<1>15. CASE s[i + 1] = "n"
  <2>1. i + 1 \in T(i + 1) /\ T(i + 1) \subseteq 0..(i + 1)
    BY <1>14, <1>15
  <2>2. LineStart(s, i + 1) = i + 1
    BY <1>12, <2>1
  <2> QED
    BY <1>2, <1>6, <1>7, <1>8, <1>11, <1>13, <1>14, <1>15, <2>2 DEF Breaks
<1>16. CASE s[i + 1] # "n"
  <2>1. T(i + 1) = T(i)
    BY <1>14, <1>16
  <2>2. LineStart(s, i + 1) = LineStart(s, i)
    BY <1>11, <1>12, <1>14, <2>1
  <2> QED
    BY <1>2, <1>6, <1>7, <1>8, <1>11, <1>13, <1>14, <1>16, <2>2 DEF Breaks
<1> QED
  BY <1>15, <1>16

(* What comes after does not matter.                                         *)
LEMMA LinesAgree ==
  ASSUME NEW s, NEW t, NEW i \in Nat, \A j \in 1..i : s[j] = t[j]
  PROVE  LinesBefore(s, i) = LinesBefore(t, i) /\ LineStart(s, i) = LineStart(t, i)
<1>1. Breaks(s, i) = Breaks(t, i)
  BY DEF Breaks
<1> QED
  BY <1>1 DEF Breaks, LinesBefore, LineStart

(* Two carets are in one line just if there is no break between them.          *)
LEMMA LinesGrow ==
  ASSUME NEW s, NEW i \in Nat, NEW k \in Nat, i <= k
  PROVE  /\ LinesBefore(s, i) <= LinesBefore(s, k)
         /\ (LinesBefore(s, i) = LinesBefore(s, k)) <=>
               \A j \in (i + 1)..k : s[j] # "n"
         /\ (\A j \in (i + 1)..k : s[j] # "n") => LineStart(s, i) = LineStart(s, k)
<1> DEFINE P(m) == /\ LinesBefore(s, i) <= LinesBefore(s, m)
                   /\ (LinesBefore(s, i) = LinesBefore(s, m)) <=>
                        \A j \in (i + 1)..m : s[j] # "n"
                   /\ (\A j \in (i + 1)..m : s[j] # "n") => LineStart(s, i) = LineStart(s, m)
           N == {n \in Nat : P(i + n)}
<1>1. 0 \in N
  BY LinesFacts
<1>2. ASSUME NEW n \in Nat, n \in N PROVE n + 1 \in N
  <2> DEFINE m == i + n
  <2>1. P(m) /\ m \in Nat /\ m + 1 = i + (n + 1)
    BY <1>2
  <2>2. (i + 1)..(m + 1) = ((i + 1)..m) \cup {m + 1}
    BY <2>1
  <2>3. /\ LinesBefore(s, m + 1) = IF s[m + 1] = "n" THEN LinesBefore(s, m) + 1
                                   ELSE LinesBefore(s, m)
        /\ LineStart(s, m + 1) = IF s[m + 1] = "n" THEN m + 1 ELSE LineStart(s, m)
        /\ LinesBefore(s, m) \in Nat /\ LinesBefore(s, i) \in Nat
    BY <2>1, LinesFacts
  <2> HIDE DEF m
  <2>4. CASE s[m + 1] = "n"
    <3>1. P(m + 1)
      BY <2>1, <2>2, <2>3, <2>4
    <3> QED
      BY <2>1, <3>1
  <2>5. CASE s[m + 1] # "n"
    <3>1. P(m + 1)
      BY <2>1, <2>2, <2>3, <2>5
    <3> QED
      BY <2>1, <3>1
  <2> QED
    BY <2>4, <2>5
<1> HIDE DEF N
<1>3. k - i \in Nat /\ i + (k - i) = k
  OBVIOUS
<1>4. k - i \in N
  BY <1>1, <1>2, <1>3, CountUp
<1>5. P(i + (k - i))
  BY <1>4 DEF N
<1> QED
  BY <1>3, <1>5
-----------------------------------------------------------------------------
(* The starts of the lines.  The recursion of ComputeLineStarts.              *)
Scans(s, m, f) ==
  /\ f[0] = <<0>>
  /\ \A i \in 1..m : f[i] = IF s[i] = "n" THEN Append(f[i - 1], Offset(s, i))
                            ELSE f[i - 1]

LEMMA ComputeLineStartsSteps ==
  ASSUME NEW s \in Texts
  PROVE  \E f : ComputeLineStarts(s) = f[Len(s)] /\ Scans(s, Len(s), f)
<1> DEFINE Step(f, i) == IF i = 0 THEN <<0>>
                         ELSE IF s[i] = "n" THEN Append(f[i - 1], Bytes(Before(s, i)))
                         ELSE f[i - 1]
           starts == CHOOSE f : f = [i \in 0..Len(s) |-> Step(f, i)]
<1>1. Len(s) \in Nat
  BY DEF Texts
<1>2. ComputeLineStarts(s) = starts[Len(s)]
  BY DEF ComputeLineStarts
<1>3. starts = [i \in 0..Len(s) |-> Step(starts, i)]
  <2> DEFINE N == {n \in Nat : \E f : f = [i \in 0..n |-> Step(f, i)]}
  <2>1. 0 \in N
    <3>1. [i \in 0..0 |-> <<0>>] = [i \in 0..0 |-> Step([j \in 0..0 |-> <<0>>], i)]
      OBVIOUS
    <3> QED
      BY <3>1
  <2>2. ASSUME NEW n \in Nat, n \in N PROVE n + 1 \in N
    <3>1. PICK f : f = [i \in 0..n |-> Step(f, i)]
      BY <2>2
    <3>2. \A i \in 0..n : f[i] = Step(f, i)
      <4> HIDE DEF Step
      <4> QED
        BY <3>1
    <3> DEFINE g == [i \in 0..(n + 1) |-> IF i = n + 1 THEN Step(f, i) ELSE f[i]]
    <3>3. \A i \in 0..(n + 1) : g[i] = Step(g, i)
      <4> TAKE i \in 0..(n + 1)
      <4>1. CASE i = 0
        BY <3>1, <4>1
      <4>2. CASE i # 0
        <5>1. i - 1 \in 0..n /\ g[i - 1] = f[i - 1]
          BY <4>2
        <5>2. Step(g, i) = Step(f, i)
          BY <5>1
        <5>3. i # n + 1 => f[i] = Step(f, i)
          BY <3>2
        <5> QED
          BY <5>2, <5>3
      <4> QED
        BY <4>1, <4>2
    <3>4. g = [i \in 0..(n + 1) |-> Step(g, i)]
      BY <3>3
    <3> HIDE DEF g
    <3> QED
      BY <3>4
  <2> HIDE DEF N
  <2>3. Len(s) \in N
    BY <1>1, <2>1, <2>2, CountUp
  <2> QED
    BY <2>3 DEF N
<1> HIDE DEF starts, Step
<1>4. \A i \in 0..Len(s) : starts[i] = Step(starts, i)
  BY <1>3
<1>5. starts[0] = Step(starts, 0) /\ \A i \in 1..Len(s) : starts[i] = Step(starts, i)
  BY <1>1, <1>4
<1>6. starts[0] = <<0>>
  BY <1>5 DEF Step
<1>7. \A i \in 1..Len(s) : starts[i] = IF s[i] = "n" THEN Append(starts[i - 1], Offset(s, i))
                                      ELSE starts[i - 1]
  BY <1>1, <1>5 DEF Step, Offset
<1> QED
  BY <1>2, <1>6, <1>7 DEF Scans

(* Line by line: where the line of a caret starts, and that there is no line   *)
(* without one.                                                             *)
AreLineStarts(s, m, starts) ==
  /\ starts \in Seq(Nat)
  /\ Len(starts) = LinesBefore(s, m) + 1
  /\ \A k \in 0..m : starts[LinesBefore(s, k) + 1] = Offset(s, LineStart(s, k))
  /\ \A l \in 1..Len(starts) : \E k \in 0..m : LinesBefore(s, k) + 1 = l /\ LineStart(s, k) = k

LEMMA LineStartsFacts ==
  ASSUME NEW s \in Texts
  PROVE  AreLineStarts(s, Len(s), ComputeLineStarts(s))
<1>1. PICK f : ComputeLineStarts(s) = f[Len(s)] /\ Scans(s, Len(s), f)
  BY ComputeLineStartsSteps
<1>2. Len(s) \in Nat
  BY DEF Texts
<1> DEFINE N == {n \in Nat : n <= Len(s) => AreLineStarts(s, n, f[n])}
<1>3. 0 \in N
  <2>1. f[0] = <<0>> /\ <<0>> \in Seq(Nat) /\ Len(<<0>>) = 1 /\ <<0>>[1] = 0
    BY <1>1 DEF Scans
  <2>2. LinesBefore(s, 0) = 0 /\ LineStart(s, 0) = 0 /\ Offset(s, 0) = 0
    BY LinesFacts, OffsetFacts
  <2>3. \A k \in 0..0 : f[0][LinesBefore(s, k) + 1] = Offset(s, LineStart(s, k))
    BY <2>1, <2>2
  <2>4. \A l \in 1..Len(f[0]) : \E k \in 0..0 : LinesBefore(s, k) + 1 = l
                                                /\ LineStart(s, k) = k
    <3> TAKE l \in 1..Len(f[0])
    <3>1. l = 1 /\ 0 \in 0..0
      BY <2>1
    <3> QED
      BY <2>2, <3>1
  <2>5. AreLineStarts(s, 0, f[0])
    BY <2>1, <2>2, <2>3, <2>4 DEF AreLineStarts
  <2> QED
    BY <2>5
<1>4. ASSUME NEW n \in Nat, n \in N PROVE n + 1 \in N
  <2> SUFFICES ASSUME n + 1 <= Len(s) PROVE AreLineStarts(s, n + 1, f[n + 1])
    OBVIOUS
  <2>1. AreLineStarts(s, n, f[n]) /\ n + 1 \in 1..Len(s) /\ n + 1 \in 0..Len(s)
    BY <1>2, <1>4
  <2>2. f[n + 1] = IF s[n + 1] = "n" THEN Append(f[n], Offset(s, n + 1)) ELSE f[n]
    <3>1. (n + 1) - 1 = n
      OBVIOUS
    <3> QED
      BY <1>1, <2>1, <3>1 DEF Scans
  <2>3. /\ LinesBefore(s, n + 1) = IF s[n + 1] = "n" THEN LinesBefore(s, n) + 1
                                   ELSE LinesBefore(s, n)
        /\ LineStart(s, n + 1) = IF s[n + 1] = "n" THEN n + 1 ELSE LineStart(s, n)
        /\ LinesBefore(s, n) \in Nat
    BY LinesFacts
  <2>4. \A k \in 0..n : LinesBefore(s, k) \in Nat /\ LinesBefore(s, k) <= LinesBefore(s, n)
    BY LinesFacts, LinesGrow
  <2>5. Offset(s, n + 1) \in Nat
    BY <2>1, OffsetFacts
  <2>6. \A k \in 0..(n + 1) : k \in 0..n \/ k = n + 1
    OBVIOUS
  <2>7. CASE s[n + 1] = "n"
    <3> DEFINE u == Append(f[n], Offset(s, n + 1))
    <3>1. /\ u \in Seq(Nat) /\ Len(u) = Len(f[n]) + 1
          /\ \A l \in 1..Len(f[n]) : u[l] = f[n][l]
          /\ u[Len(f[n]) + 1] = Offset(s, n + 1)
      BY <2>1, <2>5, AppendProperties DEF AreLineStarts
    <3>2. f[n + 1] = u
      BY <2>2, <2>7
    <3> HIDE DEF u
    <3>3. Len(f[n]) = LinesBefore(s, n) + 1
      BY <2>1 DEF AreLineStarts
    <3>4. \A k \in 0..n : u[LinesBefore(s, k) + 1] = Offset(s, LineStart(s, k))
      <4> TAKE k \in 0..n
      <4>1. LinesBefore(s, k) + 1 \in 1..Len(f[n])
        BY <2>3, <2>4, <3>3
      <4> QED
        BY <2>1, <3>1, <4>1 DEF AreLineStarts
    <3>5. u[LinesBefore(s, n + 1) + 1] = Offset(s, LineStart(s, n + 1))
      BY <2>3, <2>7, <3>1, <3>3
    <3>6. \A l \in 1..Len(u) : \E k \in 0..(n + 1) : LinesBefore(s, k) + 1 = l
                                                     /\ LineStart(s, k) = k
      <4> TAKE l \in 1..Len(u)
      <4>1. CASE l = Len(f[n]) + 1
        <5>1. n + 1 \in 0..(n + 1)
          OBVIOUS
        <5> QED
          BY <2>3, <2>7, <3>3, <4>1, <5>1
      <4>2. CASE l \in 1..Len(f[n])
        <5>1. PICK k \in 0..n : LinesBefore(s, k) + 1 = l /\ LineStart(s, k) = k
          BY <2>1, <4>2 DEF AreLineStarts
        <5> QED
          BY <5>1
      <4> QED
        BY <2>3, <3>1, <3>3, <4>1, <4>2
    <3> QED
      BY <2>3, <2>6, <2>7, <3>1, <3>2, <3>3, <3>4, <3>5, <3>6 DEF AreLineStarts
  <2>8. CASE s[n + 1] # "n"
    <3>1. f[n + 1] = f[n] /\ n \in 0..n
      BY <2>2, <2>8
    <3>2. \A l \in 1..Len(f[n]) : \E k \in 0..(n + 1) : LinesBefore(s, k) + 1 = l
                                                        /\ LineStart(s, k) = k
      <4> TAKE l \in 1..Len(f[n])
      <4>1. PICK k \in 0..n : LinesBefore(s, k) + 1 = l /\ LineStart(s, k) = k
        BY <2>1 DEF AreLineStarts
      <4> QED
        BY <4>1
    <3> QED
      BY <2>1, <2>3, <2>6, <2>8, <3>1, <3>2 DEF AreLineStarts
  <2> QED
    BY <2>7, <2>8
<1> HIDE DEF N
<1>5. Len(s) \in N
  BY <1>2, <1>3, <1>4, CountUp
<1> QED
  BY <1>1, <1>2, <1>5 DEF N
-----------------------------------------------------------------------------
(* The offsets of positions.                                                 *)

(* The caret z is where the line of i ends.                                  *)
EndsLine(s, i, z) ==
  /\ z \in i..Len(s)
  /\ AtLineEnd(s, z)
  /\ \A j \in (i + 1)..z : s[j] # "n"

LEMMA LinesEnd ==
  ASSUME NEW s \in Texts, NEW i \in 0..Len(s)
  PROVE  \E z : EndsLine(s, i, z)
<1> DEFINE E == {z \in i..Len(s) : AtLineEnd(s, z)}
<1>1. Len(s) \in Nat /\ i \in Nat /\ Len(s) \in i..Len(s)
  BY DEF Texts
<1>2. E \subseteq Nat /\ Len(s) \in E
  BY <1>1 DEF AtLineEnd
<1>3. PICK z \in E : \A k \in E : z <= k
  BY <1>2, LeastNumber
<1>4. \A j \in (i + 1)..z : s[j] # "n"
  <2> SUFFICES ASSUME NEW j \in (i + 1)..z, s[j] = "n" PROVE FALSE
    OBVIOUS
  <2>1. j - 1 \in i..Len(s) /\ (j - 1) + 1 = j
    BY <1>1, <1>3
  <2>2. j - 1 \in E
    BY <2>1 DEF AtLineEnd
  <2> QED
    BY <1>1, <1>3, <2>1, <2>2
<1> QED
  BY <1>3, <1>4 DEF EndsLine

LEMMA LineSpanFacts ==
  ASSUME NEW s \in Texts, NEW i \in 0..Len(s), NEW z, EndsLine(s, i, z)
  PROVE  LET d == NewDocument(s)
             line == LinesBefore(s, i)
         IN  /\ d.text = s
             /\ line + 1 \in DOMAIN d.lineStarts
             /\ LineSpan(d, line) = [start |-> Offset(s, LineStart(s, i)), end |-> Offset(s, z)]
<1> DEFINE d == NewDocument(s)
           line == LinesBefore(s, i)
           starts == ComputeLineStarts(s)
<1>1. Len(s) \in Nat /\ i \in Nat /\ z \in Nat /\ i <= z /\ z <= Len(s)
  BY DEF Texts, EndsLine
<1>2. AreLineStarts(s, Len(s), starts)
  BY LineStartsFacts
<1>3. DOMAIN starts = 1..(LinesBefore(s, Len(s)) + 1)
  BY <1>2 DEF AreLineStarts
<1>4. /\ line \in Nat /\ LinesBefore(s, Len(s)) \in Nat
      /\ LinesBefore(s, i) = LinesBefore(s, z)
      /\ LinesBefore(s, i) <= LinesBefore(s, Len(s))
  BY <1>1, LinesFacts, LinesGrow DEF EndsLine
<1>5. d.text = s /\ d.lineStarts = starts
  BY DEF NewDocument
<1>6. starts[line + 1] = Offset(s, LineStart(s, i))
  BY <1>2 DEF AreLineStarts
<1>7. CASE z = Len(s)
  <2>1. line + 2 \notin DOMAIN starts
    BY <1>3, <1>4, <1>7
  <2>2. Bytes(s) = Offset(s, z)
    BY <1>7, OffsetFacts
  <2> HIDE DEF d, starts, line
  <2>3. LineSpan(d, line) = [start |-> Offset(s, LineStart(s, i)), end |-> Offset(s, z)]
    BY <1>5, <1>6, <2>1, <2>2 DEF LineSpan
  <2> QED
    BY <1>3, <1>4, <1>5, <2>3 DEF d, starts, line
<1>8. CASE z # Len(s)
  <2>1. s[z + 1] = "n" /\ z + 1 \in 0..Len(s) /\ z \in 0..Len(s) /\ z < Len(s)
    BY <1>1, <1>8 DEF EndsLine, AtLineEnd
  <2>2. LinesBefore(s, z + 1) = line + 1 /\ LineStart(s, z + 1) = z + 1
    BY <1>1, <1>4, <2>1, LinesFacts
  <2>3. LinesBefore(s, z + 1) <= LinesBefore(s, Len(s))
    BY <1>1, <2>1, LinesGrow
  <2>4. line + 2 \in DOMAIN starts
    BY <1>3, <1>4, <2>2, <2>3
  <2>5. starts[line + 2] = Offset(s, z + 1)
    <3>1. starts[LinesBefore(s, z + 1) + 1] = Offset(s, LineStart(s, z + 1))
      BY <1>2, <2>1 DEF AreLineStarts
    <3>2. (line + 1) + 1 = line + 2
      BY <1>4
    <3> HIDE DEF starts, line
    <3> QED
      BY <2>2, <3>1, <3>2
  <2>6. Offset(s, z + 1) = Offset(s, z) + 1 /\ Offset(s, z) \in Nat
    BY <2>1, OffsetFacts DEF Utf8
  <2> HIDE DEF d, starts, line
  <2>7. LineSpan(d, line) = [start |-> Offset(s, LineStart(s, i)), end |-> Offset(s, z)]
    BY <1>5, <1>6, <2>4, <2>5, <2>6 DEF LineSpan
  <2> QED
    BY <1>3, <1>4, <1>5, <2>7 DEF d, starts, line
<1> QED
  BY <1>7, <1>8

(* The units between the start of the line of i and a caret.                  *)
Column(s, i, k) == Units(SubSeq(s, LineStart(s, i) + 1, k))

LEMMA ColumnFacts ==
  ASSUME NEW s \in Texts, NEW i \in 0..Len(s)
  PROVE  /\ \A k \in LineStart(s, i)..Len(s) : Column(s, i, k) \in Nat
         /\ \A j, k \in LineStart(s, i)..Len(s) : j < k => Column(s, i, j) < Column(s, i, k)
<1> DEFINE a == LineStart(s, i)
<1>1. a \in 0..Len(s) /\ Len(s) \in Nat
  BY LinesFacts DEF Texts
<1>2. \A k \in a..Len(s) : Column(s, i, k) \in Nat
  BY <1>1, PartFacts, MeasureType DEF Column, Units
<1>3. ASSUME NEW j \in a..Len(s), NEW k \in a..Len(s), j < k
      PROVE  Column(s, i, j) < Column(s, i, k)
  <2>1. k \in j..Len(s)
    BY <1>3
  <2>2. Column(s, i, j) + (k - j) <= Column(s, i, k)
    BY <1>1, <2>1, MeasureGrows DEF Column, Units
  <2> QED
    BY <1>1, <1>2, <1>3, <2>2
<1> QED
  BY <1>2, <1>3

(* The places on a line that offset_at can come to.                           *)
Reached(s, i, z, character) ==
  {k \in LineStart(s, i)..z : k = z \/ Column(s, i, k) >= character}

LEMMA OffsetAtLine ==
  ASSUME NEW s \in Texts, NEW i \in 0..Len(s), NEW z, EndsLine(s, i, z),
         NEW p \in Positions, p.line = LinesBefore(s, i)
  PROVE  OffsetAt(NewDocument(s), p) =
           Min({Offset(s, k) : k \in Reached(s, i, z, p.character)})
<1> DEFINE d == NewDocument(s)
           a == LineStart(s, i)
           A == {b \in Boundaries(s) :
                    /\ Offset(s, a) <= b /\ b <= Offset(s, z)
                    /\ \/ b = Offset(s, z)
                       \/ Units(Slice(s, Offset(s, a), b)) >= p.character}
           B == {Offset(s, k) : k \in Reached(s, i, z, p.character)}
<1>1. Len(s) \in Nat /\ a \in 0..Len(s) /\ z \in 0..Len(s)
  <2>1. Len(s) \in Nat /\ i \in Nat /\ z \in i..Len(s)
    BY DEF Texts, EndsLine
  <2>2. a \in 0..i
    BY <2>1, LinesFacts
  <2> QED
    BY <2>1, <2>2
<1>2. /\ d.text = s
      /\ p.line + 1 \in DOMAIN d.lineStarts
      /\ LineSpan(d, p.line) = [start |-> Offset(s, a), end |-> Offset(s, z)]
  BY LineSpanFacts
<1>3. OffsetAt(d, p) = Min(A)
  <2> HIDE DEF d, a
  <2> QED
    BY <1>2 DEF OffsetAt
<1>4. \A k \in 0..Len(s) : /\ Offset(s, a) <= Offset(s, k) <=> a <= k
                           /\ Offset(s, k) <= Offset(s, z) <=> k <= z
                           /\ Offset(s, k) = Offset(s, z) <=> k = z
                           /\ Units(Slice(s, Offset(s, a), Offset(s, k))) = Column(s, i, k)
  <2> TAKE k \in 0..Len(s)
  <2>1. /\ Offset(s, a) <= Offset(s, k) <=> a <= k
        /\ Offset(s, k) <= Offset(s, z) <=> k <= z
        /\ Offset(s, k) = Offset(s, z) <=> k = z
    BY <1>1, OffsetOrder
  <2>2. Units(Slice(s, Offset(s, a), Offset(s, k))) = Column(s, i, k)
    <3>1. Slice(s, Offset(s, a), Offset(s, k)) = SubSeq(s, a + 1, k)
      BY <1>1, SliceOfOffsets
    <3> QED
      BY <3>1 DEF Column
  <2> QED
    BY <2>1, <2>2
<1>5. A \subseteq B
  <2> SUFFICES ASSUME NEW b \in A PROVE b \in B
    OBVIOUS
  <2>1. PICK k \in 0..Len(s) : b = Offset(s, k)
    BY BoundariesAreOffsets
  <2>2. k \in a..z /\ (k = z \/ Column(s, i, k) >= p.character)
    BY <1>1, <1>4, <2>1
  <2>3. k \in Reached(s, i, z, p.character)
    BY <2>2 DEF Reached
  <2> QED
    BY <2>1, <2>3
<1>6. B \subseteq A
  <2> SUFFICES ASSUME NEW k \in Reached(s, i, z, p.character) PROVE Offset(s, k) \in A
    OBVIOUS
  <2>1. k \in a..z /\ (k = z \/ Column(s, i, k) >= p.character) /\ k \in 0..Len(s)
    BY <1>1 DEF Reached
  <2>2. Offset(s, k) \in Boundaries(s)
    BY <2>1, BoundariesAreOffsets
  <2> QED
    BY <1>1, <1>4, <2>1, <2>2
<1> HIDE DEF A, B
<1>7. A = B
  BY <1>5, <1>6
<1> QED
  BY <1>3, <1>7 DEF B

(* A position that a caret is the first to reach is its.                      *)
LEMMA OffsetAtCaret ==
  ASSUME NEW s \in Texts, NEW i \in 0..Len(s), NEW z, EndsLine(s, i, z),
         NEW p \in Positions, p.line = LinesBefore(s, i),
         i \in Reached(s, i, z, p.character),
         \A k \in Reached(s, i, z, p.character) : i <= k
  PROVE  OffsetAt(NewDocument(s), p) = Offset(s, i)
<1> DEFINE R == Reached(s, i, z, p.character)
           B == {Offset(s, k) : k \in R}
<1>1. z \in 0..Len(s) /\ LineStart(s, i) \in 0..i /\ i \in Nat /\ Len(s) \in Nat
  BY LinesFacts DEF Texts, EndsLine
<1>2. R \subseteq 0..Len(s)
  BY <1>1 DEF Reached
<1> HIDE DEF R
<1>3. \A k \in R : Offset(s, k) \in Nat /\ Offset(s, i) <= Offset(s, k)
  BY <1>2, OffsetFacts, OffsetOrder DEF R
<1>4. B \subseteq Nat /\ Offset(s, i) \in B
  BY <1>3 DEF R
<1>5. Min(B) \in B /\ \A b \in B : Min(B) <= b
  BY <1>4, MinIsLeast
<1>6. \A b \in B : Offset(s, i) <= b
  BY <1>3
<1>7. Min(B) \in Nat /\ Offset(s, i) \in Nat
  BY <1>4, <1>5
<1> HIDE DEF B
<1>8. Min(B) = Offset(s, i)
  BY <1>4, <1>5, <1>6, <1>7
<1> QED
  BY <1>8, OffsetAtLine DEF B, R

(* What a position means to the client, under an encoding: the caret there, or *)
(* one at the end of its line or of the text that it is past.                 *)
Means(e, s, p, i) ==
  LET column == Measure(e, SubSeq(s, LineStart(s, i) + 1, i))
  IN  /\ p \in Positions
      /\ \/ p.line = LinesBefore(s, i) /\ p.character = column
         \/ p.line = LinesBefore(s, i) /\ p.character >= column /\ AtLineEnd(s, i)
         \/ p.line > LinesBefore(s, i) /\ i = Len(s)

LEMMA PositionsMean ==
  ASSUME NEW s \in Texts, NEW i \in 0..Len(s), NEW p \in PositionsOf(s, i)
  PROVE  Means(encoding, s, p, i)
<1> DEFINE column == Measure(encoding, SubSeq(s, LineStart(s, i) + 1, i))
           line == LinesBefore(s, i)
<1>1. i \in Nat /\ Len(s) \in Nat /\ LineStart(s, i) \in 0..i /\ line \in Nat
  BY LinesFacts DEF Texts
<1>2. column \in Nat
  <2>1. LineStart(s, i) \in 0..Len(s) /\ i \in LineStart(s, i)..Len(s)
    BY <1>1
  <2> QED
    BY <2>1, PartFacts, MeasureType
<1>3. CaretPosition(s, i) = [line |-> line, character |-> column]
  BY DEF CaretPosition, Position, Units
<1> HIDE DEF column, line
<1>4. \/ p = [line |-> line, character |-> column]
      \/ p = [line |-> line, character |-> column + 3] /\ AtLineEnd(s, i)
      \/ p = [line |-> line + 1, character |-> 0] /\ i = Len(s)
  BY <1>3 DEF PositionsOf, Position
<1>5. /\ p \in Positions
      /\ \/ p.line = line /\ p.character = column
         \/ p.line = line /\ p.character >= column /\ AtLineEnd(s, i)
         \/ p.line > line /\ i = Len(s)
  BY <1>1, <1>2, <1>4 DEF Positions
<1> QED
  BY <1>5 DEF Means, column, line

(* offset_at finds the caret that is meant ...                               *)
LEMMA OffsetOfMeant ==
  ASSUME NEW s \in Texts, NEW i \in 0..Len(s), NEW p, Means(encoding, s, p, i)
  PROVE  OffsetAt(NewDocument(s), p) = Offset(s, i)
<1>1. i \in Nat /\ Len(s) \in Nat /\ LineStart(s, i) \in 0..i /\ LinesBefore(s, i) \in Nat
  BY LinesFacts DEF Texts
<1>2. p \in Positions
  BY DEF Means
<1>3. CASE p.line = LinesBefore(s, i)
  <2>1. \/ p.character = Column(s, i, i)
        \/ p.character >= Column(s, i, i) /\ AtLineEnd(s, i)
    BY <1>1, <1>3 DEF Means, Column, Units
  <2>2. PICK z : EndsLine(s, i, z)
    BY LinesEnd
  <2>3. z \in i..Len(s) /\ (AtLineEnd(s, i) => z = i)
    BY <1>1, <2>2 DEF EndsLine, AtLineEnd
  <2>4. /\ \A k \in LineStart(s, i)..Len(s) : Column(s, i, k) \in Nat
        /\ \A j, k \in LineStart(s, i)..Len(s) : j < k => Column(s, i, j) < Column(s, i, k)
    BY ColumnFacts
  <2>5. p.character \in Nat
    BY <1>2 DEF Positions
  <2>6. i \in Reached(s, i, z, p.character)
    BY <1>1, <2>1, <2>3, <2>4, <2>5 DEF Reached
  <2>7. ASSUME NEW k \in Reached(s, i, z, p.character) PROVE i <= k
    <3>1. SUFFICES ASSUME k < i PROVE FALSE
      BY <1>1, <2>3, <2>7 DEF Reached
    <3>2. k \in LineStart(s, i)..Len(s) /\ i \in LineStart(s, i)..Len(s)
      BY <1>1, <2>3, <2>7 DEF Reached
    <3>3. Column(s, i, k) >= p.character
      BY <1>1, <2>3, <3>1 DEF Reached
    <3> QED
      BY <2>1, <2>4, <2>5, <3>1, <3>2, <3>3
  <2> QED
    BY <1>2, <1>3, <2>2, <2>6, <2>7, OffsetAtCaret
<1>4. CASE p.line # LinesBefore(s, i)
  <2>1. p.line > LinesBefore(s, i) /\ i = Len(s) /\ p.line \in Nat
    BY <1>2, <1>4 DEF Means, Positions
  <2>2. AreLineStarts(s, Len(s), ComputeLineStarts(s))
    BY LineStartsFacts
  <2>3. p.line + 1 \notin DOMAIN ComputeLineStarts(s)
    BY <1>1, <2>1, <2>2 DEF AreLineStarts
  <2>4. OffsetAt(NewDocument(s), p) = Bytes(s)
    BY <2>3 DEF OffsetAt, NewDocument
  <2> QED
    BY <2>1, <2>4, OffsetFacts
<1> QED
  BY <1>3, <1>4

(* ... and some caret for every position.                                    *)
LEMMA OffsetAtClamps ==
  ASSUME NEW s \in Texts, NEW p \in Positions
  PROVE  \E i \in 0..Len(s) : OffsetAt(NewDocument(s), p) = Offset(s, i)
<1>1. AreLineStarts(s, Len(s), ComputeLineStarts(s))
  BY LineStartsFacts
<1>2. Len(s) \in Nat /\ Len(s) \in 0..Len(s) /\ p.line \in Nat
  BY DEF Texts, Positions
<1>3. CASE p.line + 1 \in DOMAIN ComputeLineStarts(s)
  <2>1. p.line + 1 \in 1..Len(ComputeLineStarts(s))
    BY <1>1, <1>3 DEF AreLineStarts
  <2>2. PICK i \in 0..Len(s) : LinesBefore(s, i) + 1 = p.line + 1
    BY <1>1, <2>1 DEF AreLineStarts
  <2>3. i \in Nat /\ LinesBefore(s, i) \in Nat /\ LineStart(s, i) \in 0..i
    BY <1>2, LinesFacts
  <2>4. p.line = LinesBefore(s, i)
    BY <1>2, <2>2, <2>3
  <2>5. PICK z : EndsLine(s, i, z)
    BY LinesEnd
  <2> DEFINE R == Reached(s, i, z, p.character)
             B == {Offset(s, k) : k \in R}
  <2>6. z \in R /\ R \subseteq 0..Len(s)
    BY <1>2, <2>3, <2>5 DEF EndsLine, Reached
  <2>7. OffsetAt(NewDocument(s), p) = Min(B)
    BY <2>4, <2>5, OffsetAtLine
  <2> HIDE DEF R
  <2>8. B \subseteq Nat /\ B # {}
    BY <2>6, OffsetFacts
  <2>9. Min(B) \in B
    BY <2>8, MinIsLeast
  <2> QED
    BY <2>6, <2>7, <2>9
<1>4. CASE p.line + 1 \notin DOMAIN ComputeLineStarts(s)
  <2>1. OffsetAt(NewDocument(s), p) = Bytes(s)
    BY <1>4 DEF OffsetAt, NewDocument
  <2> QED
    BY <1>2, <2>1, OffsetFacts
<1> QED
  BY <1>3, <1>4
-----------------------------------------------------------------------------
(* Changes of a range.                                                      *)
LEMMA ReplacedFacts ==
  ASSUME NEW s \in Texts, NEW new \in Texts, NEW i \in 0..Len(s), NEW j \in i..Len(s)
  PROVE  /\ Replaced(s, i, j, new) \in Texts
         /\ Len(Replaced(s, i, j, new)) = i + Len(new) + (Len(s) - j)
         /\ \A k \in 1..i : Replaced(s, i, j, new)[k] = s[k]
         /\ \A k \in 1..Len(new) : Replaced(s, i, j, new)[i + k] = new[k]
         /\ \A k \in 1..(Len(s) - j) : Replaced(s, i, j, new)[(i + Len(new)) + k] = s[j + k]
<1> DEFINE a == SubSeq(s, 1, i)
           b == SubSeq(s, j + 1, Len(s))
           ab == a \o new
<1>1. Len(s) \in Nat /\ Len(new) \in Nat /\ i \in Nat /\ j \in Nat /\ i <= j /\ j <= Len(s)
  BY DEF Texts
<1>2. a \in Texts /\ Len(a) = i /\ \A k \in 1..i : a[k] = s[k]
  <2>1. 0 \in 0..Len(s) /\ i \in 0..Len(s) /\ 0 + 1 = 1 /\ i - 0 = i /\ \A k \in 1..i : 0 + k = k
    BY <1>1
  <2> QED
    BY <2>1, PartFacts
<1>3. b \in Texts /\ Len(b) = Len(s) - j /\ \A k \in 1..(Len(s) - j) : b[k] = s[j + k]
  <2>1. j \in 0..Len(s) /\ Len(s) \in j..Len(s)
    BY <1>1
  <2> QED
    BY <2>1, PartFacts
<1> HIDE DEF a, b
<1>4. /\ ab \in Texts /\ Len(ab) = i + Len(new)
      /\ \A k \in 1..i : ab[k] = a[k]
      /\ \A k \in 1..Len(new) : ab[i + k] = new[k]
  BY <1>2, ConcatFacts
<1> HIDE DEF ab
<1>5. /\ ab \o b \in Texts /\ Len(ab \o b) = (i + Len(new)) + (Len(s) - j)
      /\ \A k \in 1..(i + Len(new)) : (ab \o b)[k] = ab[k]
      /\ \A k \in 1..(Len(s) - j) : (ab \o b)[(i + Len(new)) + k] = b[k]
  <2>1. /\ ab \o b \in Texts /\ Len(ab \o b) = Len(ab) + Len(b)
        /\ \A k \in 1..Len(ab) : (ab \o b)[k] = ab[k]
        /\ \A k \in 1..Len(b) : (ab \o b)[Len(ab) + k] = b[k]
    BY <1>3, <1>4, ConcatFacts
  <2> QED
    BY <1>3, <1>4, <2>1
<1>6. Replaced(s, i, j, new) = ab \o b
  BY DEF Replaced, Before, ab, a, b
<1>7. \A k \in 1..i : k \in 1..(i + Len(new))
  BY <1>1
<1>8. \A k \in 1..Len(new) : i + k \in 1..(i + Len(new))
  BY <1>1
<1> QED
  BY <1>1, <1>2, <1>3, <1>4, <1>5, <1>6, <1>7, <1>8

(* A change whose range lies between two carets replaces what is there.        *)
LEMMA ApplyChangeReplaces ==
  ASSUME NEW s \in Texts, NEW new \in Texts, NEW i \in 0..Len(s), NEW j \in i..Len(s),
         NEW range,
         OffsetAt(NewDocument(s), range.start) = Offset(s, i),
         Max({OffsetAt(NewDocument(s), range.end), Offset(s, i)}) = Offset(s, j)
  PROVE  LET d == NewDocument(s)
             changed == NewDocument(Replaced(s, i, j, new))
             newEndByte == Offset(s, i) + Bytes(new)
         IN  ApplyChange(d, range, new) =
               [document |-> changed,
                edit |-> [startByte |-> Offset(s, i), oldEndByte |-> Offset(s, j),
                          newEndByte |-> newEndByte,
                          oldEndPoint |-> BytePoint(d, Offset(s, j)),
                          newEndPoint |-> BytePoint(changed, newEndByte)]]
<1> DEFINE d == NewDocument(s)
<1>1. /\ Len(s) \in Nat /\ j \in 0..Len(s) /\ 0 \in 0..Len(s) /\ Len(s) \in 0..Len(s)
      /\ 0 + 1 = 1
  BY DEF Texts
<1>2. d.text = s
  BY DEF NewDocument
<1>3. /\ Slice(s, 0, Offset(s, i)) = SubSeq(s, 1, i)
      /\ Slice(s, Offset(s, j), Bytes(s)) = SubSeq(s, j + 1, Len(s))
  <2>1. Offset(s, 0) = 0 /\ Offset(s, Len(s)) = Bytes(s)
    BY OffsetFacts
  <2>2. Slice(s, Offset(s, 0), Offset(s, i)) = SubSeq(s, 0 + 1, i)
    BY <1>1, SliceOfOffsets
  <2>3. Slice(s, Offset(s, j), Offset(s, Len(s))) = SubSeq(s, j + 1, Len(s))
    BY <1>1, SliceOfOffsets
  <2> QED
    BY <1>1, <2>1, <2>2, <2>3
<1>4. NewDocument(Slice(d.text, 0, Offset(s, i)) \o new \o Slice(d.text, Offset(s, j), Bytes(d.text)))
        = NewDocument(Replaced(s, i, j, new))
  BY <1>2, <1>3 DEF Replaced, Before
<1> HIDE DEF d
<1>5. OffsetAt(d, range.start) = Offset(s, i)
      /\ Max({OffsetAt(d, range.end), Offset(s, i)}) = Offset(s, j)
  BY DEF d
<1> QED
  BY <1>4, <1>5 DEF ApplyChange, d
-----------------------------------------------------------------------------
(* Points, and the nodes of a tree.                                          *)
LEMMA LineOfOffset ==
  ASSUME NEW s \in Texts, NEW i \in 0..Len(s)
  PROVE  LineOf(NewDocument(s), Offset(s, i)) = LinesBefore(s, i)
<1> DEFINE starts == ComputeLineStarts(s)
           line == LinesBefore(s, i)
           S == {l \in DOMAIN starts : starts[l] <= Offset(s, i)}
<1>1. Len(s) \in Nat /\ i \in Nat
  BY DEF Texts
<1>2. AreLineStarts(s, Len(s), starts)
  BY LineStartsFacts
<1>3. /\ line \in Nat /\ line <= LinesBefore(s, Len(s))
      /\ DOMAIN starts = 1..(LinesBefore(s, Len(s)) + 1)
      /\ LinesBefore(s, Len(s)) \in Nat
  <2>1. LinesBefore(s, i) <= LinesBefore(s, Len(s))
    BY <1>1, LinesGrow
  <2>2. LinesBefore(s, i) \in Nat /\ LinesBefore(s, Len(s)) \in Nat
    BY <1>1, LinesFacts
  <2> QED
    BY <1>2, <2>1, <2>2 DEF AreLineStarts
<1>4. ASSUME NEW l \in DOMAIN starts
      PROVE  starts[l] <= Offset(s, i) <=> l <= line + 1
  <2>1. PICK k \in 0..Len(s) : LinesBefore(s, k) + 1 = l /\ LineStart(s, k) = k
    BY <1>2, <1>4 DEF AreLineStarts
  <2>2. starts[l] = Offset(s, k)
    BY <1>2, <2>1 DEF AreLineStarts
  <2>3. Offset(s, k) <= Offset(s, i) <=> k <= i
    BY OffsetOrder
  <2>4. k \in Nat /\ LinesBefore(s, k) \in Nat
    BY LinesFacts
  <2>5. CASE k <= i
    <3>1. LinesBefore(s, k) <= line
      BY <1>1, <2>4, <2>5, LinesGrow
    <3> QED
      BY <1>3, <2>1, <2>2, <2>3, <2>4, <2>5, <3>1
  <2>6. CASE k > i
    <3>1. s[k] = "n" /\ k \in (i + 1)..k
      <4>1. LineStart(s, k) = 0 \/ s[LineStart(s, k)] = "n"
        BY <2>4, LinesFacts
      <4> QED
        BY <1>1, <2>1, <2>4, <2>6, <4>1
    <3>2. line <= LinesBefore(s, k) /\ line # LinesBefore(s, k)
      BY <1>1, <2>4, <2>6, <3>1, LinesGrow
    <3> QED
      BY <1>1, <1>3, <2>1, <2>2, <2>3, <2>4, <2>6, <3>2
  <2> QED
    BY <1>1, <2>4, <2>5, <2>6
<1> HIDE DEF starts, line
<1>5. S = 1..(line + 1)
  BY <1>3, <1>4
<1>6. Cardinality(S) = line + 1
  <2>1. 1 \in Int /\ line + 1 \in Int /\ ~(1 > line + 1) /\ (line + 1) - 1 + 1 = line + 1
    BY <1>3
  <2>2. Cardinality(1..(line + 1)) = line + 1
    BY <2>1, FS_Interval
  <2> QED
    BY <1>5, <2>2
<1>7. LineOf(NewDocument(s), Offset(s, i)) = Cardinality(S) - 1
  BY DEF LineOf, NewDocument, starts
<1> QED
  BY <1>3, <1>6, <1>7 DEF line

PointAt(s, i) ==
  [row |-> LinesBefore(s, i), column |-> Offset(s, i) - Offset(s, LineStart(s, i))]

LEMMA BytePointAt ==
  ASSUME NEW s \in Texts, NEW i \in 0..Len(s)
  PROVE  BytePoint(NewDocument(s), Offset(s, i)) = PointAt(s, i)
<1>1. LineOf(NewDocument(s), Offset(s, i)) = LinesBefore(s, i)
  BY LineOfOffset
<1>2. ComputeLineStarts(s)[LinesBefore(s, i) + 1] = Offset(s, LineStart(s, i))
  BY LineStartsFacts DEF AreLineStarts
<1>3. NewDocument(s).lineStarts = ComputeLineStarts(s)
  BY DEF NewDocument
<1> QED
  BY <1>1, <1>2, <1>3 DEF BytePoint, PointAt

NodeAt(s, i) == [byte |-> Offset(s, i), point |-> PointAt(s, i), char |-> s[i + 1]]

LEMMA NodesAt ==
  ASSUME NEW s \in Texts
  PROVE  Nodes(NewDocument(s)) = {NodeAt(s, i) : i \in {k \in 0..Len(s) : k < Len(s)}}
<1> DEFINE d == NewDocument(s)
           I == {k \in 0..Len(s) : k < Len(s)}
           Node(b) == [byte |-> b, point |-> BytePoint(d, b), char |-> s[IndexAt(s, b) + 1]]
<1>1. Len(s) \in Nat /\ Len(s) \in 0..Len(s)
  BY DEF Texts
<1>2. d.text = s
  BY DEF NewDocument
<1>3. Nodes(d) = {Node(b) : b \in Boundaries(s) \ {Bytes(s)}}
  <2> HIDE DEF d
  <2> QED
    BY <1>2 DEF Nodes
<1>4. \A k \in 0..Len(s) : Offset(s, k) = Bytes(s) <=> k = Len(s)
  <2>1. \A k \in 0..Len(s) : Offset(s, k) = Offset(s, Len(s)) <=> k = Len(s)
    BY <1>1, OffsetOrder
  <2>2. Offset(s, Len(s)) = Bytes(s)
    BY OffsetFacts
  <2> QED
    BY <2>1, <2>2
<1>5. Boundaries(s) \ {Bytes(s)} = {Offset(s, k) : k \in I}
  <2>1. \A k \in 0..Len(s) : k \in I <=> k # Len(s)
    BY <1>1
  <2> HIDE DEF I
  <2>2. I \subseteq 0..Len(s)
    BY DEF I
  <2> QED
    BY <1>4, <2>1, <2>2, BoundariesAreOffsets
<1>6. \A k \in 0..Len(s) : Node(Offset(s, k)) = NodeAt(s, k)
  BY BytePointAt, IndexOfOffset DEF NodeAt
<1>7. I \subseteq 0..Len(s)
  OBVIOUS
<1> HIDE DEF Node, I, d
<1>8. {Node(b) : b \in {Offset(s, k) : k \in I}} = {NodeAt(s, k) : k \in I}
  BY <1>6, <1>7
<1> QED
  BY <1>3, <1>5, <1>8 DEF d, I

(* What two texts have in common has the same offsets.                        *)
LEMMA OffsetsAgree ==
  ASSUME NEW s \in Texts, NEW t \in Texts, NEW i \in Nat, i <= Len(s), i <= Len(t),
         \A k \in 1..i : s[k] = t[k]
  PROVE  Offset(s, i) = Offset(t, i)
<1>1. 0 \in 0..Len(s) /\ i \in 0..Len(s) /\ 0 \in 0..Len(t) /\ i \in 0..Len(t)
      /\ 0 + 1 = 1 /\ i - 0 = i /\ \A k \in 1..i : 0 + k = k
  BY DEF Texts
<1> DEFINE x == SubSeq(s, 1, i)
           y == SubSeq(t, 1, i)
<1>2. x \in Texts /\ Len(x) = i /\ \A k \in 1..i : x[k] = s[k]
  BY <1>1, PartFacts
<1>3. y \in Texts /\ Len(y) = i /\ \A k \in 1..i : y[k] = t[k]
  BY <1>1, PartFacts
<1> HIDE DEF x, y
<1>4. x = y
  BY <1>2, <1>3, SameText
<1> QED
  BY <1>4 DEF Offset, Before, x, y

(* What two texts have in common after two carets has shifted offsets ...     *)
LEMMA OffsetsShift ==
  ASSUME NEW s \in Texts, NEW t \in Texts, NEW j \in 0..Len(s), NEW a \in 0..Len(t),
         Len(t) - a = Len(s) - j,
         \A k \in 1..(Len(s) - j) : t[a + k] = s[j + k],
         NEW n \in 0..(Len(s) - j)
  PROVE  Offset(t, a + n) - Offset(t, a) = Offset(s, j + n) - Offset(s, j)
<1> DEFINE rest == SubSeq(s, j + 1, Len(s))
           M(m) == Measure("utf8", SubSeq(rest, 1, m))
<1>1. Len(s) \in Nat /\ Len(t) \in Nat /\ j \in Nat /\ a \in Nat /\ n \in Nat
      /\ Len(s) \in j..Len(s)
  BY DEF Texts
<1>2. rest \in Texts /\ Len(rest) = Len(s) - j /\ \A k \in 1..(Len(s) - j) : rest[k] = s[j + k]
  BY <1>1, PartFacts
<1> HIDE DEF rest
<1>3. \A k \in 1..Len(rest) : s[j + k] = rest[k] /\ t[a + k] = rest[k]
  BY <1>2
<1>4. j + Len(rest) <= Len(s) /\ a + Len(rest) <= Len(t) /\ n \in 0..Len(rest)
  BY <1>1, <1>2
<1>5. Offset(s, j + n) = Offset(s, j) + M(n)
  BY <1>1, <1>2, <1>3, <1>4, MeasureSecond, ZenonT(30) DEF Offset, Bytes, Before
<1>6. Offset(t, a + n) = Offset(t, a) + M(n)
  BY <1>1, <1>2, <1>3, <1>4, MeasureSecond, ZenonT(30) DEF Offset, Bytes, Before
<1>7. M(n) \in Nat
  <2>1. 0 \in 0..Len(rest) /\ 0 + 1 = 1
    BY <1>4
  <2> QED
    BY <1>2, <1>4, <2>1, PartFacts, MeasureType
<1>8. Offset(s, j) \in Nat /\ Offset(t, a) \in Nat
  BY OffsetFacts
<1> HIDE DEF M
<1> QED
  BY <1>5, <1>6, <1>7, <1>8

(* ... and lines.                                                           *)
InCommon(s, t, j, a, n) == \A k \in 1..n : t[a + k] = s[j + k]

ShiftedLines(s, t, j, a, n) ==
  /\ LinesBefore(t, a + n) - LinesBefore(t, a) = LinesBefore(s, j + n) - LinesBefore(s, j)
  /\ LinesBefore(s, j + n) # LinesBefore(s, j) =>
       /\ LineStart(s, j + n) \in j..(j + n)
       /\ LineStart(t, a + n) = a + (LineStart(s, j + n) - j)

LEMMA LinesShift ==
  ASSUME NEW s, NEW t, NEW j \in Nat, NEW a \in Nat, NEW n \in Nat,
         InCommon(s, t, j, a, n)
  PROVE  ShiftedLines(s, t, j, a, n)
<1> DEFINE P(m) ==
      /\ LinesBefore(t, a + m) - LinesBefore(t, a) = LinesBefore(s, j + m) - LinesBefore(s, j)
      /\ LinesBefore(s, j) <= LinesBefore(s, j + m)
      /\ LinesBefore(s, j + m) # LinesBefore(s, j) =>
           /\ LineStart(s, j + m) \in j..(j + m)
           /\ LineStart(t, a + m) = a + (LineStart(s, j + m) - j)
           N == {m \in Nat : m <= n => P(m)}
<1>1. \A m \in Nat : LinesBefore(s, j + m) \in Nat /\ LinesBefore(t, a + m) \in Nat
  BY LinesFacts
<1>2. LinesBefore(s, j) \in Nat /\ LinesBefore(t, a) \in Nat
  BY LinesFacts
<1>3. 0 \in N
  BY <1>2
<1>4. ASSUME NEW m \in Nat, m \in N PROVE m + 1 \in N
  <2> SUFFICES ASSUME m + 1 <= n PROVE P(m + 1)
    OBVIOUS
  <2>1. P(m) /\ t[a + (m + 1)] = s[j + (m + 1)]
    BY <1>4 DEF InCommon
  <2>2. (j + m) + 1 = j + (m + 1) /\ (a + m) + 1 = a + (m + 1) /\ j + m \in Nat /\ a + m \in Nat
    OBVIOUS
  <2>3. /\ LinesBefore(s, j + (m + 1)) = IF s[j + (m + 1)] = "n" THEN LinesBefore(s, j + m) + 1
                                         ELSE LinesBefore(s, j + m)
        /\ LineStart(s, j + (m + 1)) = IF s[j + (m + 1)] = "n" THEN j + (m + 1)
                                       ELSE LineStart(s, j + m)
    BY <2>2, LinesFacts
  <2>4. /\ LinesBefore(t, a + (m + 1)) = IF t[a + (m + 1)] = "n" THEN LinesBefore(t, a + m) + 1
                                         ELSE LinesBefore(t, a + m)
        /\ LineStart(t, a + (m + 1)) = IF t[a + (m + 1)] = "n" THEN a + (m + 1)
                                       ELSE LineStart(t, a + m)
    BY <2>2, LinesFacts
  <2>5. CASE s[j + (m + 1)] = "n"
    BY <1>1, <1>2, <2>1, <2>3, <2>4, <2>5
  <2>6. CASE s[j + (m + 1)] # "n"
    BY <1>1, <1>2, <2>1, <2>3, <2>4, <2>6
  <2> QED
    BY <2>5, <2>6
<1> HIDE DEF N
<1>5. n \in N
  BY <1>3, <1>4, CountUp
<1>6. P(n)
  BY <1>5 DEF N
<1> QED
  BY <1>6 DEF ShiftedLines
-----------------------------------------------------------------------------
(* A tree that fits the text, edited as the text is.                          *)

(* Carets before what is replaced, and after it.                              *)
Stays(s, t, i, k) ==
  /\ k \in 0..Len(t)
  /\ Offset(t, k) = Offset(s, k)
  /\ PointAt(t, k) = PointAt(s, k)
  /\ k < i => k < Len(t) /\ t[k + 1] = s[k + 1]

LEMMA CaretsBefore ==
  ASSUME NEW s \in Texts, NEW new \in Texts, NEW i \in 0..Len(s), NEW j \in i..Len(s),
         NEW k \in 0..i
  PROVE  Stays(s, Replaced(s, i, j, new), i, k)
<1> DEFINE t == Replaced(s, i, j, new)
<1>1. Len(s) \in Nat /\ Len(new) \in Nat /\ i \in Nat /\ j \in Nat /\ k \in Nat
      /\ i <= j /\ j <= Len(s) /\ k <= i
  BY DEF Texts
<1>2. t \in Texts /\ Len(t) = i + Len(new) + (Len(s) - j) /\ \A m \in 1..i : t[m] = s[m]
  BY ReplacedFacts
<1> HIDE DEF t
<1>3. ASSUME NEW m \in 0..k PROVE Offset(t, m) = Offset(s, m)
  <2>1. m \in Nat /\ m <= Len(s) /\ m <= Len(t) /\ \A l \in 1..m : s[l] = t[l]
    BY <1>1, <1>2
  <2> QED
    BY <1>2, <2>1, OffsetsAgree
<1>4. LinesBefore(t, k) = LinesBefore(s, k) /\ LineStart(t, k) = LineStart(s, k)
  <2>1. \A l \in 1..k : t[l] = s[l]
    BY <1>1, <1>2
  <2> QED
    BY <1>1, <2>1, LinesAgree
<1>5. LineStart(s, k) \in 0..k /\ k \in 0..k
  BY <1>1, LinesFacts
<1>6. PointAt(t, k) = PointAt(s, k) /\ Offset(t, k) = Offset(s, k)
  BY <1>3, <1>4, <1>5 DEF PointAt
<1>7. k \in 0..Len(t) /\ (k < i => k < Len(t) /\ t[k + 1] = s[k + 1])
  BY <1>1, <1>2
<1> QED
  BY <1>6, <1>7 DEF t, Stays

MovedBy(p, q, r) ==
  [row    |-> p.row - q.row + r.row,
   column |-> IF p.row = q.row THEN p.column - q.column + r.column ELSE p.column]

Moves(s, t, j, a, n) ==
  /\ a + n \in 0..Len(t)
  /\ Offset(t, a + n) = Offset(s, j + n) - Offset(s, j) + Offset(t, a)
  /\ PointAt(t, a + n) = MovedBy(PointAt(s, j + n), PointAt(s, j), PointAt(t, a))
  /\ j + n < Len(s) => a + n < Len(t) /\ t[(a + n) + 1] = s[(j + n) + 1]

LEMMA CaretsAfter ==
  ASSUME NEW s \in Texts, NEW new \in Texts, NEW i \in 0..Len(s), NEW j \in i..Len(s),
         NEW n \in 0..(Len(s) - j)
  PROVE  /\ i + Len(new) \in 0..Len(Replaced(s, i, j, new))
         /\ Offset(Replaced(s, i, j, new), i + Len(new)) = Offset(s, i) + Bytes(new)
         /\ Moves(s, Replaced(s, i, j, new), j, i + Len(new), n)
<1> DEFINE t == Replaced(s, i, j, new)
           a == i + Len(new)
<1>1. /\ Len(s) \in Nat /\ Len(new) \in Nat /\ i \in Nat /\ j \in Nat /\ n \in Nat
      /\ i <= j /\ j <= Len(s) /\ n <= Len(s) - j /\ j \in 0..Len(s)
  BY DEF Texts
<1>2. /\ t \in Texts /\ Len(t) = a + (Len(s) - j)
      /\ \A m \in 1..Len(new) : t[i + m] = new[m]
      /\ \A m \in 1..(Len(s) - j) : t[a + m] = s[j + m]
  BY ReplacedFacts
<1> HIDE DEF t
<1>3. a \in Nat /\ a \in 0..Len(t) /\ a + n \in 0..Len(t) /\ i + Len(new) <= Len(t)
  BY <1>1, <1>2
<1>4. Offset(t, a) = Offset(s, i) + Bytes(new)
  <2>1. Len(new) \in 0..Len(new)
    BY <1>1
  <2>2. Measure("utf8", SubSeq(t, 1, i + Len(new))) =
          Measure("utf8", SubSeq(t, 1, i)) + Measure("utf8", SubSeq(new, 1, Len(new)))
    BY <1>1, <1>2, <1>3, <2>1, MeasureSecond
  <2>3. SubSeq(new, 1, Len(new)) = new
    BY SubSeqFull DEF Texts
  <2>4. Offset(t, i) = Offset(s, i)
    <3>1. i \in 0..i
      BY <1>1
    <3> QED
      BY <3>1, CaretsBefore DEF t, Stays
  <2> QED
    BY <2>2, <2>3, <2>4 DEF Offset, Bytes, Before
<1> HIDE DEF a
<1>5. ASSUME NEW m \in 0..(Len(s) - j)
      PROVE  Offset(t, a + m) = Offset(s, j + m) - Offset(s, j) + Offset(t, a)
  <2>1. Len(t) - a = Len(s) - j
    BY <1>1, <1>2, <1>3
  <2>2. Offset(t, a + m) - Offset(t, a) = Offset(s, j + m) - Offset(s, j)
    BY <1>1, <1>2, <1>3, <2>1, OffsetsShift
  <2>3. j + m \in 0..Len(s) /\ a + m \in 0..Len(t)
    BY <1>1, <1>2, <1>3
  <2>4. /\ Offset(t, a + m) \in Nat /\ Offset(t, a) \in Nat
        /\ Offset(s, j + m) \in Nat /\ Offset(s, j) \in Nat
    BY <1>1, <1>2, <1>3, <2>3, OffsetFacts
  <2> QED
    BY <2>2, <2>4
<1>6. /\ LinesBefore(t, a + n) - LinesBefore(t, a) = LinesBefore(s, j + n) - LinesBefore(s, j)
      /\ LinesBefore(s, j + n) # LinesBefore(s, j) =>
              /\ LineStart(s, j + n) \in j..(j + n)
              /\ LineStart(t, a + n) = a + (LineStart(s, j + n) - j)
  <2>1. InCommon(s, t, j, a, n)
    BY <1>1, <1>2 DEF InCommon
  <2>2. j \in Nat /\ a \in Nat /\ n \in Nat
    BY <1>1, <1>3
  <2> QED
    BY <2>1, <2>2, LinesShift DEF ShiftedLines
<1>7. /\ LinesBefore(t, a + n) \in Nat /\ LinesBefore(t, a) \in Nat
      /\ LinesBefore(s, j + n) \in Nat /\ LinesBefore(s, j) \in Nat
  BY <1>1, <1>3, LinesFacts
<1> DEFINE p == PointAt(s, j + n)
           q == PointAt(s, j)
           r == PointAt(t, a)
<1>8. /\ p.row = LinesBefore(s, j + n)
      /\ p.column = Offset(s, j + n) - Offset(s, LineStart(s, j + n))
      /\ q.row = LinesBefore(s, j) /\ q.column = Offset(s, j) - Offset(s, LineStart(s, j))
      /\ r.row = LinesBefore(t, a) /\ r.column = Offset(t, a) - Offset(t, LineStart(t, a))
      /\ PointAt(t, a + n) =
           [row |-> LinesBefore(t, a + n),
            column |-> Offset(t, a + n) - Offset(t, LineStart(t, a + n))]
  BY DEF PointAt
<1> HIDE DEF p, q, r
<1>9. LinesBefore(t, a + n) = p.row - q.row + r.row
  BY <1>6, <1>7, <1>8
<1>10. /\ Offset(s, j) \in Nat /\ Offset(s, j + n) \in Nat
       /\ Offset(t, a) \in Nat /\ Offset(t, a + n) \in Nat
  <2>1. j + n \in 0..Len(s)
    BY <1>1
  <2> QED
    BY <1>1, <1>2, <1>3, <2>1, OffsetFacts
<1>11. Offset(t, a + n) = Offset(s, j + n) - Offset(s, j) + Offset(t, a)
  BY <1>5
<1>12. Offset(t, a + n) - Offset(t, LineStart(t, a + n)) =
         IF p.row = q.row THEN p.column - q.column + r.column ELSE p.column
  <2>1. CASE p.row = q.row
    <3>1. LinesBefore(s, j) = LinesBefore(s, j + n) /\ LinesBefore(t, a) = LinesBefore(t, a + n)
      BY <1>6, <1>7, <1>8, <2>1
    <3>2. LineStart(s, j) = LineStart(s, j + n)
      BY <1>1, <3>1, LinesGrow
    <3>3. LineStart(t, a) = LineStart(t, a + n)
      BY <1>1, <1>3, <3>1, LinesGrow
    <3>4. LineStart(s, j) \in 0..Len(s) /\ LineStart(t, a) \in 0..Len(t)
      <4>1. LineStart(s, j) \in 0..j /\ LineStart(t, a) \in 0..a
        BY <1>1, <1>3, LinesFacts
      <4> QED
        BY <1>1, <1>3, <4>1
    <3>5. Offset(s, LineStart(s, j)) \in Nat /\ Offset(t, LineStart(t, a)) \in Nat
      BY <1>2, <3>4, OffsetFacts
    <3> QED
      BY <1>8, <1>10, <1>11, <2>1, <3>2, <3>3, <3>5
  <2>2. CASE p.row # q.row
    <3> DEFINE m == LineStart(s, j + n) - j
    <3>1. m \in 0..(Len(s) - j) /\ j + m = LineStart(s, j + n) /\ a + m = LineStart(t, a + n)
      BY <1>1, <1>3, <1>6, <1>8, <2>2
    <3> HIDE DEF m
    <3>2. Offset(t, a + m) = Offset(s, j + m) - Offset(s, j) + Offset(t, a)
      BY <1>5, <3>1
    <3>3. j + m \in 0..Len(s) /\ a + m \in 0..Len(t)
      BY <1>1, <1>2, <1>3, <3>1
    <3>4. Offset(s, j + m) \in Nat /\ Offset(t, a + m) \in Nat
      BY <1>2, <3>3, OffsetFacts
    <3> QED
      BY <1>8, <1>10, <1>11, <2>2, <3>1, <3>2, <3>4
  <2> QED
    BY <2>1, <2>2
<1>13. j + n < Len(s) => a + n < Len(t) /\ t[(a + n) + 1] = s[(j + n) + 1]
  <2> SUFFICES ASSUME j + n < Len(s) PROVE a + n < Len(t) /\ t[(a + n) + 1] = s[(j + n) + 1]
    OBVIOUS
  <2>1. n + 1 \in 1..(Len(s) - j) /\ (a + n) + 1 = a + (n + 1) /\ (j + n) + 1 = j + (n + 1)
    BY <1>1, <1>3
  <2>2. t[a + (n + 1)] = s[j + (n + 1)]
    BY <1>2, <2>1
  <2>3. Len(t) = a + (Len(s) - j)
    BY <1>2
  <2>4. a + n < Len(t)
    BY <1>1, <1>3, <2>3
  <2> QED
    BY <2>1, <2>2, <2>4
<1>14. PointAt(t, a + n) = MovedBy(p, q, r)
  BY <1>8, <1>9, <1>12 DEF MovedBy
<1>15. Moves(s, t, j, a, n)
  BY <1>3, <1>11, <1>13, <1>14 DEF Moves, p, q, r
<1> QED
  BY <1>3, <1>4, <1>15 DEF t, a

LEMMA TreeEditFits ==
  ASSUME NEW s \in Texts, NEW new \in Texts, NEW i \in 0..Len(s), NEW j \in i..Len(s),
         NEW tree, tree \subseteq Nodes(NewDocument(s)),
         NEW edit,
         edit.startByte = Offset(s, i), edit.oldEndByte = Offset(s, j),
         edit.newEndByte = Offset(s, i) + Bytes(new),
         edit.oldEndPoint = BytePoint(NewDocument(s), Offset(s, j)),
         edit.newEndPoint = BytePoint(NewDocument(Replaced(s, i, j, new)), edit.newEndByte)
  PROVE  TreeEdit(tree, edit) \subseteq Nodes(NewDocument(Replaced(s, i, j, new)))
<1> DEFINE t == Replaced(s, i, j, new)
           a == i + Len(new)
<1>1. /\ Len(s) \in Nat /\ Len(new) \in Nat /\ i \in Nat /\ j \in Nat
      /\ i <= j /\ j <= Len(s) /\ j \in 0..Len(s)
  BY DEF Texts
<1>2. t \in Texts /\ Len(t) \in Nat
  BY ReplacedFacts DEF Texts
<1>3. Nodes(NewDocument(t)) = {NodeAt(t, k) : k \in {l \in 0..Len(t) : l < Len(t)}}
  BY <1>2, NodesAt
<1>4. 0 \in 0..(Len(s) - j) /\ j + 0 = j /\ a + 0 = a
  BY <1>1
<1>5. a \in 0..Len(t) /\ Offset(t, a) = edit.newEndByte
  BY <1>4, CaretsAfter, Zenon
<1>6. edit.oldEndPoint = PointAt(s, j) /\ edit.newEndPoint = PointAt(t, a)
  <2>1. edit.oldEndPoint = PointAt(s, j)
    BY <1>1, BytePointAt
  <2>2. BytePoint(NewDocument(t), Offset(t, a)) = PointAt(t, a)
    BY <1>2, <1>5, BytePointAt
  <2>3. edit.newEndPoint = BytePoint(NewDocument(t), edit.newEndByte)
    OBVIOUS
  <2> HIDE DEF t, a
  <2> QED
    BY <1>5, <2>1, <2>2, <2>3
<1>7. ASSUME NEW node \in tree
      PROVE  \E k \in 0..Len(s) : k < Len(s) /\ node = NodeAt(s, k)
  BY NodesAt
<1>8. ASSUME NEW node \in tree, node.byte + Utf8(node.char) <= edit.startByte
      PROVE  node \in Nodes(NewDocument(t))
  <2>1. PICK k \in 0..Len(s) : k < Len(s) /\ node = NodeAt(s, k)
    BY <1>7, <1>8
  <2>2. node.byte = Offset(s, k) /\ node.char = s[k + 1]
    BY <2>1 DEF NodeAt
  <2>3. k + 1 \in 0..Len(s) /\ k \in Nat
    BY <1>1, <2>1
  <2>4. Offset(s, k + 1) <= Offset(s, i)
    BY <1>8, <2>1, <2>2, OffsetFacts
  <2>5. k + 1 <= i
    BY <2>3, <2>4, OffsetOrder
  <2>6. k \in 0..i /\ k < i
    BY <1>1, <2>3, <2>5
  <2>7. k \in 0..Len(t) /\ k < Len(t) /\ NodeAt(t, k) = NodeAt(s, k)
    BY <2>6, CaretsBefore DEF NodeAt, Stays
  <2> HIDE DEF t
  <2> QED
    BY <1>3, <2>1, <2>7
<1> DEFINE Moved(node) ==
      [byte  |-> node.byte - edit.oldEndByte + edit.newEndByte,
       point |-> MovedBy(node.point, edit.oldEndPoint, edit.newEndPoint),
       char  |-> node.char]
<1>9. ASSUME NEW node \in tree, node.byte >= edit.oldEndByte
      PROVE  Moved(node) \in Nodes(NewDocument(t))
  <2>1. PICK k \in 0..Len(s) : k < Len(s) /\ node = NodeAt(s, k)
    BY <1>7, <1>9
  <2>2. node.byte = Offset(s, k)
    BY <2>1 DEF NodeAt
  <2>3. Offset(s, j) <= Offset(s, k)
    BY <1>1, <1>9, <2>2, OffsetFacts
  <2>4. j <= k
    BY <1>1, <2>3, OffsetOrder
  <2> DEFINE n == k - j
  <2>5. n \in 0..(Len(s) - j) /\ j + n = k /\ j + n < Len(s)
    BY <1>1, <2>1, <2>4
  <2> HIDE DEF n
  <2> DEFINE p == PointAt(s, k)
             q == PointAt(s, j)
             r == PointAt(t, a)
             x == a + n
  <2>6. Moves(s, t, j, a, n)
    BY <2>5, CaretsAfter
  <2>7. /\ x \in 0..Len(t) /\ x < Len(t)
        /\ Offset(t, x) = Offset(s, k) - Offset(s, j) + Offset(t, a)
        /\ PointAt(t, x) = MovedBy(p, q, r)
        /\ t[x + 1] = s[k + 1]
    <3> HIDE DEF t, a
    <3> QED
      BY <2>5, <2>6 DEF Moves
  <2>8. /\ node = [byte |-> Offset(s, k), point |-> p, char |-> s[k + 1]]
        /\ p = [row |-> p.row, column |-> p.column]
    BY <2>1 DEF NodeAt, PointAt
  <2>9. NodeAt(t, x) = [byte |-> Offset(t, x), point |-> PointAt(t, x), char |-> t[x + 1]]
    BY DEF NodeAt
  <2>10. /\ edit.oldEndByte = Offset(s, j) /\ edit.newEndByte = Offset(t, a)
         /\ edit.oldEndPoint = q /\ edit.newEndPoint = r
    BY <1>5, <1>6
  <2> HIDE DEF p, q, r, x, a, t
  <2>11. Moved(node) = NodeAt(t, x)
    <3>1. node.byte = Offset(s, k) /\ node.point = p /\ node.char = s[k + 1]
      BY <2>8
    <3>2. Moved(node).byte = Offset(t, x)
      BY <2>7, <2>10, <3>1
    <3> QED
      BY <2>7, <2>9, <2>10, <3>1, <3>2
  <2> QED
    BY <1>3, <2>7, <2>11
<1> HIDE DEF t, Moved
<1>10. TreeEdit(tree, edit) =
         {node \in tree : node.byte + Utf8(node.char) <= edit.startByte}
           \cup {Moved(node) : node \in {m \in tree : m.byte >= edit.oldEndByte}}
  BY DEF TreeEdit, Moved, MovedBy
<1>11. TreeEdit(tree, edit) \subseteq Nodes(NewDocument(t))
  BY <1>8, <1>9, <1>10
<1> QED
  BY <1>11 DEF t
-----------------------------------------------------------------------------
(* The document of a text, whose tree fits it.                                *)
IsDocumentOf(o, s) ==
  /\ DOMAIN o = Fields
  /\ s \in Texts
  /\ o.document = NewDocument(s)
  /\ o.tree # None => o.tree \subseteq Nodes(o.document)

LEMMA NewIsDocument ==
  ASSUME NEW s \in Texts, NEW language
  PROVE  IsDocumentOf(NewOpenDocument(s, language), s)
BY DEF IsDocumentOf, NewOpenDocument, Fields

LEMMA InvalidateKeeps ==
  ASSUME NEW o, NEW s, IsDocumentOf(o, s)
  PROVE  IsDocumentOf(Invalidate(o), s)
BY DEF IsDocumentOf, Invalidate, Fields

LEMMA AnalysedKeeps ==
  ASSUME NEW o, NEW s, IsDocumentOf(o, s)
  PROVE  IsDocumentOf(Analysed(o), s)
<1>1. CASE o.language = "sql"
  BY <1>1 DEF IsDocumentOf, Analysed, Fields
<1>2. CASE o.language # "sql"
  <2> DEFINE tree == ParseRust(o.document, o.tree)
  <2>1. tree \subseteq Nodes(o.document)
    BY DEF IsDocumentOf, ParseRust
  <2> HIDE DEF tree
  <2>2. Analysed(o) = IF o.extracted # None THEN o
                      ELSE [o EXCEPT !.tree = tree, !.extracted = Extract(o.document, tree)]
    BY <1>2 DEF Analysed, tree
  <2> QED
    BY <2>1, <2>2 DEF IsDocumentOf, Fields
<1> QED
  BY <1>1, <1>2

LEMMA RememberedKeeps ==
  ASSUME NEW o, NEW s, IsDocumentOf(o, s), NEW sent
  PROVE  IsDocumentOf([o EXCEPT !.lastTokens = sent], s)
BY DEF IsDocumentOf, Fields

LEMMA WholeTextApplied ==
  ASSUME NEW o, NEW s, IsDocumentOf(o, s),
         NEW change, change.range = None, change.text \in Texts
  PROVE  IsDocumentOf(ApplyContentChange(o, change), change.text)
BY DEF IsDocumentOf, ApplyContentChange, Fields

LEMMA RangeApplied ==
  ASSUME NEW o, NEW s, IsDocumentOf(o, s),
         NEW change, change.range # None, change.text \in Texts,
         NEW i \in 0..Len(s), NEW j \in i..Len(s),
         OffsetAt(NewDocument(s), change.range.start) = Offset(s, i),
         Max({OffsetAt(NewDocument(s), change.range.end), Offset(s, i)}) = Offset(s, j)
  PROVE  IsDocumentOf(ApplyContentChange(o, change), Replaced(s, i, j, change.text))
<1> DEFINE new == change.text
           t == Replaced(s, i, j, new)
           applied == ApplyChange(NewDocument(s), change.range, new)
           tree == IF o.tree = None THEN None ELSE TreeEdit(o.tree, applied.edit)
<1>1. s \in Texts /\ t \in Texts
  BY ReplacedFacts DEF IsDocumentOf
<1>2. applied = [document |-> NewDocument(t),
                 edit |-> [startByte |-> Offset(s, i), oldEndByte |-> Offset(s, j),
                           newEndByte |-> Offset(s, i) + Bytes(new),
                           oldEndPoint |-> BytePoint(NewDocument(s), Offset(s, j)),
                           newEndPoint |-> BytePoint(NewDocument(t), Offset(s, i) + Bytes(new))]]
  BY <1>1, ApplyChangeReplaces
<1>3. ApplyContentChange(o, change) = [o EXCEPT !.document = applied.document, !.tree = tree]
  BY DEF ApplyContentChange, IsDocumentOf
<1> HIDE DEF applied
<1>4. applied.document = NewDocument(t)
  BY <1>2
<1>5. tree # None => tree \subseteq Nodes(NewDocument(t))
  <2>1. SUFFICES ASSUME o.tree # None
                 PROVE  TreeEdit(o.tree, applied.edit) \subseteq Nodes(NewDocument(t))
    OBVIOUS
  <2> DEFINE edit == applied.edit
  <2>2. /\ edit.startByte = Offset(s, i) /\ edit.oldEndByte = Offset(s, j)
        /\ edit.newEndByte = Offset(s, i) + Bytes(new)
        /\ edit.oldEndPoint = BytePoint(NewDocument(s), Offset(s, j))
        /\ edit.newEndPoint = BytePoint(NewDocument(t), edit.newEndByte)
    BY <1>2
  <2>3. o.tree \subseteq Nodes(NewDocument(s))
    BY <2>1 DEF IsDocumentOf
  <2> HIDE DEF edit
  <2>4. TreeEdit(o.tree, edit) \subseteq Nodes(NewDocument(t))
    BY <1>1, <2>2, <2>3, TreeEditFits
  <2> QED
    BY <2>4 DEF edit
<1> HIDE DEF tree, t
<1>6. IsDocumentOf([o EXCEPT !.document = applied.document, !.tree = tree], t)
  BY <1>1, <1>4, <1>5 DEF IsDocumentOf, Fields
<1> QED
  BY <1>3, <1>6 DEF t

LEMMA GreaterOf ==
  ASSUME NEW m \in Nat, NEW n \in Nat
  PROVE  Max({m, n}) = IF m <= n THEN n ELSE m
<1>1. \A k \in {m, n} : k <= Max({m, n}) /\ Max({m, n}) \in {m, n}
  <2>1. {m, n} \subseteq 0..(m + n) /\ {m, n} # {} /\ m + n \in Nat
    OBVIOUS
  <2> QED
    BY <2>1, GreatestNumber
<1> QED
  BY <1>1

(* Any change of any client leaves a document with a tree that fits.          *)
LEMMA ChangeApplied ==
  ASSUME NEW o, NEW s, IsDocumentOf(o, s), NEW change \in Changes
  PROVE  \E t : IsDocumentOf(ApplyContentChange(o, change), t)
<1>1. change.text \in Texts /\ (change.range # None => change.range \in Ranges)
  BY DEF Changes, Texts
<1>2. CASE change.range = None
  BY <1>1, <1>2, WholeTextApplied
<1>3. CASE change.range # None
  <2>1. change.range.start \in Positions /\ change.range.end \in Positions /\ s \in Texts
    BY <1>1, <1>3 DEF Ranges, IsDocumentOf
  <2>2. PICK i \in 0..Len(s) : OffsetAt(NewDocument(s), change.range.start) = Offset(s, i)
    BY <2>1, OffsetAtClamps
  <2>3. PICK k \in 0..Len(s) : OffsetAt(NewDocument(s), change.range.end) = Offset(s, k)
    BY <2>1, OffsetAtClamps
  <2>4. Offset(s, i) \in Nat /\ Offset(s, k) \in Nat /\ Len(s) \in Nat
    BY <2>1, OffsetFacts DEF Texts
  <2>5. Offset(s, k) <= Offset(s, i) <=> k <= i
    BY <2>1, OffsetOrder
  <2>6. Max({Offset(s, k), Offset(s, i)}) = IF k <= i THEN Offset(s, i) ELSE Offset(s, k)
    BY <2>4, <2>5, GreaterOf
  <2> DEFINE j == IF k <= i THEN i ELSE k
  <2>7. j \in i..Len(s)
    BY <2>4
  <2>8. Max({OffsetAt(NewDocument(s), change.range.end), Offset(s, i)}) = Offset(s, j)
    BY <2>3, <2>6
  <2> HIDE DEF j
  <2> QED
    BY <1>1, <1>3, <2>1, <2>2, <2>7, <2>8, RangeApplied
<1> QED
  BY <1>2, <1>3

(* The recursion of ApplyContentChanges.                                     *)
Applies(o, changes, f) ==
  /\ f[0] = o
  /\ \A i \in 1..Len(changes) : f[i] = ApplyContentChange(f[i - 1], changes[i])

LEMMA ApplyContentChangesSteps ==
  ASSUME NEW o, NEW changes \in Seq(Changes)
  PROVE  \E f : ApplyContentChanges(o, changes) = f[Len(changes)] /\ Applies(o, changes, f)
<1> DEFINE Step(f, i) == IF i = 0 THEN o ELSE ApplyContentChange(f[i - 1], changes[i])
           after == CHOOSE f : f = [i \in 0..Len(changes) |-> Step(f, i)]
<1>1. Len(changes) \in Nat
  OBVIOUS
<1>2. ApplyContentChanges(o, changes) = after[Len(changes)]
  BY DEF ApplyContentChanges
<1>3. after = [i \in 0..Len(changes) |-> Step(after, i)]
  <2> DEFINE N == {n \in Nat : \E f : f = [i \in 0..n |-> Step(f, i)]}
  <2>1. 0 \in N
    <3>1. [i \in 0..0 |-> o] = [i \in 0..0 |-> Step([j \in 0..0 |-> o], i)]
      OBVIOUS
    <3> QED
      BY <3>1
  <2>2. ASSUME NEW n \in Nat, n \in N PROVE n + 1 \in N
    <3>1. PICK f : f = [i \in 0..n |-> Step(f, i)]
      BY <2>2
    <3>2. \A i \in 0..n : f[i] = Step(f, i)
      <4> HIDE DEF Step
      <4> QED
        BY <3>1
    <3> DEFINE g == [i \in 0..(n + 1) |-> IF i = n + 1 THEN Step(f, i) ELSE f[i]]
    <3>3. \A i \in 0..(n + 1) : g[i] = Step(g, i)
      <4> TAKE i \in 0..(n + 1)
      <4>1. CASE i = 0
        BY <3>1, <4>1
      <4>2. CASE i # 0
        <5>1. i - 1 \in 0..n /\ g[i - 1] = f[i - 1]
          BY <4>2
        <5>2. Step(g, i) = Step(f, i)
          BY <5>1
        <5>3. i # n + 1 => f[i] = Step(f, i)
          BY <3>2
        <5> QED
          BY <5>2, <5>3
      <4> QED
        BY <4>1, <4>2
    <3>4. g = [i \in 0..(n + 1) |-> Step(g, i)]
      BY <3>3
    <3> HIDE DEF g
    <3> QED
      BY <3>4, SMTT(30)
  <2> HIDE DEF N
  <2>3. Len(changes) \in N
    BY <1>1, <2>1, <2>2, CountUp
  <2> QED
    BY <2>3 DEF N
<1> HIDE DEF after, Step
<1>4. \A i \in 0..Len(changes) : after[i] = Step(after, i)
  BY <1>3
<1>5. after[0] = Step(after, 0) /\ \A i \in 1..Len(changes) : after[i] = Step(after, i)
  BY <1>1, <1>4
<1>6. after[0] = o
  BY <1>5 DEF Step
<1>7. \A i \in 1..Len(changes) : after[i] = ApplyContentChange(after[i - 1], changes[i])
  BY <1>1, <1>5 DEF Step
<1> QED
  BY <1>2, <1>6, <1>7 DEF Applies

LEMMA ChangesApplied ==
  ASSUME NEW o, NEW s, IsDocumentOf(o, s), NEW changes \in Seq(Changes)
  PROVE  \E t : IsDocumentOf(ApplyContentChanges(o, changes), t)
<1>1. PICK f : ApplyContentChanges(o, changes) = f[Len(changes)] /\ Applies(o, changes, f)
  BY ApplyContentChangesSteps
<1>2. Len(changes) \in Nat /\ \A i \in 1..Len(changes) : changes[i] \in Changes
  OBVIOUS
<1> DEFINE N == {n \in Nat : n <= Len(changes) => \E t : IsDocumentOf(f[n], t)}
<1>3. 0 \in N
  BY <1>1 DEF Applies
<1>4. ASSUME NEW n \in Nat, n \in N PROVE n + 1 \in N
  <2> SUFFICES ASSUME n + 1 <= Len(changes) PROVE \E t : IsDocumentOf(f[n + 1], t)
    OBVIOUS
  <2>1. n + 1 \in 1..Len(changes) /\ (n + 1) - 1 = n
    BY <1>2
  <2>2. PICK t : IsDocumentOf(f[n], t)
    BY <1>2, <1>4
  <2>3. f[n + 1] = ApplyContentChange(f[n], changes[n + 1])
    BY <1>1, <2>1 DEF Applies
  <2> QED
    BY <1>2, <2>1, <2>2, <2>3, ChangeApplied
<1> HIDE DEF N
<1>5. Len(changes) \in N
  BY <1>2, <1>3, <1>4, CountUp
<1> QED
  BY <1>1, <1>2, <1>5 DEF N
-----------------------------------------------------------------------------
(* The channel.                                                              *)
IsMessage(m) ==
  /\ m.type = "open" => m.text \in Texts
  /\ m.type = "change" => m.changes \in Seq(Changes)

IsChannel(c) ==
  /\ \E S : c \in Seq(S)
  /\ \A i \in 1..Len(c) : IsMessage(c[i])

LEMMA AppendedFacts ==
  ASSUME NEW S, NEW c \in Seq(S), NEW m
  PROVE  /\ Append(c, m) \in Seq(S \cup {m})
         /\ Len(c) \in Nat /\ Len(Append(c, m)) = Len(c) + 1
         /\ \A i \in 1..Len(c) : Append(c, m)[i] = c[i]
         /\ Append(c, m)[Len(c) + 1] = m
<1>1. c \in Seq(S \cup {m})
  BY SeqMonotonic, Z3
<1> QED
  BY <1>1, AppendProperties

LEMMA RemovedFacts ==
  ASSUME NEW S, NEW c \in Seq(S), NEW i \in 1..Len(c)
  PROVE  /\ RemoveAt(c, i) \in Seq(S)
         /\ Len(c) \in Nat /\ Len(RemoveAt(c, i)) = Len(c) - 1
         /\ \A k \in 1..(Len(c) - 1) :
              RemoveAt(c, i)[k] = IF k < i THEN c[k] ELSE c[k + 1]
<1> DEFINE s == SubSeq(c, 1, i - 1)
           t == SubSeq(c, i + 1, Len(c))
<1>1. Len(c) \in Nat /\ i \in Nat /\ \A k \in 1..Len(c) : c[k] \in S
  OBVIOUS
<1>2. /\ s \in Seq(S) /\ Len(s) = i - 1
      /\ \A k \in 1..(i - 1) : s[k] = c[k]
  <2>1. \A k \in 1..(i - 1) : c[k] \in S
    BY <1>1
  <2>2. 1 \in Int /\ i - 1 \in Int
    BY <1>1
  <2> QED
    BY <1>1, <2>1, <2>2, SubSeqProperties
<1>3. /\ t \in Seq(S) /\ Len(t) = Len(c) - i
      /\ \A k \in 1..(Len(c) - i) : t[k] = c[i + k]
  <2>1. \A k \in (i + 1)..Len(c) : c[k] \in S
    BY <1>1
  <2>2. i + 1 \in Int /\ Len(c) \in Int
    BY <1>1
  <2> QED
    BY <1>1, <2>1, <2>2, SubSeqProperties
<1>4. RemoveAt(c, i) = s \o t
  BY DEF RemoveAt
<1> HIDE DEF s, t
<1>5. /\ s \o t \in Seq(S) /\ Len(s \o t) = Len(s) + Len(t)
      /\ \A k \in 1..(Len(s) + Len(t)) : (s \o t)[k] = IF k <= Len(s) THEN s[k] ELSE t[k - Len(s)]
  BY <1>2, <1>3, ConcatProperties
<1>6. ASSUME NEW k \in 1..(Len(c) - 1)
      PROVE  (s \o t)[k] = IF k < i THEN c[k] ELSE c[k + 1]
  <2>1. CASE k < i
    BY <1>1, <1>2, <1>3, <1>5, <2>1
  <2>2. CASE ~(k < i)
    <3>1. k - (i - 1) \in 1..(Len(c) - i) /\ i + (k - (i - 1)) = k + 1
      BY <1>1, <2>2
    <3> QED
      BY <1>1, <1>2, <1>3, <1>5, <2>2, <3>1
  <2> QED
    BY <2>1, <2>2
<1> QED
  BY <1>1, <1>2, <1>3, <1>4, <1>5, <1>6

LEMMA Posted ==
  ASSUME NEW c, IsChannel(c), NEW m, IsMessage(m)
  PROVE  IsChannel(Append(c, m))
<1>1. PICK S : c \in Seq(S)
  BY DEF IsChannel
<1>2. \A i \in 1..Len(Append(c, m)) : IsMessage(Append(c, m)[i])
  <2>1. /\ Len(c) \in Nat /\ Len(Append(c, m)) = Len(c) + 1
        /\ \A i \in 1..Len(c) : Append(c, m)[i] = c[i]
        /\ Append(c, m)[Len(c) + 1] = m
    BY <1>1, AppendedFacts
  <2>2. \A i \in 1..(Len(c) + 1) : i \in 1..Len(c) \/ i = Len(c) + 1
    BY <2>1
  <2> QED
    BY <2>1, <2>2 DEF IsChannel
<1> QED
  BY <1>1, <1>2, AppendedFacts DEF IsChannel

LEMMA Handled ==
  ASSUME NEW c, IsChannel(c), c # <<>>
  PROVE  IsChannel(Tail(c)) /\ IsMessage(Head(c)) /\ Head(c) = c[1]
<1>1. PICK S : c \in Seq(S)
  BY DEF IsChannel
<1>2. Len(c) \in Nat /\ 1 \in 1..Len(c)
  BY <1>1
<1>3. /\ Tail(c) \in Seq(S) /\ Len(Tail(c)) = Len(c) - 1
      /\ \A i \in 1..(Len(c) - 1) : Tail(c)[i] = c[i + 1]
  BY <1>1, HeadTailProperties
<1>4. \A i \in 1..(Len(c) - 1) : i + 1 \in 1..Len(c)
  BY <1>2
<1>5. \A i \in 1..Len(Tail(c)) : IsMessage(Tail(c)[i])
  BY <1>3, <1>4 DEF IsChannel
<1>6. Head(c) = c[1]
  OBVIOUS
<1> QED
  BY <1>2, <1>3, <1>5, <1>6 DEF IsChannel

LEMMA Answered ==
  ASSUME NEW c, IsChannel(c), NEW i \in DOMAIN c
  PROVE  IsChannel(RemoveAt(c, i))
<1>1. PICK S : c \in Seq(S)
  BY DEF IsChannel
<1>2. i \in 1..Len(c)
  BY <1>1
<1>3. /\ RemoveAt(c, i) \in Seq(S)
      /\ Len(c) \in Nat /\ Len(RemoveAt(c, i)) = Len(c) - 1
      /\ \A k \in 1..(Len(c) - 1) : RemoveAt(c, i)[k] = IF k < i THEN c[k] ELSE c[k + 1]
  BY <1>1, <1>2, RemovedFacts
<1>4. \A k \in 1..(Len(c) - 1) : k \in 1..Len(c) /\ k + 1 \in 1..Len(c)
  BY <1>3
<1>5. \A k \in 1..(Len(c) - 1) : IsMessage(RemoveAt(c, i)[k])
  BY <1>3, <1>4 DEF IsChannel
<1> QED
  BY <1>3, <1>5 DEF IsChannel
-----------------------------------------------------------------------------
(* What holds whatever the client does: the texts and the changes are such,    *)
(* and the tree of the document fits its text.                              *)
ClientFits == buffer \in Texts \cup {None} /\ batch \in Seq(Changes)
OpenFits   == open # None => \E s : IsDocumentOf(open, s)
Fits       == ClientFits /\ IsChannel(channel) /\ OpenFits

LEMMA ChangesAreSuch ==
  ASSUME NEW s \in Texts, NEW from \in 0..Len(s), NEW to \in 0..Len(s),
         NEW p \in PositionsOf(s, from), NEW q \in PositionsOf(s, to), NEW new \in Texts
  PROVE  [range |-> [start |-> p, end |-> q], text |-> new] \in Changes
BY PositionsMean DEF Means, Changes, Ranges, Texts

LEMMA EditFits ==
  ASSUME Fits, NEW change \in Changes, NEW s \in Texts, Edit(change, s)
  PROVE  Fits'
<1>1. batch' \in Seq(Changes)
  BY DEF Edit, Fits, ClientFits
<1> QED
  BY <1>1 DEF Edit, Client, server, Fits, ClientFits, OpenFits

LEMMA ClientStepFits ==
  ASSUME Fits, DocumentAssumption,
         \/ \E s \in Contents : ReplaceWhole(s) \/ \E l \in Languages : OpenBuffer(s, l)
         \/ \E from \in Carets : \E to \in from..Len(buffer), new \in Inserts : Replace(from, to, new)
         \/ SendChanges \/ CloseBuffer
  PROVE  Fits'
<1>0. Contents \subseteq Texts /\ Inserts \subseteq Texts
  BY DEF DocumentAssumption, Texts
<1>1. ASSUME NEW s \in Contents, ReplaceWhole(s) PROVE Fits'
  <2>1. [range |-> None, text |-> s] \in Changes
    BY <1>0 DEF Changes, Texts
  <2> QED
    BY <1>0, <1>1, <2>1, EditFits DEF ReplaceWhole
<1>2. ASSUME NEW s \in Contents, NEW l \in Languages, OpenBuffer(s, l) PROVE Fits'
  <2> DEFINE message == [type |-> "open", text |-> s, language |-> l, meant |-> s]
  <2>1. IsMessage(message)
    BY <1>0 DEF IsMessage
  <2>2. channel' = Append(channel, message) \/ channel' = channel
    BY <1>2 DEF OpenBuffer, Post
  <2> HIDE DEF message
  <2>3. IsChannel(channel) /\ IsChannel(Append(channel, message))
    BY <2>1, Posted DEF Fits
  <2>4. IsChannel(channel')
    BY <2>2, <2>3
  <2> QED
    BY <1>0, <1>2, <2>4 DEF OpenBuffer, Client, server, Fits, ClientFits, OpenFits
<1>3. ASSUME NEW from \in Carets, NEW to \in from..Len(buffer), NEW new \in Inserts,
             Replace(from, to, new)
      PROVE  Fits'
  <2>1. buffer \in Texts /\ from \in 0..Len(buffer) /\ to \in from..Len(buffer)
    BY <1>3 DEF Replace, Carets, Fits, ClientFits
  <2>2. PICK p \in PositionsOf(buffer, from), q \in PositionsOf(buffer, to) :
          Edit([range |-> [start |-> p, end |-> q], text |-> new],
               Replaced(buffer, from, to, new))
    BY <1>3 DEF Replace
  <2>3. [range |-> [start |-> p, end |-> q], text |-> new] \in Changes
    BY <1>0, <2>1, ChangesAreSuch DEF Texts
  <2>4. Replaced(buffer, from, to, new) \in Texts
    BY <1>0, <2>1, ReplacedFacts
  <2> QED
    BY <2>2, <2>3, <2>4, EditFits
<1>4. ASSUME SendChanges PROVE Fits'
  <2> DEFINE message == [type |-> "change", changes |-> batch, meant |-> buffer]
  <2>1. IsMessage(message)
    BY DEF IsMessage, Fits, ClientFits
  <2>2. channel' = Append(channel, message) /\ batch' = <<>>
    BY <1>4 DEF SendChanges, Post
  <2> HIDE DEF message
  <2>3. IsChannel(Append(channel, message))
    BY <2>1, Posted DEF Fits
  <2> QED
    BY <1>4, <2>2, <2>3 DEF SendChanges, Client, server, Fits, ClientFits, OpenFits
<1>5. ASSUME CloseBuffer PROVE Fits'
  <2> DEFINE message == [type |-> "close"]
  <2>1. IsMessage(message)
    BY DEF IsMessage
  <2>2. channel' = Append(channel, message) /\ buffer' = None
    BY <1>5 DEF CloseBuffer, Post
  <2> HIDE DEF message
  <2>3. IsChannel(Append(channel, message))
    BY <2>1, Posted DEF Fits
  <2> QED
    BY <1>5, <2>2, <2>3 DEF CloseBuffer, Client, server, Fits, ClientFits, OpenFits
<1> QED
  BY <1>1, <1>2, <1>3, <1>4, <1>5

LEMMA RequestFits ==
  ASSUME Fits, NEW message, NEW what, Request(message, what),
         message.type \in Requests
  PROVE  Fits'
<1>1. IsMessage(message)
  BY DEF IsMessage, Requests
<1>2. channel' = Append(channel, message)
  BY DEF Request, Post
<1>3. IsChannel(Append(channel, message))
  BY <1>1, Posted DEF Fits
<1> QED
  BY <1>2, <1>3 DEF Request, Client, client, server, Fits, ClientFits, OpenFits

LEMMA RequestsFit ==
  ASSUME Fits,
         \/ RequestFull \/ RequestDelta
         \/ \E from : RequestCompletion(from) \/ \E to : RequestRange(from, to)
  PROVE  Fits'
BY RequestFits DEF RequestFull, RequestDelta, RequestCompletion, RequestRange, Requests

LEMMA NotificationFits ==
  ASSUME Fits, DidOpen \/ DidChange \/ DidClose
  PROVE  Fits'
<1> DEFINE message == Head(channel)
<1>1. /\ channel # <<>> /\ channel' = Tail(channel)
      /\ UNCHANGED <<buffer, batch>>
  BY DEF DidOpen, DidChange, DidClose, Handles, client
<1>2. IsChannel(channel') /\ IsMessage(message)
  BY <1>1, Handled DEF Fits
<1>3. ASSUME DidOpen PROVE OpenFits'
  <2>1. message.text \in Texts /\ open' = NewOpenDocument(message.text, message.language)
    BY <1>2, <1>3 DEF DidOpen, Handles, IsMessage
  <2>2. IsDocumentOf(NewOpenDocument(message.text, message.language), message.text)
    BY <2>1, NewIsDocument
  <2> QED
    BY <2>1, <2>2 DEF OpenFits
<1>4. ASSUME DidChange PROVE OpenFits'
  <2> DEFINE changes == message.changes
  <2>1. /\ changes \in Seq(Changes)
        /\ open' = IF open = None THEN FromFullText(changes)
                   ELSE Invalidate(ApplyContentChanges(open, changes))
    BY <1>2, <1>4 DEF DidChange, Handles, IsMessage
  <2> HIDE DEF changes
  <2>2. CASE open # None
    <3>1. PICK s : IsDocumentOf(open, s)
      BY <2>2 DEF Fits, OpenFits
    <3>2. PICK t : IsDocumentOf(ApplyContentChanges(open, changes), t)
      BY <2>1, <3>1, ChangesApplied
    <3>3. IsDocumentOf(Invalidate(ApplyContentChanges(open, changes)), t)
      BY <3>2, InvalidateKeeps
    <3> QED
      BY <2>1, <2>2, <3>3 DEF OpenFits
  <2>3. CASE open = None
    <3> DEFINE full == {i \in DOMAIN changes : changes[i].range = None}
    <3>1. CASE full = {}
      BY <2>1, <2>3, <3>1 DEF FromFullText, OpenFits
    <3>2. CASE full # {}
      <4>1. full \subseteq 0..Len(changes) /\ Len(changes) \in Nat
        BY <2>1
      <4>2. Max(full) \in full
        BY <3>2, <4>1, GreatestNumber
      <4> DEFINE last == Max(full)
      <4>3. last \in 1..Len(changes)
        BY <2>1, <4>2
      <4> HIDE DEF last
      <4>4. changes[last].text \in Texts
        <5>1. changes[last] \in Changes
          BY <2>1, <4>3
        <5> QED
          BY <5>1 DEF Changes, Texts
      <4>5. open' = NewOpenDocument(changes[last].text, Extension)
        BY <2>1, <2>3, <3>2 DEF FromFullText, last
      <4> QED
        BY <4>4, <4>5, NewIsDocument DEF OpenFits
    <3> QED
      BY <3>1, <3>2
  <2> QED
    BY <2>2, <2>3
<1>5. ASSUME DidClose PROVE OpenFits'
  BY <1>5 DEF DidClose, OpenFits
<1> QED
  BY <1>1, <1>2, <1>3, <1>4, <1>5 DEF Fits, ClientFits

LEMMA AnswerFits ==
  ASSUME Fits, NEW i \in DOMAIN channel,
         \/ SemanticTokensFull(i) \/ SemanticTokensFullDelta(i)
         \/ SemanticTokensRange(i) \/ Completion(i)
  PROVE  Fits'
<1>1. channel' = RemoveAt(channel, i) /\ UNCHANGED <<buffer, batch>>
  BY DEF SemanticTokensFull, SemanticTokensFullDelta, SemanticTokensRange, Completion,
         Answers, client
<1>2. IsChannel(channel')
  BY <1>1, Answered DEF Fits
<1>3. \/ open' = open
      \/ open # None /\ open' = Analysed(open)
      \/ open # None /\ \E data : RememberTokens(open, data)
  BY DEF SemanticTokensFull, SemanticTokensFullDelta, SemanticTokensRange, Completion, Nothing
<1>4. ASSUME open # None PROVE \E s : IsDocumentOf(Analysed(open), s)
  BY <1>4, AnalysedKeeps DEF Fits, OpenFits
<1>5. ASSUME open # None, NEW data, RememberTokens(open, data)
      PROVE  \E s : IsDocumentOf(open', s)
  BY <1>4, <1>5, RememberedKeeps DEF RememberTokens
<1>6. OpenFits'
  BY <1>3, <1>4, <1>5 DEF Fits, OpenFits
<1> QED
  BY <1>1, <1>2, <1>6 DEF Fits, ClientFits

(* The tree that apply_change shifts fits the text, also for a client that did *)
(* not open the document, whose positions then mean nothing in the server's    *)
(* text (ChangesApplied holds for changes of any ranges).                    *)
THEOREM TreesFit == Spec => []TreeFitsTheText
<1>1. Init => Fits
  <2>1. IsChannel(<<>>)
    BY EmptySeq DEF IsChannel
  <2> QED
    BY <2>1 DEF Init, Fits, ClientFits, OpenFits
<1>2. Fits /\ [Next]_vars => Fits'
  <2> SUFFICES ASSUME Fits, [Next]_vars PROVE Fits'
    OBVIOUS
  <2>1. CASE UNCHANGED vars
    BY <2>1 DEF vars, client, server, Fits, ClientFits, OpenFits
  <2>2. ASSUME \/ \E s \in Contents : ReplaceWhole(s) \/ \E l \in Languages : OpenBuffer(s, l)
               \/ \E from \in Carets :
                    \E to \in from..Len(buffer), new \in Inserts : Replace(from, to, new)
               \/ SendChanges \/ CloseBuffer
        PROVE  Fits'
    BY <2>2, ClientStepFits, DocumentAssumption
  <2>3. ASSUME \/ RequestFull \/ RequestDelta
               \/ \E from : RequestCompletion(from) \/ \E to : RequestRange(from, to)
        PROVE  Fits'
    BY <2>3, RequestsFit
  <2>4. ASSUME DidOpen \/ DidChange \/ DidClose PROVE Fits'
    BY <2>4, NotificationFits
  <2>5. ASSUME NEW i \in DOMAIN channel,
               \/ SemanticTokensFull(i) \/ SemanticTokensFullDelta(i)
               \/ SemanticTokensRange(i) \/ Completion(i)
        PROVE  Fits'
    BY <2>5, AnswerFits
  <2>6. CASE Analyse
    BY <2>6, AnalysedKeeps DEF Analyse, client, Fits, ClientFits, OpenFits
  <2>7. ASSUME NEW k \in Kinds, Reload(k) PROVE Fits'
    BY <2>7 DEF Reload, client, server, Fits, ClientFits, OpenFits
  <2> QED
    BY <2>1, <2>2, <2>3, <2>4, <2>5, <2>6, <2>7 DEF Next
<1>3. Fits => TreeFitsTheText
  BY DEF Fits, OpenFits, IsDocumentOf, TreeFitsTheText
<1> QED
  BY <1>1, <1>2, <1>3, PTL DEF Spec
-----------------------------------------------------------------------------
(* What the client means: by a change, by a batch of changes, by a message and *)
(* by the messages on their way, each from one text to another.              *)
Denotes(e, s, change, t) ==
  /\ s \in Texts /\ change.text \in Texts
  /\ \/ change.range = None /\ t = change.text
     \/ /\ change.range # None
        /\ \E i \in 0..Len(s) : \E j \in i..Len(s) :
             /\ Means(e, s, change.range.start, i) /\ Means(e, s, change.range.end, j)
             /\ t = Replaced(s, i, j, change.text)

LeadsBy(e, f, changes) == \A i \in 1..Len(changes) : Denotes(e, f[i - 1], changes[i], f[i])

Leads(e, s, changes, t) ==
  \E f : f[0] = s /\ f[Len(changes)] = t /\ LeadsBy(e, f, changes)

CaretOf(e, s, i) ==
  [line |-> LinesBefore(s, i), character |-> Measure(e, SubSeq(s, LineStart(s, i) + 1, i))]

Asks(e, s, m) ==
  /\ m.type = "range" =>
       \E i, j \in 0..Len(s) :
         i < j /\ m.range = [start |-> CaretOf(e, s, i), end |-> CaretOf(e, s, j)]
  /\ m.type = "completion" => m.caret \in 0..Len(s) /\ m.position = CaretOf(e, s, m.caret)

MessageLeads(e, s, m, t) ==
  \/ /\ m.type = "open" /\ m.text \in Texts /\ m.meant = t /\ m.text = t
     /\ m.language \in Languages
  \/ /\ m.type = "change" /\ m.changes \in Seq(Changes) /\ m.meant = t
     /\ s \in Texts /\ t \in Texts /\ Leads(e, s, m.changes, t)
  \/ m.type = "close" /\ t = None
  \/ m.type \in Requests /\ t = s /\ Asks(e, s, m)

FollowsBy(e, f, c) == \A i \in 1..Len(c) : MessageLeads(e, f[i - 1], c[i], f[i])

Follows(e, s, c, t) == \E f : f[0] = s /\ f[Len(c)] = t /\ FollowsBy(e, f, c)

LEMMA NoChange ==
  ASSUME NEW e, NEW s
  PROVE  Leads(e, s, <<>>, s)
<1>1. LeadsBy(e, [i \in {0} |-> s], <<>>)
  BY DEF LeadsBy
<1> QED
  BY <1>1 DEF Leads

LEMMA NoChangeOnly ==
  ASSUME NEW e, NEW s, NEW t, Leads(e, s, <<>>, t)
  PROVE  s = t
BY DEF Leads

LEMMA OneMoreChange ==
  ASSUME NEW e, NEW s, NEW t, NEW u, NEW S, NEW changes \in Seq(S), NEW change,
         Leads(e, s, changes, t), Denotes(e, t, change, u)
  PROVE  Leads(e, s, Append(changes, change), u)
<1> DEFINE n == Len(changes)
           more == Append(changes, change)
<1>1. /\ n \in Nat /\ Len(more) = n + 1
      /\ \A i \in 1..n : more[i] = changes[i]
      /\ more[n + 1] = change
  BY AppendedFacts
<1>2. PICK f : f[0] = s /\ f[n] = t /\ LeadsBy(e, f, changes)
  BY DEF Leads
<1> HIDE DEF n, more
<1> DEFINE g == [i \in 0..(n + 1) |-> IF i = n + 1 THEN u ELSE f[i]]
<1>3. g[0] = s /\ g[n] = t /\ g[n + 1] = u /\ \A i \in 0..n : g[i] = f[i]
  BY <1>1, <1>2
<1> HIDE DEF g
<1>4. ASSUME NEW i \in 1..(n + 1) PROVE Denotes(e, g[i - 1], more[i], g[i])
  <2>1. CASE i = n + 1
    <3>1. i - 1 = n
      BY <1>1, <2>1
    <3> QED
      BY <1>1, <1>3, <2>1, <3>1
  <2>2. CASE i # n + 1
    <3>1. i \in 1..n /\ i - 1 \in 0..n /\ i \in 0..n
      BY <1>1, <2>2
    <3>2. Denotes(e, f[i - 1], changes[i], f[i])
      BY <1>2, <3>1 DEF LeadsBy, n
    <3> QED
      BY <1>1, <1>3, <3>1, <3>2
  <2> QED
    BY <2>1, <2>2
<1>5. LeadsBy(e, g, more)
  BY <1>1, <1>4 DEF LeadsBy
<1>6. Leads(e, s, more, u)
  BY <1>1, <1>3, <1>5 DEF Leads
<1> QED
  BY <1>6 DEF more

LEMMA NoMessage ==
  ASSUME NEW e, NEW s
  PROVE  Follows(e, s, <<>>, s)
<1>1. FollowsBy(e, [i \in {0} |-> s], <<>>)
  BY DEF FollowsBy
<1> QED
  BY <1>1 DEF Follows

LEMMA OneMoreMessage ==
  ASSUME NEW e, NEW s, NEW t, NEW u, NEW S, NEW c \in Seq(S), NEW m,
         Follows(e, s, c, t), MessageLeads(e, t, m, u)
  PROVE  Follows(e, s, Append(c, m), u)
<1> DEFINE n == Len(c)
           more == Append(c, m)
<1>1. /\ n \in Nat /\ Len(more) = n + 1
      /\ \A i \in 1..n : more[i] = c[i]
      /\ more[n + 1] = m
  BY AppendedFacts
<1>2. PICK f : f[0] = s /\ f[n] = t /\ FollowsBy(e, f, c)
  BY DEF Follows
<1> HIDE DEF n, more
<1> DEFINE g == [i \in 0..(n + 1) |-> IF i = n + 1 THEN u ELSE f[i]]
<1>3. g[0] = s /\ g[n] = t /\ g[n + 1] = u /\ \A i \in 0..n : g[i] = f[i]
  BY <1>1, <1>2
<1> HIDE DEF g
<1>4. ASSUME NEW i \in 1..(n + 1) PROVE MessageLeads(e, g[i - 1], more[i], g[i])
  <2>1. CASE i = n + 1
    <3>1. i - 1 = n
      BY <1>1, <2>1
    <3> QED
      BY <1>1, <1>3, <2>1, <3>1
  <2>2. CASE i # n + 1
    <3>1. i \in 1..n /\ i - 1 \in 0..n /\ i \in 0..n
      BY <1>1, <2>2
    <3>2. MessageLeads(e, f[i - 1], c[i], f[i])
      BY <1>2, <3>1 DEF FollowsBy, n
    <3> QED
      BY <1>1, <1>3, <3>1, <3>2
  <2> QED
    BY <2>1, <2>2
<1>5. FollowsBy(e, g, more)
  BY <1>1, <1>4 DEF FollowsBy
<1>6. Follows(e, s, more, u)
  BY <1>1, <1>3, <1>5 DEF Follows
<1> QED
  BY <1>6 DEF more

LEMMA FirstMessage ==
  ASSUME NEW e, NEW s, NEW t, NEW S, NEW c \in Seq(S), c # <<>>, Follows(e, s, c, t)
  PROVE  \E u : MessageLeads(e, s, Head(c), u) /\ Follows(e, u, Tail(c), t)
<1> DEFINE n == Len(c)
           rest == Tail(c)
<1>1. /\ n \in Nat /\ n >= 1 /\ Len(rest) = n - 1
      /\ \A i \in 1..(n - 1) : rest[i] = c[i + 1]
      /\ Head(c) = c[1]
  BY HeadTailProperties
<1>2. PICK f : f[0] = s /\ f[n] = t /\ FollowsBy(e, f, c)
  BY DEF Follows
<1>3. \A i \in 1..n : MessageLeads(e, f[i - 1], c[i], f[i])
  BY <1>2 DEF FollowsBy
<1> HIDE DEF n, rest
<1>4. MessageLeads(e, s, Head(c), f[1])
  <2>1. 1 \in 1..n /\ 1 - 1 = 0
    BY <1>1
  <2> QED
    BY <1>1, <1>2, <1>3, <2>1
<1> DEFINE g == [i \in 0..(n - 1) |-> f[i + 1]]
<1>5. g[0] = f[1] /\ g[n - 1] = t /\ \A i \in 0..(n - 1) : g[i] = f[i + 1]
  <2>1. 0 \in 0..(n - 1) /\ n - 1 \in 0..(n - 1) /\ (n - 1) + 1 = n /\ 0 + 1 = 1
    BY <1>1
  <2> QED
    BY <1>2, <2>1
<1> HIDE DEF g
<1>6. ASSUME NEW i \in 1..(n - 1) PROVE MessageLeads(e, g[i - 1], rest[i], g[i])
  <2>1. /\ i + 1 \in 1..n /\ (i + 1) - 1 = i /\ (i - 1) + 1 = i
        /\ i - 1 \in 0..(n - 1) /\ i \in 0..(n - 1)
    BY <1>1
  <2>2. MessageLeads(e, f[i], c[i + 1], f[i + 1])
    BY <1>3, <2>1
  <2> QED
    BY <1>1, <1>5, <2>1, <2>2
<1>7. FollowsBy(e, g, rest)
  BY <1>1, <1>6 DEF FollowsBy
<1>8. Follows(e, f[1], rest, t)
  BY <1>1, <1>5, <1>7 DEF Follows
<1> QED
  BY <1>4, <1>8 DEF rest

(* Requests leave the text alone, and one may pass those before it.           *)
LEMMA RequestRemoved ==
  ASSUME NEW e, NEW s, NEW t, NEW S, NEW c \in Seq(S), NEW k \in 1..Len(c),
         c[k].type \in Requests, Follows(e, s, c, t)
  PROVE  Follows(e, s, RemoveAt(c, k), t)
<1> DEFINE n == Len(c)
           rest == RemoveAt(c, k)
<1>1. /\ n \in Nat /\ k \in 1..n /\ Len(rest) = n - 1
      /\ \A i \in 1..(n - 1) : rest[i] = IF i < k THEN c[i] ELSE c[i + 1]
  BY RemovedFacts
<1>2. PICK f : f[0] = s /\ f[n] = t /\ FollowsBy(e, f, c)
  BY DEF Follows
<1>3. \A i \in 1..n : MessageLeads(e, f[i - 1], c[i], f[i])
  BY <1>2 DEF FollowsBy
<1> HIDE DEF n, rest
<1>4. f[k - 1] = f[k]
  BY <1>1, <1>3 DEF MessageLeads, Requests
<1> DEFINE g == [i \in 0..(n - 1) |-> IF i < k THEN f[i] ELSE f[i + 1]]
<1>5. \A i \in 0..(n - 1) : g[i] = IF i < k THEN f[i] ELSE f[i + 1]
  OBVIOUS
<1> HIDE DEF g
<1>6. g[0] = s /\ g[n - 1] = t
  <2>1. 0 \in 0..(n - 1) /\ n - 1 \in 0..(n - 1) /\ (n - 1) + 1 = n /\ 0 < k
    BY <1>1
  <2>2. g[0] = s
    BY <1>2, <1>5, <2>1
  <2>3. CASE n - 1 < k
    <3>1. n = k
      BY <1>1, <2>3
    <3> QED
      BY <1>2, <1>4, <1>5, <2>1, <2>2, <2>3, <3>1
  <2>4. CASE ~(n - 1 < k)
    BY <1>2, <1>5, <2>1, <2>2, <2>4
  <2> QED
    BY <2>3, <2>4
<1>7. ASSUME NEW i \in 1..(n - 1) PROVE MessageLeads(e, g[i - 1], rest[i], g[i])
  <2>1. /\ i \in 1..n /\ i + 1 \in 1..n /\ (i + 1) - 1 = i /\ (i - 1) + 1 = i
        /\ i - 1 \in 0..(n - 1) /\ i \in 0..(n - 1)
    BY <1>1
  <2>2. CASE i < k
    <3>1. i - 1 < k
      BY <1>1, <2>2
    <3>2. g[i - 1] = f[i - 1] /\ g[i] = f[i] /\ rest[i] = c[i]
      BY <1>1, <1>5, <2>1, <2>2, <3>1
    <3> QED
      BY <1>3, <2>1, <3>2
  <2>3. CASE ~(i < k)
    <3>1. rest[i] = c[i + 1] /\ g[i] = f[i + 1]
      BY <1>1, <1>5, <2>1, <2>3
    <3>2. g[i - 1] = f[i]
      <4>1. CASE i - 1 < k
        <5>1. i = k
          BY <1>1, <2>3, <4>1
        <5> QED
          BY <1>4, <1>5, <2>1, <4>1, <5>1
      <4>2. CASE ~(i - 1 < k)
        BY <1>5, <2>1, <4>2
      <4> QED
        BY <4>1, <4>2
    <3>3. MessageLeads(e, f[i], c[i + 1], f[i + 1])
      BY <1>3, <2>1
    <3> QED
      BY <3>1, <3>2, <3>3
  <2> QED
    BY <2>2, <2>3
<1>8. FollowsBy(e, g, rest)
  BY <1>1, <1>7 DEF FollowsBy
<1>9. Follows(e, s, rest, t)
  BY <1>1, <1>6, <1>8 DEF Follows
<1> QED
  BY <1>9 DEF rest
-----------------------------------------------------------------------------
(* The server applies what the client means.                                 *)
LEMMA MeantChangeApplied ==
  ASSUME NEW o, NEW s, IsDocumentOf(o, s), NEW change, NEW t,
         Denotes(encoding, s, change, t)
  PROVE  IsDocumentOf(ApplyContentChange(o, change), t)
<1>1. s \in Texts /\ change.text \in Texts
  BY DEF Denotes
<1>2. CASE change.range = None
  BY <1>1, <1>2, WholeTextApplied DEF Denotes
<1>3. CASE change.range # None
  <2>1. PICK i \in 0..Len(s) : \E j \in i..Len(s) :
             /\ Means(encoding, s, change.range.start, i)
             /\ Means(encoding, s, change.range.end, j)
             /\ t = Replaced(s, i, j, change.text)
    BY <1>3 DEF Denotes
  <2>2. PICK j \in i..Len(s) :
             /\ Means(encoding, s, change.range.start, i)
             /\ Means(encoding, s, change.range.end, j)
             /\ t = Replaced(s, i, j, change.text)
    BY <2>1
  <2>3. j \in 0..Len(s) /\ i <= j
    BY <2>2
  <2>4. /\ OffsetAt(NewDocument(s), change.range.start) = Offset(s, i)
        /\ OffsetAt(NewDocument(s), change.range.end) = Offset(s, j)
    BY <1>1, <2>2, <2>3, OffsetOfMeant
  <2>5. Offset(s, i) \in Nat /\ Offset(s, j) \in Nat
    BY <1>1, <2>3, OffsetFacts
  <2>6. Offset(s, j) <= Offset(s, i) => Offset(s, i) = Offset(s, j)
    <3>1. Offset(s, i) <= Offset(s, j)
      BY <1>1, <2>3, OffsetOrder
    <3> QED
      BY <2>5, <3>1
  <2>7. Max({Offset(s, j), Offset(s, i)}) = Offset(s, j)
    BY <2>5, <2>6, GreaterOf
  <2> QED
    BY <1>1, <1>3, <2>2, <2>4, <2>7, RangeApplied
<1> QED
  BY <1>2, <1>3

LEMMA MeantChangesApplied ==
  ASSUME NEW o, NEW s, IsDocumentOf(o, s), NEW changes \in Seq(Changes), NEW t,
         Leads(encoding, s, changes, t)
  PROVE  IsDocumentOf(ApplyContentChanges(o, changes), t)
<1>1. PICK f : ApplyContentChanges(o, changes) = f[Len(changes)] /\ Applies(o, changes, f)
  BY ApplyContentChangesSteps
<1>2. PICK g : g[0] = s /\ g[Len(changes)] = t /\ LeadsBy(encoding, g, changes)
  BY DEF Leads
<1>3. Len(changes) \in Nat
  OBVIOUS
<1> DEFINE N == {n \in Nat : n <= Len(changes) => IsDocumentOf(f[n], g[n])}
<1>4. 0 \in N
  BY <1>1, <1>2 DEF Applies
<1>5. ASSUME NEW n \in Nat, n \in N PROVE n + 1 \in N
  <2> SUFFICES ASSUME n + 1 <= Len(changes) PROVE IsDocumentOf(f[n + 1], g[n + 1])
    OBVIOUS
  <2>1. n + 1 \in 1..Len(changes) /\ (n + 1) - 1 = n
    BY <1>3
  <2>2. IsDocumentOf(f[n], g[n])
    BY <1>3, <1>5
  <2>3. f[n + 1] = ApplyContentChange(f[n], changes[n + 1])
    BY <1>1, <2>1 DEF Applies
  <2>4. Denotes(encoding, g[n], changes[n + 1], g[n + 1])
    BY <1>2, <2>1 DEF LeadsBy
  <2> QED
    BY <2>2, <2>3, <2>4, MeantChangeApplied
<1> HIDE DEF N
<1>6. Len(changes) \in N
  BY <1>3, <1>4, <1>5, CountUp
<1> QED
  BY <1>1, <1>2, <1>3, <1>6 DEF N
-----------------------------------------------------------------------------
(* Between what the client meant by the last notification handled and its      *)
(* buffer are the messages on their way and the changes not sent; the open     *)
(* document is that of the text that was meant.                             *)
OnTheWay == \E s \in Texts \cup {None} :
              Follows(encoding, meant, channel, s) /\ Leads(encoding, s, batch, buffer)
OpenIsMeant == \/ open = None /\ meant = None
               \/ IsDocumentOf(open, meant)
InSync ==
  /\ ClientFits
  /\ buffer = None => batch = <<>>
  /\ \E S : channel \in Seq(S)
  /\ OnTheWay
  /\ OpenIsMeant

LEMMA PostSyncs ==
  ASSUME InSync, NEW s, Follows(encoding, meant, channel, s),
         NEW m, NEW t \in Texts \cup {None}, MessageLeads(encoding, s, m, t),
         channel' = Append(channel, m), batch' = <<>>, buffer' = t,
         UNCHANGED <<encoding, open, meant>>
  PROVE  InSync'
<1>1. PICK S : channel \in Seq(S)
  BY DEF InSync
<1>2. Append(channel, m) \in Seq(S \cup {m})
  BY <1>1, AppendedFacts
<1>3. Follows(encoding, meant, Append(channel, m), t)
  BY <1>1, OneMoreMessage
<1>4. OnTheWay'
  BY <1>3, NoChange DEF OnTheWay
<1>5. ClientFits' /\ OpenIsMeant'
  <2>1. <<>> \in Seq(Changes)
    BY EmptySeq
  <2> QED
    BY <2>1 DEF InSync, ClientFits, OpenIsMeant
<1> QED
  BY <1>2, <1>4, <1>5 DEF InSync

LEMMA CurrentMessages ==
  ASSUME InSync, batch = <<>>
  PROVE  Follows(encoding, meant, channel, buffer)
BY NoChangeOnly DEF InSync, OnTheWay

LEMMA EditSyncs ==
  ASSUME InSync, buffer # None, NEW change \in Changes, NEW t \in Texts,
         Denotes(encoding, buffer, change, t), Edit(change, t)
  PROVE  InSync'
<1>1. PICK s \in Texts \cup {None} :
        Follows(encoding, meant, channel, s) /\ Leads(encoding, s, batch, buffer)
  BY DEF InSync, OnTheWay
<1>2. batch \in Seq(Changes)
  BY DEF InSync, ClientFits
<1>3. Leads(encoding, s, Append(batch, change), t)
  BY <1>1, <1>2, OneMoreChange
<1>4. Append(batch, change) \in Seq(Changes)
  BY <1>2
<1>5. /\ batch' = Append(batch, change) /\ buffer' = t
      /\ UNCHANGED <<channel, encoding, open, meant>>
  BY DEF Edit, Client, server
<1>6. OnTheWay'
  BY <1>1, <1>3, <1>5 DEF OnTheWay
<1>7. OpenIsMeant' /\ (\E S : channel' \in Seq(S)) /\ ClientFits' /\ (buffer' # None)
  <2>1. None \notin Texts
    BY DocumentAssumption DEF DocumentAssumption, Texts
  <2> QED
    BY <1>4, <1>5, <2>1 DEF InSync, OpenIsMeant, ClientFits
<1> QED
  BY <1>6, <1>7 DEF InSync

LEMMA ClientStepSyncs ==
  ASSUME InSync, ~Unannounced,
         \/ \E s \in Contents : ReplaceWhole(s) \/ \E l \in Languages : OpenBuffer(s, l)
         \/ \E from \in Carets : \E to \in from..Len(buffer), new \in Inserts :
              Replace(from, to, new)
         \/ SendChanges \/ CloseBuffer
  PROVE  InSync'
<1>0. Contents \subseteq Texts /\ Inserts \subseteq Texts
  BY DocumentAssumption DEF DocumentAssumption, Texts
<1>1. ASSUME NEW s \in Contents, ReplaceWhole(s) PROVE InSync'
  <2> DEFINE change == [range |-> None, text |-> s]
  <2>1. s \in Texts /\ buffer # None /\ buffer \in Texts /\ Edit(change, s)
    BY <1>0, <1>1 DEF ReplaceWhole, InSync, ClientFits
  <2>2. change \in Changes
    BY <2>1 DEF Changes, Texts
  <2>3. Denotes(encoding, buffer, change, s)
    BY <2>1 DEF Denotes
  <2> HIDE DEF change
  <2> QED
    BY <2>1, <2>2, <2>3, EditSyncs
<1>2. ASSUME NEW s \in Contents, NEW l \in Languages, OpenBuffer(s, l) PROVE InSync'
  <2> DEFINE m == [type |-> "open", text |-> s, language |-> l, meant |-> s]
  <2>1. /\ channel' = Append(channel, m) /\ buffer = None /\ buffer' = s
        /\ UNCHANGED <<batch, encoding, open, meant>>
    BY <1>2 DEF OpenBuffer, Post, Client, server
  <2>2. batch = <<>> /\ s \in Texts
    BY <1>0, <2>1 DEF InSync
  <2>3. MessageLeads(encoding, buffer, m, s)
    BY <2>2 DEF MessageLeads
  <2> HIDE DEF m
  <2> QED
    BY <2>1, <2>2, <2>3, CurrentMessages, PostSyncs
<1>3. ASSUME NEW from \in Carets, NEW to \in from..Len(buffer), NEW new \in Inserts,
             Replace(from, to, new)
      PROVE  InSync'
  <2>1. /\ buffer # None /\ buffer \in Texts /\ new \in Texts
        /\ from \in 0..Len(buffer) /\ to \in 0..Len(buffer)
    BY <1>0, <1>3 DEF Replace, Carets, InSync, ClientFits
  <2>2. PICK p \in PositionsOf(buffer, from), q \in PositionsOf(buffer, to) :
          Edit([range |-> [start |-> p, end |-> q], text |-> new],
               Replaced(buffer, from, to, new))
    BY <1>3 DEF Replace
  <2> DEFINE change == [range |-> [start |-> p, end |-> q], text |-> new]
             t == Replaced(buffer, from, to, new)
  <2>3. change \in Changes
    BY <2>1, ChangesAreSuch
  <2>4. t \in Texts
    BY <2>1, ReplacedFacts
  <2>5. Means(encoding, buffer, p, from) /\ Means(encoding, buffer, q, to)
    BY <2>1, PositionsMean
  <2>6. change.range # None
    <3>1. change.range \in Ranges
      BY <2>5 DEF Means, Ranges
    <3> QED
      BY <3>1, DocumentAssumption DEF DocumentAssumption
  <2>7. Denotes(encoding, buffer, change, t)
    BY <2>1, <2>5, <2>6 DEF Denotes
  <2> HIDE DEF t
  <2> QED
    BY <2>1, <2>2, <2>3, <2>4, <2>7, EditSyncs DEF t
<1>4. ASSUME SendChanges PROVE InSync'
  <2> DEFINE m == [type |-> "change", changes |-> batch, meant |-> buffer]
  <2>1. /\ channel' = Append(channel, m) /\ batch' = <<>> /\ batch # <<>>
        /\ UNCHANGED <<buffer, encoding, open, meant>>
    BY <1>4 DEF SendChanges, Post, Client, server
  <2>2. PICK s \in Texts \cup {None} :
          Follows(encoding, meant, channel, s) /\ Leads(encoding, s, batch, buffer)
    BY DEF InSync, OnTheWay
  <2>3. buffer \in Texts /\ batch \in Seq(Changes)
    BY <2>1 DEF InSync, ClientFits
  <2>4. s \in Texts
    <3>1. 1 \in 1..Len(batch) /\ 1 - 1 = 0
      BY <2>1, <2>3
    <3> QED
      BY <2>2, <3>1 DEF Leads, LeadsBy, Denotes
  <2>5. MessageLeads(encoding, s, m, buffer)
    BY <2>2, <2>3, <2>4 DEF MessageLeads
  <2> HIDE DEF m
  <2> QED
    BY <2>1, <2>2, <2>3, <2>5, PostSyncs
<1>5. ASSUME CloseBuffer PROVE InSync'
  <2> DEFINE m == [type |-> "close"]
  <2>1. /\ channel' = Append(channel, m) /\ buffer' = None /\ batch = <<>>
        /\ UNCHANGED <<batch, encoding, open, meant>>
    BY <1>5 DEF CloseBuffer, Post, Client, server
  <2>2. MessageLeads(encoding, buffer, m, None)
    BY DEF MessageLeads
  <2> HIDE DEF m
  <2> QED
    BY <2>1, <2>2, CurrentMessages, PostSyncs
<1> QED
  BY <1>1, <1>2, <1>3, <1>4, <1>5

LEMMA RequestSyncs ==
  ASSUME InSync, NEW m, NEW what, Request(m, what), m.type \in Requests,
         Asks(encoding, buffer, m)
  PROVE  InSync'
<1>1. /\ channel' = Append(channel, m) /\ batch = <<>>
      /\ UNCHANGED <<buffer, batch, encoding, open, meant>>
  BY DEF Request, Post, Client, client, server
<1>2. MessageLeads(encoding, buffer, m, buffer)
  BY DEF MessageLeads
<1>3. buffer \in Texts \cup {None}
  BY DEF InSync, ClientFits
<1> QED
  BY <1>1, <1>2, <1>3, CurrentMessages, PostSyncs

LEMMA CaretIsCaret ==
  ASSUME NEW s, NEW i
  PROVE  CaretPosition(s, i) = CaretOf(encoding, s, i)
BY DEF CaretPosition, Position, Units, CaretOf

LEMMA RequestsSync ==
  ASSUME InSync,
         \/ RequestFull \/ RequestDelta
         \/ \E from \in Carets :
              RequestCompletion(from) \/ \E to \in from..Len(buffer) : RequestRange(from, to)
  PROVE  InSync'
<1>1. ASSUME RequestFull \/ RequestDelta PROVE InSync'
  BY <1>1, RequestSyncs DEF RequestFull, RequestDelta, Requests, Asks
<1>2. ASSUME NEW from \in Carets, RequestCompletion(from) PROVE InSync'
  <2> DEFINE m == [type |-> "completion", caret |-> from, position |-> CaretPosition(buffer, from)]
  <2>1. Request(m, "words")
    BY <1>2 DEF RequestCompletion
  <2>2. from \in 0..Len(buffer)
    BY DEF Carets
  <2>3. Asks(encoding, buffer, m) /\ m.type \in Requests
    BY <2>2, CaretIsCaret DEF Asks, Requests
  <2> HIDE DEF m
  <2> QED
    BY <2>1, <2>3, RequestSyncs
<1>3. ASSUME NEW from \in Carets, NEW to \in from..Len(buffer), RequestRange(from, to)
      PROVE  InSync'
  <2> DEFINE m == [type |-> "range", range |-> [start |-> CaretPosition(buffer, from),
                                                end |-> CaretPosition(buffer, to)]]
  <2>1. Request(m, "ranges") /\ from < to
    BY <1>3 DEF RequestRange
  <2>2. buffer \in Texts /\ from \in 0..Len(buffer) /\ to \in 0..Len(buffer)
    BY <2>1 DEF Carets, Request, InSync, ClientFits, Texts
  <2>3. Asks(encoding, buffer, m) /\ m.type \in Requests
    BY <2>1, <2>2, CaretIsCaret DEF Asks, Requests
  <2> HIDE DEF m
  <2> QED
    BY <2>1, <2>3, RequestSyncs
<1> QED
  BY <1>1, <1>2, <1>3

LEMMA NotificationSyncs ==
  ASSUME InSync, DOMAIN None # Fields, DidOpen \/ DidChange \/ DidClose
  PROVE  InSync'
<1> DEFINE m == Head(channel)
<1>1. /\ channel # <<>> /\ channel' = Tail(channel)
      /\ UNCHANGED <<buffer, batch, encoding>>
  BY DEF DidOpen, DidChange, DidClose, Handles, client
<1>2. PICK S : channel \in Seq(S)
  BY DEF InSync
<1>3. PICK s \in Texts \cup {None} :
        Follows(encoding, meant, channel, s) /\ Leads(encoding, s, batch, buffer)
  BY DEF InSync, OnTheWay
<1>4. PICK t : MessageLeads(encoding, meant, m, t) /\ Follows(encoding, t, Tail(channel), s)
  BY <1>1, <1>2, <1>3, FirstMessage
<1> HIDE DEF m
<1>5. ASSUME DidOpen PROVE meant' = t /\ IsDocumentOf(open', t)
  <2>1. /\ m.type = "open" /\ meant' = m.meant
        /\ open' = NewOpenDocument(m.text, m.language)
    BY <1>5 DEF DidOpen, Handles, m
  <2>2. m.text \in Texts /\ m.meant = t /\ m.text = t
    BY <1>4, <2>1 DEF MessageLeads, Requests
  <2> QED
    BY <2>1, <2>2, NewIsDocument
<1>6. ASSUME DidChange PROVE meant' = t /\ IsDocumentOf(open', t)
  <2> DEFINE changes == m.changes
  <2>1. /\ m.type = "change" /\ meant' = m.meant
        /\ open # None => open' = Invalidate(ApplyContentChanges(open, changes))
    BY <1>6 DEF DidChange, Handles, m
  <2>2. /\ changes \in Seq(Changes) /\ m.meant = t
        /\ meant \in Texts /\ Leads(encoding, meant, changes, t)
    BY <1>4, <2>1 DEF MessageLeads, Requests
  <2>3. meant # None
    BY <2>2, DocumentAssumption DEF DocumentAssumption, Texts
  <2>4. IsDocumentOf(open, meant) /\ open # None
    BY <2>3 DEF InSync, OpenIsMeant, IsDocumentOf
  <2> HIDE DEF changes
  <2> QED
    BY <2>1, <2>2, <2>4, MeantChangesApplied, InvalidateKeeps
<1>7. ASSUME DidClose PROVE meant' = t /\ open' = None /\ t = None
  <2>1. m.type = "close" /\ meant' = None /\ open' = None
    BY <1>7 DEF DidClose, Handles, m
  <2>2. t = None
    BY <1>4, <2>1 DEF MessageLeads, Requests
  <2> QED
    BY <2>1, <2>2
<1>8. meant' = t /\ OpenIsMeant'
  BY <1>5, <1>6, <1>7 DEF OpenIsMeant
<1>9. OnTheWay'
  BY <1>1, <1>3, <1>4, <1>8 DEF OnTheWay
<1>10. Tail(channel) \in Seq(S)
  BY <1>1, <1>2
<1> QED
  BY <1>1, <1>8, <1>9, <1>10 DEF InSync, ClientFits

LEMMA AnswerSyncs ==
  ASSUME InSync, DOMAIN None # Fields, NEW i \in DOMAIN channel,
         \/ SemanticTokensFull(i) \/ SemanticTokensFullDelta(i)
         \/ SemanticTokensRange(i) \/ Completion(i)
  PROVE  InSync'
<1>1. PICK S : channel \in Seq(S)
  BY DEF InSync
<1>2. /\ channel' = RemoveAt(channel, i) /\ channel[i].type \in Requests
      /\ UNCHANGED <<buffer, batch, encoding, meant>>
  BY DEF SemanticTokensFull, SemanticTokensFullDelta, SemanticTokensRange, Completion,
         Answers, client, Requests
<1>3. i \in 1..Len(channel)
  BY <1>1
<1>4. OnTheWay'
  BY <1>1, <1>2, <1>3, RequestRemoved DEF InSync, OnTheWay
<1>5. RemoveAt(channel, i) \in Seq(S)
  BY <1>1, <1>3, RemovedFacts
<1>6. \/ open' = open
      \/ open # None /\ open' = Analysed(open)
      \/ open # None /\ \E data : RememberTokens(open, data)
  BY DEF SemanticTokensFull, SemanticTokensFullDelta, SemanticTokensRange, Completion, Nothing
<1>7. ASSUME open # None PROVE IsDocumentOf(Analysed(open), meant)
  BY <1>7, AnalysedKeeps DEF InSync, OpenIsMeant
<1>8. ASSUME open # None, NEW data, RememberTokens(open, data)
      PROVE  IsDocumentOf(open', meant)
  BY <1>7, <1>8, RememberedKeeps DEF RememberTokens
<1>9. OpenIsMeant'
  BY <1>2, <1>6, <1>7, <1>8 DEF InSync, OpenIsMeant
<1> QED
  BY <1>2, <1>4, <1>5, <1>9 DEF InSync, ClientFits

LEMMA InitSyncs ==
  ASSUME Init
  PROVE  InSync
<1>1. <<>> \in Seq({}) /\ <<>> \in Seq(Changes)
  BY EmptySeq
<1> QED
  BY <1>1, NoMessage, NoChange DEF Init, InSync, ClientFits, OnTheWay, OpenIsMeant

LEMMA StepSyncs ==
  ASSUME InSync, ~Unannounced, DOMAIN None # Fields, [Next]_vars
  PROVE  InSync'
<1>1. CASE UNCHANGED vars
  BY <1>1 DEF vars, client, server, InSync, ClientFits, OnTheWay, OpenIsMeant
<1>2. ASSUME \/ \E s \in Contents : ReplaceWhole(s) \/ \E l \in Languages : OpenBuffer(s, l)
             \/ \E from \in Carets :
                  \E to \in from..Len(buffer), new \in Inserts : Replace(from, to, new)
             \/ SendChanges \/ CloseBuffer
      PROVE  InSync'
  BY <1>2, ClientStepSyncs
<1>3. ASSUME \/ RequestFull \/ RequestDelta
             \/ \E from \in Carets :
                  RequestCompletion(from) \/ \E to \in from..Len(buffer) : RequestRange(from, to)
      PROVE  InSync'
  BY <1>3, RequestsSync
<1>4. ASSUME DidOpen \/ DidChange \/ DidClose PROVE InSync'
  BY <1>4, NotificationSyncs
<1>5. ASSUME NEW i \in DOMAIN channel,
             \/ SemanticTokensFull(i) \/ SemanticTokensFullDelta(i)
             \/ SemanticTokensRange(i) \/ Completion(i)
      PROVE  InSync'
  BY <1>5, AnswerSyncs
<1>6. CASE Analyse
  <2>1. IsDocumentOf(Analysed(open), meant)
    BY <1>6, AnalysedKeeps DEF Analyse, InSync, OpenIsMeant
  <2> QED
    BY <1>6, <2>1 DEF Analyse, client, InSync, ClientFits, OnTheWay, OpenIsMeant
<1>7. ASSUME NEW k \in Kinds, Reload(k) PROVE InSync'
  BY <1>7 DEF Reload, client, server, InSync, ClientFits, OnTheWay, OpenIsMeant
<1> QED
  BY <1>1, <1>2, <1>3, <1>4, <1>5, <1>6, <1>7 DEF Next

(* Of a client that opens what it changes, the server has the text: whatever it *)
(* types, in whatever positions, batches and number of changes, and however    *)
(* its notifications and requests cross.                                    *)
THEOREM TextsAgree ==
  ASSUME ~Unannounced, DOMAIN None # Fields
  PROVE  Spec => []TextIsTheClients
<1>1. InSync => TextIsTheClients
  BY DEF InSync, OpenIsMeant, IsDocumentOf, NewDocument, TextIsTheClients
<1> QED
  BY <1>1, InitSyncs, StepSyncs, PTL DEF Spec
-----------------------------------------------------------------------------
(* Deltas of token streams.                                                  *)
LEMMA SequencePart ==
  ASSUME NEW S, NEW s \in Seq(S), NEW i \in 0..Len(s), NEW j \in i..Len(s)
  PROVE  /\ SubSeq(s, i + 1, j) \in Seq(S)
         /\ Len(SubSeq(s, i + 1, j)) = j - i
         /\ \A k \in 1..(j - i) : SubSeq(s, i + 1, j)[k] = s[i + k]
<1>1. /\ Len(s) \in Nat /\ i \in Nat /\ j \in Nat /\ i <= j /\ j <= Len(s)
      /\ \A k \in 1..Len(s) : s[k] \in S
  OBVIOUS
<1>2. /\ SubSeq(s, i + 1, j) \in Seq(S)
      /\ Len(SubSeq(s, i + 1, j)) = IF i + 1 <= j THEN j - (i + 1) + 1 ELSE 0
      /\ \A k \in 1..(j - (i + 1) + 1) : SubSeq(s, i + 1, j)[k] = s[(i + 1) + k - 1]
  BY <1>1, SubSeqProperties
<1>3. \A k \in 1..(j - i) : (i + 1) + k - 1 = i + k
  BY <1>1
<1> QED
  BY <1>1, <1>2, <1>3

LEMMA JoinFacts ==
  ASSUME NEW S, NEW s \in Seq(S), NEW t \in Seq(S), NEW m, NEW n, Len(s) = m, Len(t) = n
  PROVE  /\ s \o t \in Seq(S) /\ Len(s \o t) = m + n
         /\ \A i \in 1..(m + n) : (s \o t)[i] = IF i <= m THEN s[i] ELSE t[i - m]
BY ConcatProperties

(* How many elements two sequences begin with alike.                          *)
Common(s, t) == Max({n \in 0..Min({Len(s), Len(t)}) : Before(s, n) = Before(t, n)})

LEMMA CommonFacts ==
  ASSUME NEW S, NEW s \in Seq(S), NEW t \in Seq(S)
  PROVE  /\ Common(s, t) \in 0..Len(s) /\ Common(s, t) \in 0..Len(t)
         /\ \A i \in 1..Common(s, t) : s[i] = t[i]
<1> DEFINE least == Min({Len(s), Len(t)})
           alike == {n \in 0..least : Before(s, n) = Before(t, n)}
           n == Max(alike)
<1>1. Len(s) \in Nat /\ Len(t) \in Nat
  OBVIOUS
<1>2. least \in Nat /\ least <= Len(s) /\ least <= Len(t)
  <2>1. {Len(s), Len(t)} \subseteq Nat /\ {Len(s), Len(t)} # {}
    BY <1>1
  <2>2. least \in {Len(s), Len(t)} /\ \A k \in {Len(s), Len(t)} : least <= k
    BY <2>1, MinIsLeast
  <2> QED
    BY <1>1, <2>2
<1> HIDE DEF least
<1>3. 0 \in alike
  <2>1. SubSeq(s, 1, 0) = <<>> /\ SubSeq(t, 1, 0) = <<>>
    BY SubSeqEmpty
  <2> QED
    BY <1>2, <2>1 DEF Before
<1>4. n \in alike
  <2>1. alike \subseteq 0..least /\ alike # {}
    BY <1>3
  <2> HIDE DEF alike
  <2> QED
    BY <1>2, <2>1, GreatestNumber
<1> HIDE DEF n
<1>5. n \in 0..Len(s) /\ n \in 0..Len(t) /\ Before(s, n) = Before(t, n)
  BY <1>1, <1>2, <1>4
<1>6. \A i \in 1..n : s[i] = t[i]
  <2> TAKE i \in 1..n
  <2>1. 0 \in 0..Len(s) /\ 0 \in 0..Len(t) /\ n \in 0..Len(s) /\ n \in 0..Len(t) /\ 0 + 1 = 1 /\ n - 0 = n /\ 0 + i = i
    BY <1>1, <1>5
  <2>2. SubSeq(s, 1, n)[i] = s[i]
    BY <2>1, SequencePart
  <2>3. SubSeq(t, 1, n)[i] = t[i]
    BY <2>1, SequencePart
  <2> QED
    BY <1>5, <2>2, <2>3 DEF Before
<1>7. Common(s, t) = n
  BY DEF Common, n, alike, least
<1> QED
  BY <1>5, <1>6, <1>7

LEMMA ReverseFacts ==
  ASSUME NEW S, NEW s \in Seq(S)
  PROVE  /\ Reverse(s) \in Seq(S) /\ Len(Reverse(s)) = Len(s)
         /\ \A i \in 1..Len(s) : Reverse(s)[i] = s[(Len(s) - i) + 1]
<1>1. Len(s) \in Nat /\ \A i \in 1..Len(s) : s[(Len(s) - i) + 1] \in S
  OBVIOUS
<1>2. Reverse(s) = [i \in 1..Len(s) |-> s[(Len(s) - i) + 1]]
  BY DEF Reverse
<1> QED
  BY <1>1, <1>2

(* The edit between two streams, applied to the first, gives the second.       *)
LEMMA EditGivesSecond ==
  ASSUME NEW S, NEW previous \in Seq(S), NEW current \in Seq(S)
  PROVE  ApplyEdits(previous, TokenEdit(previous, current)) = current
<1> DEFINE prefix == Common(previous, current)
           p == SubSeq(previous, prefix + 1, Len(previous))
           c == SubSeq(current, prefix + 1, Len(current))
           suffix == Common(Reverse(p), Reverse(c))
           m == Len(previous)
           n == Len(current)
<1>1. m \in Nat /\ n \in Nat /\ m \in 0..m /\ n \in 0..n
  OBVIOUS
<1>2. prefix \in 0..m /\ prefix \in 0..n /\ \A i \in 1..prefix : previous[i] = current[i]
  BY CommonFacts
<1>3. /\ p \in Seq(S) /\ Len(p) = m - prefix /\ \A k \in 1..(m - prefix) : p[k] = previous[prefix + k]
      /\ c \in Seq(S) /\ Len(c) = n - prefix /\ \A k \in 1..(n - prefix) : c[k] = current[prefix + k]
  <2>1. m \in prefix..m /\ n \in prefix..n
    BY <1>1, <1>2
  <2> QED
    BY <1>2, <2>1, SequencePart
<1> DEFINE edit == TokenEdit(previous, current)
<1>4. /\ edit.start = 5 * prefix
      /\ edit.deleteCount = 5 * (m - prefix - suffix)
      /\ edit.data = SubSeq(current, prefix + 1, n - suffix)
  BY DEF TokenEdit, Common
<1> HIDE DEF edit
<1> HIDE DEF p, c, prefix
<1>5. /\ suffix \in 0..(m - prefix) /\ suffix \in 0..(n - prefix)
      /\ \A i \in 1..suffix : Reverse(p)[i] = Reverse(c)[i]
  <2> DEFINE u == Reverse(p)
             v == Reverse(c)
  <2>1. u \in Seq(S) /\ Len(u) = m - prefix
    BY <1>3, ReverseFacts
  <2>2. v \in Seq(S) /\ Len(v) = n - prefix
    BY <1>3, ReverseFacts
  <2> HIDE DEF u, v
  <2>3. /\ Common(u, v) \in 0..(m - prefix) /\ Common(u, v) \in 0..(n - prefix)
        /\ \A i \in 1..Common(u, v) : u[i] = v[i]
    BY <2>1, <2>2, CommonFacts
  <2> QED
    BY <2>3 DEF u, v
<1> HIDE DEF suffix
<1>6. \A i \in 1..suffix : previous[(m - suffix) + i] = current[(n - suffix) + i]
  <2> TAKE i \in 1..suffix
  <2> DEFINE j == (suffix - i) + 1
  <2>1. /\ j \in 1..suffix /\ j \in 1..(m - prefix) /\ j \in 1..(n - prefix)
        /\ ((m - prefix) - j) + 1 \in 1..(m - prefix)
        /\ ((n - prefix) - j) + 1 \in 1..(n - prefix)
        /\ prefix + (((m - prefix) - j) + 1) = (m - suffix) + i
        /\ prefix + (((n - prefix) - j) + 1) = (n - suffix) + i
    BY <1>1, <1>2, <1>5
  <2> HIDE DEF j
  <2>2. Reverse(p)[j] = p[((m - prefix) - j) + 1] /\ Reverse(c)[j] = c[((n - prefix) - j) + 1]
    BY <1>3, <2>1, ReverseFacts
  <2> QED
    BY <1>3, <1>5, <2>1, <2>2
<1> DEFINE first == SubSeq(previous, 1, prefix)
           second == SubSeq(current, prefix + 1, n - suffix)
           third == SubSeq(previous, (m - suffix) + 1, m)
<1>7. ApplyEdits(previous, edit) = first \o second \o third
  <2>1. (5 * prefix) \div 5 = prefix
    BY <1>1, <1>2
  <2>2. (5 * prefix + 5 * (m - prefix - suffix)) \div 5 = m - suffix
    <3>1. 5 * prefix + 5 * (m - prefix - suffix) = 5 * (m - suffix) /\ m - suffix \in Nat
      BY <1>1, <1>2, <1>5
    <3> QED
      BY <3>1
  <2>3. /\ edit.start \div 5 = prefix
        /\ (edit.start + edit.deleteCount) \div 5 = m - suffix
    BY <1>4, <2>1, <2>2
  <2> QED
    BY <1>4, <2>3 DEF ApplyEdits, Before
<1>8. first \in Seq(S) /\ Len(first) = prefix /\ \A i \in 1..prefix : first[i] = previous[i]
  <2>1. 0 \in 0..m /\ prefix \in 0..m /\ 0 + 1 = 1 /\ prefix - 0 = prefix /\ \A i \in 1..prefix : 0 + i = i
    BY <1>1, <1>2
  <2> QED
    BY <2>1, SequencePart
<1>9. /\ second \in Seq(S) /\ Len(second) = (n - suffix) - prefix
      /\ \A i \in 1..((n - suffix) - prefix) : second[i] = current[prefix + i]
  <2>1. n - suffix \in prefix..n
    BY <1>1, <1>2, <1>5
  <2> QED
    BY <1>2, <2>1, SequencePart
<1>10. /\ third \in Seq(S) /\ Len(third) = suffix
       /\ \A i \in 1..suffix : third[i] = previous[(m - suffix) + i]
  <2>1. m - suffix \in 0..m /\ m \in (m - suffix)..m /\ m - (m - suffix) = suffix
    BY <1>1, <1>2, <1>5
  <2> QED
    BY <2>1, SequencePart
<1> HIDE DEF first, second, third
<1>11. /\ first \o second \in Seq(S) /\ Len(first \o second) = n - suffix
       /\ \A i \in 1..(n - suffix) : (first \o second)[i] =
            IF i <= prefix THEN first[i] ELSE second[i - prefix]
  <2>1. prefix + ((n - suffix) - prefix) = n - suffix
    BY <1>1, <1>2, <1>5
  <2> QED
    BY <1>8, <1>9, <2>1, JoinFacts
<1>12. \A i \in 1..(n - suffix) : (first \o second)[i] = current[i]
  <2> TAKE i \in 1..(n - suffix)
  <2>1. CASE i <= prefix
    <3>1. i \in 1..prefix
      BY <1>1, <1>2, <1>5, <2>1
    <3> QED
      BY <1>2, <1>8, <1>11, <2>1, <3>1
  <2>2. CASE ~(i <= prefix)
    <3>1. i - prefix \in 1..((n - suffix) - prefix) /\ prefix + (i - prefix) = i
      BY <1>1, <1>2, <1>5, <2>2
    <3> QED
      BY <1>9, <1>11, <2>2, <3>1
  <2> QED
    BY <2>1, <2>2
<1> DEFINE both == first \o second
<1> HIDE DEF both
<1>13. both \in Seq(S) /\ Len(both) = n - suffix /\ \A i \in 1..(n - suffix) : both[i] = current[i]
  BY <1>11, <1>12 DEF both
<1>14. /\ both \o third \in Seq(S) /\ Len(both \o third) = n
       /\ \A i \in 1..n : (both \o third)[i] =
            IF i <= n - suffix THEN both[i] ELSE third[i - (n - suffix)]
  <2> DEFINE k == n - suffix
  <2>1. k + suffix = n
    BY <1>1, <1>2, <1>5
  <2>2. both \in Seq(S) /\ third \in Seq(S) /\ Len(both) = k /\ Len(third) = suffix
    BY <1>10, <1>13
  <2> HIDE DEF k
  <2>3. /\ both \o third \in Seq(S) /\ Len(both \o third) = k + suffix
        /\ \A i \in 1..(k + suffix) : (both \o third)[i] =
             IF i <= k THEN both[i] ELSE third[i - k]
    BY <2>2, JoinFacts
  <2> QED
    BY <2>1, <2>3 DEF k
<1>15. \A i \in 1..n : (both \o third)[i] = current[i]
  <2> TAKE i \in 1..n
  <2>1. CASE i <= n - suffix
    <3>1. i \in 1..(n - suffix)
      BY <1>1, <1>2, <1>5, <2>1
    <3> QED
      BY <1>13, <1>14, <2>1, <3>1
  <2>2. CASE ~(i <= n - suffix)
    <3>1. i - (n - suffix) \in 1..suffix /\ (n - suffix) + (i - (n - suffix)) = i
      BY <1>1, <1>2, <1>5, <2>2
    <3> QED
      BY <1>6, <1>10, <1>14, <2>2, <3>1
  <2> QED
    BY <2>1, <2>2
<1>16. both \o third = current
  BY <1>14, <1>15, SeqEqual
<1> QED
  BY <1>7, <1>16 DEF both, edit
-----------------------------------------------------------------------------
(* Positions of carets.                                                      *)
LEMMA CaretFacts ==
  ASSUME NEW s \in Texts, NEW i \in 0..Len(s)
  PROVE  /\ i \in Nat /\ Len(s) \in Nat
         /\ LinesBefore(s, i) \in Nat /\ LineStart(s, i) \in 0..i
         /\ Column(s, i, i) \in Nat
         /\ CaretPosition(s, i) = [line |-> LinesBefore(s, i), character |-> Column(s, i, i)]
<1>1. /\ i \in Nat /\ Len(s) \in Nat
      /\ LinesBefore(s, i) \in Nat /\ LineStart(s, i) \in 0..i
  BY LinesFacts DEF Texts
<1>2. Column(s, i, i) \in Nat
  <2>1. i \in LineStart(s, i)..Len(s)
    BY <1>1
  <2> QED
    BY <2>1, ColumnFacts
<1> QED
  BY <1>1, <1>2 DEF CaretPosition, Position, Column

(* On a line, columns are in the order of the carets.                         *)
LEMMA OnALine ==
  ASSUME NEW s \in Texts, NEW i \in 0..Len(s), NEW j \in i..Len(s),
         LinesBefore(s, i) = LinesBefore(s, j)
  PROVE  /\ Column(s, j, j) = Column(s, i, j)
         /\ i < j => Column(s, i, i) < Column(s, j, j)
<1>1. i \in Nat /\ j \in Nat /\ Len(s) \in Nat /\ j \in 0..Len(s)
  BY DEF Texts
<1>2. LineStart(s, i) = LineStart(s, j)
  BY <1>1, LinesGrow
<1>3. Column(s, j, j) = Column(s, i, j)
  BY <1>2 DEF Column
<1>4. i < j => Column(s, i, i) < Column(s, i, j)
  <2>1. i \in LineStart(s, i)..Len(s) /\ j \in LineStart(s, i)..Len(s)
    BY <1>1, CaretFacts
  <2> QED
    BY <2>1, ColumnFacts
<1> QED
  BY <1>3, <1>4

LEMMA CaretsDiffer ==
  ASSUME NEW s \in Texts, NEW i \in 0..Len(s), NEW j \in 0..Len(s),
         LinesBefore(s, i) = LinesBefore(s, j), Column(s, i, i) = Column(s, j, j)
  PROVE  i = j
<1>1. i \in Nat /\ j \in Nat /\ Len(s) \in Nat
  BY DEF Texts
<1>2. Column(s, i, i) \in Nat /\ Column(s, j, j) \in Nat
  BY CaretFacts
<1>3. CASE i < j
  <2>1. j \in i..Len(s)
    BY <1>1, <1>3
  <2> QED
    BY <1>2, <1>3, <2>1, OnALine
<1>4. CASE j < i
  <2>1. i \in j..Len(s)
    BY <1>1, <1>4
  <2> QED
    BY <1>2, <1>4, <2>1, OnALine
<1> QED
  BY <1>1, <1>3, <1>4

LEMMA AtLineStart ==
  ASSUME NEW s \in Texts, NEW i \in 0..Len(s), i = 0 \/ s[i] = "n"
  PROVE  LineStart(s, i) = i /\ Column(s, i, i) = 0
<1>1. i \in Nat
  OBVIOUS
<1>2. LineStart(s, i) = i
  <2>1. CASE i = 0
    BY <2>1, LinesFacts
  <2>2. CASE i # 0
    <3>1. i \in 1..i /\ s[i] = "n" /\ LineStart(s, i) \in 0..i
      BY <1>1, <2>2, LinesFacts
    <3>2. i <= LineStart(s, i)
      BY <1>1, <3>1, LinesFacts
    <3> QED
      BY <1>1, <3>1, <3>2
  <2> QED
    BY <2>1, <2>2
<1>3. SubSeq(s, i + 1, i) = <<>>
  BY <1>1, SubSeqEmpty
<1> QED
  BY <1>2, <1>3, MeasureEmpty DEF Column, Units

LEMMA LineTextAt ==
  ASSUME NEW s \in Texts, NEW i \in 0..Len(s), NEW z, EndsLine(s, i, z)
  PROVE  /\ LineText(NewDocument(s), LinesBefore(s, i)) = SubSeq(s, LineStart(s, i) + 1, z)
         /\ LinesBefore(s, z) = LinesBefore(s, i)
         /\ LineLen(NewDocument(s), LinesBefore(s, i)) = Column(s, z, z)
<1>1. /\ i \in Nat /\ Len(s) \in Nat /\ z \in 0..Len(s) /\ i <= z /\ z \in i..Len(s)
      /\ LineStart(s, i) \in 0..Len(s)
  BY CaretFacts DEF EndsLine
<1>2. LineText(NewDocument(s), LinesBefore(s, i)) = SubSeq(s, LineStart(s, i) + 1, z)
  <2>1. LineSpan(NewDocument(s), LinesBefore(s, i)) =
          [start |-> Offset(s, LineStart(s, i)), end |-> Offset(s, z)]
    BY LineSpanFacts
  <2>2. LineText(NewDocument(s), LinesBefore(s, i)) =
          Slice(s, Offset(s, LineStart(s, i)), Offset(s, z))
    BY <2>1 DEF LineText, NewDocument
  <2> QED
    BY <1>1, <2>2, SliceOfOffsets
<1>3. LinesBefore(s, z) = LinesBefore(s, i)
  BY <1>1, LinesGrow DEF EndsLine
<1>4. Column(s, z, z) = Column(s, i, z)
  BY <1>1, <1>3, OnALine
<1> QED
  BY <1>2, <1>3, <1>4 DEF LineLen, Column

(* The parser's locations are carets, and position_of finds their positions.   *)
LEMMA PositionOfLocation ==
  ASSUME NEW s \in Texts, NEW i \in 0..Len(s)
  PROVE  PositionOf(NewDocument(s), Location(s, i)) = CaretPosition(s, i)
<1> DEFINE f == LineStart(s, i)
<1>1. /\ i \in Nat /\ Len(s) \in Nat /\ LinesBefore(s, i) \in Nat /\ f \in 0..i
  BY CaretFacts
<1>2. PICK z : EndsLine(s, i, z)
  BY LinesEnd
<1>3. z \in i..Len(s)
  BY <1>2 DEF EndsLine
<1> HIDE DEF f
<1>4. Location(s, i).line - 1 = LinesBefore(s, i) /\ Location(s, i).column - 1 = i - f
  BY <1>1 DEF Location, f
<1>5. SubSeq(SubSeq(s, f + 1, z), 1, i - f) = SubSeq(s, f + 1, i)
  <2> DEFINE u == SubSeq(s, f + 1, z)
             v == SubSeq(s, f + 1, i)
             w == SubSeq(u, 1, i - f)
  <2>1. u \in Texts /\ Len(u) = z - f /\ \A k \in 1..(z - f) : u[k] = s[f + k]
    <3>1. f \in 0..Len(s) /\ z \in f..Len(s)
      BY <1>1, <1>3
    <3> QED
      BY <3>1, PartFacts
  <2>2. v \in Texts /\ Len(v) = i - f /\ \A k \in 1..(i - f) : v[k] = s[f + k]
    <3>1. f \in 0..Len(s) /\ i \in f..Len(s)
      BY <1>1
    <3> QED
      BY <3>1, PartFacts
  <2> HIDE DEF u, v
  <2>3. w \in Texts /\ Len(w) = i - f /\ \A k \in 1..(i - f) : w[k] = u[k]
    <3>1. 0 \in 0..Len(u) /\ i - f \in 0..Len(u) /\ 0 + 1 = 1 /\ (i - f) - 0 = i - f
          /\ \A k \in 1..(i - f) : 0 + k = k
      BY <1>1, <1>3, <2>1
    <3> QED
      BY <2>1, <3>1, PartFacts
  <2> HIDE DEF w
  <2>4. \A k \in 1..(i - f) : k \in 1..(z - f)
    BY <1>1, <1>3
  <2> QED
    BY <2>1, <2>2, <2>3, <2>4, SameText, ZenonT(30) DEF u, v, w
<1>6. LineText(NewDocument(s), LinesBefore(s, i)) = SubSeq(s, f + 1, z)
  BY <1>2, LineTextAt DEF f
<1>7. Units(Before(LineText(NewDocument(s), LinesBefore(s, i)), i - f)) = Column(s, i, i)
  BY <1>5, <1>6 DEF Before, Column, f
<1> QED
  BY <1>4, <1>7, CaretFacts DEF PositionOf, Position
-----------------------------------------------------------------------------
(* A token cut at the ends of its lines.                                     *)
IsCut(s, f, t, a, b) ==
  /\ a \in f..t /\ b \in a..t
  /\ LinesBefore(s, a) = LinesBefore(s, b)
  /\ a = f \/ s[a] = "n"
  /\ b = t \/ s[b + 1] = "n"

Seg(s, a, b, k) ==
  [line |-> LinesBefore(s, a), start |-> Column(s, a, a),
   length |-> Column(s, b, b) - Column(s, a, a), class |-> k]

OfLine(s, f, t, k, line) ==
  LET start == IF line = LinesBefore(s, f) THEN Column(s, f, f) ELSE 0
      end   == IF line = LinesBefore(s, t) THEN Column(s, t, t)
               ELSE LineLen(NewDocument(s), line)
  IN  [line |-> line, start |-> start, length |-> end - start, class |-> k]

LEMMA CutOfLine ==
  ASSUME NEW s \in Texts, NEW f \in 0..Len(s), NEW t \in f..Len(s),
         NEW line \in LinesBefore(s, f)..LinesBefore(s, t)
  PROVE  \E a, b : IsCut(s, f, t, a, b) /\ LinesBefore(s, a) = line
<1>0. /\ Len(s) \in Nat /\ f \in Nat /\ t \in Nat /\ t \in 0..Len(s) /\ f <= t /\ t <= Len(s)
      /\ LinesBefore(s, f) \in Nat /\ LinesBefore(s, t) \in Nat /\ line \in Nat
      /\ LinesBefore(s, f) <= line /\ line <= LinesBefore(s, t)
  <2>1. Len(s) \in Nat /\ f \in Nat /\ t \in Nat /\ t \in 0..Len(s) /\ f <= t /\ t <= Len(s)
    BY DEF Texts
  <2>2. LinesBefore(s, f) \in Nat /\ LinesBefore(s, t) \in Nat
    BY <2>1, CaretFacts
  <2> QED
    BY <2>1, <2>2
<1>1. \E a \in f..t : LinesBefore(s, a) = line /\ (a = f \/ s[a] = "n")
  <2>1. CASE line = LinesBefore(s, f)
    BY <1>0, <2>1
  <2>2. CASE line # LinesBefore(s, f)
    <3>1. AreLineStarts(s, Len(s), ComputeLineStarts(s))
      BY LineStartsFacts
    <3>2. line + 1 \in 1..Len(ComputeLineStarts(s))
      <4>1. LinesBefore(s, t) <= LinesBefore(s, Len(s)) /\ LinesBefore(s, Len(s)) \in Nat
        BY <1>0, LinesGrow, LinesFacts
      <4> QED
        BY <1>0, <3>1, <4>1 DEF AreLineStarts
    <3>3. PICK a \in 0..Len(s) : LinesBefore(s, a) + 1 = line + 1 /\ LineStart(s, a) = a
      BY <3>1, <3>2 DEF AreLineStarts
    <3>4. a \in Nat /\ LinesBefore(s, a) \in Nat /\ LinesBefore(s, a) = line
      BY <1>0, <3>3, CaretFacts, SMTT(30)
    <3>5. f < a
      <4>1. a <= f => LinesBefore(s, a) <= LinesBefore(s, f)
        BY <1>0, <3>4, LinesGrow
      <4> QED
        BY <1>0, <2>2, <3>4, <4>1
    <3>6. s[a] = "n"
      <4>1. LineStart(s, a) = 0 \/ s[LineStart(s, a)] = "n"
        BY <3>4, LinesFacts
      <4> QED
        BY <1>0, <3>3, <3>4, <3>5, <4>1
    <3>7. a <= t
      <4>1. SUFFICES ASSUME t < a PROVE FALSE
        BY <1>0, <3>4
      <4>2. LinesBefore(s, t) <= LinesBefore(s, a)
        BY <1>0, <3>4, <4>1, LinesGrow
      <4>3. LinesBefore(s, t) = LinesBefore(s, a)
        BY <1>0, <3>4, <4>2
      <4>4. \A j \in (t + 1)..a : s[j] # "n"
        BY <1>0, <3>4, <4>1, <4>3, LinesGrow
      <4> QED
        BY <1>0, <3>4, <3>6, <4>1, <4>4
    <3> QED
      BY <1>0, <3>4, <3>5, <3>6, <3>7
  <2> QED
    BY <2>1, <2>2
<1>2. PICK a \in f..t : LinesBefore(s, a) = line /\ (a = f \/ s[a] = "n")
  BY <1>1
<1>3. a \in 0..Len(s) /\ a \in Nat
  BY <1>0
<1>4. \E b \in a..t : LinesBefore(s, b) = line /\ (b = t \/ s[b + 1] = "n")
  <2>1. CASE line = LinesBefore(s, t)
    BY <1>0, <1>3, <2>1
  <2>2. CASE line # LinesBefore(s, t)
    <3>1. PICK z : EndsLine(s, a, z)
      BY <1>3, LinesEnd
    <3>2. z \in a..Len(s) /\ z \in Nat /\ (z = Len(s) \/ s[z + 1] = "n") /\ LinesBefore(s, z) = line
      BY <1>2, <1>3, <3>1, LineTextAt DEF EndsLine, AtLineEnd
    <3>3. z < t
      <4>1. t <= z => LinesBefore(s, t) <= LinesBefore(s, z)
        BY <1>0, <3>2, LinesGrow
      <4> QED
        BY <1>0, <2>2, <3>2, <4>1
    <3> QED
      BY <1>0, <3>2, <3>3
  <2> QED
    BY <2>1, <2>2
<1> QED
  BY <1>2, <1>4 DEF IsCut

LEMMA OfLineIsCut ==
  ASSUME NEW s \in Texts, NEW f \in 0..Len(s), NEW t \in f..Len(s), NEW k,
         NEW a, NEW b, IsCut(s, f, t, a, b)
  PROVE  /\ LinesBefore(s, a) \in LinesBefore(s, f)..LinesBefore(s, t)
         /\ OfLine(s, f, t, k, LinesBefore(s, a)) = Seg(s, a, b, k)
<1> DEFINE line == LinesBefore(s, a)
<1>1. /\ Len(s) \in Nat /\ f \in Nat /\ t \in Nat /\ t \in 0..Len(s) /\ t <= Len(s)
      /\ a \in Nat /\ b \in Nat /\ f <= a /\ a <= b /\ b <= t
      /\ a \in 0..Len(s) /\ b \in 0..Len(s) /\ b \in a..Len(s)
  BY DEF Texts, IsCut
<1>2. /\ LinesBefore(s, f) \in Nat /\ LinesBefore(s, t) \in Nat /\ line \in Nat
      /\ LinesBefore(s, f) <= line /\ line <= LinesBefore(s, t)
      /\ LinesBefore(s, b) = line
  <2>1. LinesBefore(s, f) \in Nat /\ LinesBefore(s, t) \in Nat /\ line \in Nat
    BY <1>1, CaretFacts
  <2>2. LinesBefore(s, f) <= line /\ line <= LinesBefore(s, t)
    BY <1>1, LinesGrow
  <2> QED
    BY <2>1, <2>2 DEF IsCut
<1>3. (IF line = LinesBefore(s, f) THEN Column(s, f, f) ELSE 0) = Column(s, a, a)
  <2>1. CASE line = LinesBefore(s, f)
    <3>1. \A j \in (f + 1)..a : s[j] # "n"
      BY <1>1, <2>1, LinesGrow
    <3>2. a = f
      BY <1>1, <3>1 DEF IsCut
    <3> QED
      BY <2>1, <3>2
  <2>2. CASE line # LinesBefore(s, f)
    <3>1. s[a] = "n"
      BY <2>2 DEF IsCut
    <3> QED
      BY <1>1, <2>2, <3>1, AtLineStart
  <2> QED
    BY <2>1, <2>2
<1>4. (IF line = LinesBefore(s, t) THEN Column(s, t, t) ELSE LineLen(NewDocument(s), line))
        = Column(s, b, b)
  <2>1. CASE line = LinesBefore(s, t)
    <3>1. \A j \in (b + 1)..t : s[j] # "n"
      BY <1>1, <1>2, <2>1, LinesGrow
    <3>2. b = t
      BY <1>1, <3>1 DEF IsCut
    <3> QED
      BY <2>1, <3>2
  <2>2. CASE line # LinesBefore(s, t)
    <3>1. b # t /\ s[b + 1] = "n"
      BY <1>2, <2>2 DEF IsCut
    <3>2. \A j \in (a + 1)..b : s[j] # "n"
      BY <1>1, <1>2, LinesGrow
    <3>3. EndsLine(s, a, b)
      BY <1>1, <3>1, <3>2 DEF EndsLine, AtLineEnd
    <3> QED
      BY <1>1, <2>2, <3>3, LineTextAt
  <2> QED
    BY <2>1, <2>2
<1> HIDE DEF line
<1>5. OfLine(s, f, t, k, line) = [line |-> line, start |-> Column(s, a, a),
                                  length |-> Column(s, b, b) - Column(s, a, a), class |-> k]
  BY <1>3, <1>4 DEF OfLine
<1> QED
  BY <1>2, <1>5 DEF Seg, line
-----------------------------------------------------------------------------
(* The runs of a class; a function tells the class of each character.         *)
IsRun(s, c, a, b, k) ==
  /\ a \in 0..Len(s) /\ b \in 0..Len(s)
  /\ a < b
  /\ k # None
  /\ \A m \in (a + 1)..b : c[m] = k
  /\ a = 0 \/ c[a] # k
  /\ b = Len(s) \/ c[b + 1] # k

Unbroken(s, c) == [i \in 1..Len(s) |-> IF s[i] = "n" THEN None ELSE c[i]]

LEMMA CutIsPiece ==
  ASSUME NEW s \in Texts, NEW c, NEW f, NEW t, NEW k, IsRun(s, c, f, t, k),
         NEW a, NEW b, IsCut(s, f, t, a, b), a < b
  PROVE  IsRun(s, Unbroken(s, c), a, b, k)
<1>1. /\ Len(s) \in Nat /\ f \in Nat /\ t \in Nat /\ t <= Len(s)
      /\ a \in Nat /\ b \in Nat /\ f <= a /\ b <= t
  BY DEF Texts, IsRun, IsCut
<1>2. \A m \in 1..Len(s) : Unbroken(s, c)[m] = IF s[m] = "n" THEN None ELSE c[m]
  BY DEF Unbroken
<1>3. \A m \in (a + 1)..b : s[m] # "n"
  BY <1>1, LinesGrow DEF IsCut
<1>4. \A m \in (a + 1)..b : Unbroken(s, c)[m] = k
  <2> TAKE m \in (a + 1)..b
  <2>1. m \in 1..Len(s) /\ m \in (f + 1)..t
    BY <1>1
  <2> QED
    BY <1>2, <1>3, <2>1 DEF IsRun
<1>5. a = 0 \/ Unbroken(s, c)[a] # k
  <2>1. SUFFICES ASSUME a # 0 PROVE Unbroken(s, c)[a] # k
    OBVIOUS
  <2>2. a \in 1..Len(s) /\ (a = f \/ s[a] = "n")
    BY <1>1, <2>1 DEF IsCut
  <2> QED
    BY <1>2, <2>1, <2>2 DEF IsRun
<1>6. b = Len(s) \/ Unbroken(s, c)[b + 1] # k
  <2>1. SUFFICES ASSUME b # Len(s) PROVE Unbroken(s, c)[b + 1] # k
    OBVIOUS
  <2>2. b + 1 \in 1..Len(s) /\ (b = t \/ s[b + 1] = "n")
    BY <1>1, <2>1 DEF IsCut
  <2> QED
    BY <1>2, <2>1, <2>2 DEF IsRun
<1> QED
  BY <1>1, <1>4, <1>5, <1>6 DEF IsRun

LEMMA PieceIsCut ==
  ASSUME NEW s \in Texts, NEW c, NEW a, NEW b, NEW k, IsRun(s, Unbroken(s, c), a, b, k)
  PROVE  \E f, t : IsRun(s, c, f, t, k) /\ IsCut(s, f, t, a, b)
<1>1. /\ Len(s) \in Nat /\ a \in Nat /\ b \in Nat /\ a < b /\ b <= Len(s) /\ k # None
      /\ \A m \in (a + 1)..b : Unbroken(s, c)[m] = k
      /\ a = 0 \/ Unbroken(s, c)[a] # k
      /\ b = Len(s) \/ Unbroken(s, c)[b + 1] # k
  BY DEF Texts, IsRun
<1>2. \A m \in 1..Len(s) : Unbroken(s, c)[m] = IF s[m] = "n" THEN None ELSE c[m]
  BY DEF Unbroken
<1>3. \A m \in (a + 1)..b : s[m] # "n" /\ c[m] = k
  <2> TAKE m \in (a + 1)..b
  <2>1. m \in 1..Len(s)
    BY <1>1
  <2> QED
    BY <1>1, <1>2, <2>1
<1> DEFINE F == {f \in 0..a : \A m \in (f + 1)..a : c[m] = k}
           T == {t \in b..Len(s) : \A m \in (b + 1)..t : c[m] = k}
<1>4. PICK f \in F : \A g \in F : f <= g
  <2>1. a \in F /\ F \subseteq Nat
    BY <1>1
  <2> HIDE DEF F
  <2> QED
    BY <2>1, LeastNumber
<1>5. PICK t \in T : \A u \in T : u <= t
  <2>1. b \in T /\ T \subseteq 0..Len(s)
    BY <1>1
  <2> HIDE DEF T
  <2>2. Max(T) \in T /\ \A u \in T : u <= Max(T)
    BY <1>1, <2>1, GreatestNumber
  <2> QED
    BY <2>2
<1>6. /\ f \in Nat /\ f <= a /\ \A m \in (f + 1)..a : c[m] = k
      /\ t \in Nat /\ b <= t /\ t <= Len(s) /\ \A m \in (b + 1)..t : c[m] = k
  BY <1>1, <1>4, <1>5
<1>7. f = 0 \/ c[f] # k
  <2>1. SUFFICES ASSUME f # 0, c[f] = k PROVE FALSE
    OBVIOUS
  <2>2. \A m \in ((f - 1) + 1)..a : c[m] = k
    <3> TAKE m \in ((f - 1) + 1)..a
    <3>1. m = f \/ m \in (f + 1)..a
      BY <1>1, <1>6
    <3> QED
      BY <1>6, <2>1, <3>1
  <2>3. f - 1 \in F
    <3>1. f - 1 \in 0..a
      BY <1>1, <1>6, <2>1
    <3> QED
      BY <2>2, <3>1
  <2> HIDE DEF F
  <2> QED
    BY <1>4, <1>6, <2>3
<1>8. t = Len(s) \/ c[t + 1] # k
  <2>1. SUFFICES ASSUME t # Len(s), c[t + 1] = k PROVE FALSE
    OBVIOUS
  <2>2. \A m \in (b + 1)..(t + 1) : c[m] = k
    <3> TAKE m \in (b + 1)..(t + 1)
    <3>1. m = t + 1 \/ m \in (b + 1)..t
      BY <1>1, <1>6
    <3> QED
      BY <1>6, <2>1, <3>1
  <2>3. t + 1 \in T
    BY <1>1, <1>6, <2>1, <2>2
  <2> HIDE DEF T
  <2> QED
    BY <1>5, <1>6, <2>3
<1> HIDE DEF F, T
<1>9. \A m \in (f + 1)..t : c[m] = k
  <2> TAKE m \in (f + 1)..t
  <2>1. m \in (f + 1)..a \/ m \in (a + 1)..b \/ m \in (b + 1)..t
    BY <1>1, <1>6
  <2> QED
    BY <1>3, <1>6, <2>1
<1>10. IsRun(s, c, f, t, k)
  BY <1>1, <1>6, <1>7, <1>8, <1>9 DEF IsRun
<1>11. LinesBefore(s, a) = LinesBefore(s, b)
  BY <1>1, <1>3, LinesGrow
<1>12. a = f \/ s[a] = "n"
  <2>1. SUFFICES ASSUME a # f PROVE s[a] = "n"
    OBVIOUS
  <2>2. a \in 1..Len(s) /\ a \in (f + 1)..a /\ a # 0
    BY <1>1, <1>6, <2>1
  <2> QED
    BY <1>1, <1>2, <1>6, <2>2
<1>13. b = t \/ s[b + 1] = "n"
  <2>1. SUFFICES ASSUME b # t PROVE s[b + 1] = "n"
    OBVIOUS
  <2>2. b + 1 \in 1..Len(s) /\ b + 1 \in (b + 1)..t /\ b # Len(s)
    BY <1>1, <1>6, <2>1
  <2> QED
    BY <1>1, <1>2, <1>6, <2>2
<1>14. a \in f..t /\ b \in a..t
  BY <1>1, <1>6
<1> QED
  BY <1>10, <1>11, <1>12, <1>13, <1>14 DEF IsCut
-----------------------------------------------------------------------------
(* The segments of a parsed text are what the screen shows of its tokens.      *)
ClassOf(k, s) == [i \in 1..Len(s) |-> ClassAt(s, k, i)]

TokenAt(s, f, t, k) == [start |-> Location(s, f), end |-> Location(s, t), class |-> k]

LEMMA ParseFacts ==
  ASSUME NEW s \in Texts, NEW kd
  PROVE  /\ \A tok \in Parse(kd, s) : \E f, t, k :
              IsRun(s, ClassOf(kd, s), f, t, k) /\ tok = TokenAt(s, f, t, k)
         /\ \A f, t, k :
              IsRun(s, ClassOf(kd, s), f, t, k) => TokenAt(s, f, t, k) \in Parse(kd, s)
<1> DEFINE c == ClassOf(kd, s)
           R == {r \in {[from |-> i - 1, to |-> j, class |-> ClassAt(s, kd, i)] :
                          i \in DOMAIN s, j \in DOMAIN s} :
                   /\ r.from < r.to
                   /\ r.class # None
                   /\ \A m \in r.from + 1 .. r.to : ClassAt(s, kd, m) = r.class
                   /\ r.from = 0 \/ ClassAt(s, kd, r.from) # r.class
                   /\ r.to = Len(s) \/ ClassAt(s, kd, r.to + 1) # r.class}
<1>1. Len(s) \in Nat /\ DOMAIN s = 1..Len(s)
  BY DEF Texts
<1>2. Parse(kd, s) = {TokenAt(s, r.from, r.to, r.class) : r \in R}
  BY DEF Parse, Runs, TokenAt
<1>3. \A m \in 1..Len(s) : c[m] = ClassAt(s, kd, m)
  BY DEF ClassOf
<1> HIDE DEF c
<1>4. ASSUME NEW r \in R PROVE IsRun(s, c, r.from, r.to, r.class)
  <2>1. PICK i \in 1..Len(s), j \in 1..Len(s) :
          r = [from |-> i - 1, to |-> j, class |-> ClassAt(s, kd, i)]
    BY <1>1
  <2>a. r.from = i - 1 /\ r.to = j
    BY <2>1
  <2>b. /\ r.from < r.to /\ r.class # None
        /\ \A m \in r.from + 1 .. r.to : ClassAt(s, kd, m) = r.class
        /\ r.from = 0 \/ ClassAt(s, kd, r.from) # r.class
        /\ r.to = Len(s) \/ ClassAt(s, kd, r.to + 1) # r.class
    OBVIOUS
  <2>2. /\ r.from \in 0..Len(s) /\ r.to \in 0..Len(s) /\ r.from < r.to /\ r.class # None
        /\ \A m \in r.from + 1 .. r.to : ClassAt(s, kd, m) = r.class
        /\ r.from = 0 \/ ClassAt(s, kd, r.from) # r.class
        /\ r.to = Len(s) \/ ClassAt(s, kd, r.to + 1) # r.class
    <3> HIDE DEF R
    <3>1. i - 1 \in 0..Len(s) /\ j \in 0..Len(s)
      BY <1>1
    <3> QED
      BY <2>a, <2>b, <3>1
  <2> HIDE DEF R
  <2>3. \A m \in r.from + 1 .. r.to : m \in 1..Len(s)
    BY <1>1, <2>2
  <2>4. r.from # 0 => r.from \in 1..Len(s)
    BY <1>1, <2>2
  <2>5. r.to # Len(s) => r.to + 1 \in 1..Len(s)
    BY <1>1, <2>2
  <2> QED
    BY <1>3, <2>2, <2>3, <2>4, <2>5 DEF IsRun
<1>5. ASSUME NEW f, NEW t, NEW k, IsRun(s, c, f, t, k)
      PROVE  [from |-> f, to |-> t, class |-> k] \in R
  <2>0. /\ f \in 0..Len(s) /\ t \in 0..Len(s) /\ f < t /\ k # None
        /\ \A m \in (f + 1)..t : c[m] = k
        /\ f = 0 \/ c[f] # k
        /\ t = Len(s) \/ c[t + 1] # k
    BY <1>5 DEF IsRun
  <2>1. /\ f \in Nat /\ t \in Nat /\ f + 1 \in 1..Len(s) /\ t \in 1..Len(s) /\ f < t
        /\ (f + 1) - 1 = f /\ f + 1 \in (f + 1)..t /\ t <= Len(s)
    <3>1. f \in 0..Len(s) /\ t \in 0..Len(s) /\ f < t
      BY <2>0
    <3> HIDE DEF R
    <3> QED
      BY <1>1, <3>1
  <2>2. ClassAt(s, kd, f + 1) = k
    BY <1>3, <2>0, <2>1
  <2>3. \A m \in (f + 1)..t : m \in 1..Len(s)
    BY <1>1, <2>1
  <2>4. /\ k # None
        /\ \A m \in (f + 1)..t : ClassAt(s, kd, m) = k
        /\ f = 0 \/ ClassAt(s, kd, f) # k
        /\ t = Len(s) \/ ClassAt(s, kd, t + 1) # k
    <3> HIDE DEF R
    <3>1. f # 0 => f \in 1..Len(s)
      BY <1>1, <2>1
    <3>2. t # Len(s) => t + 1 \in 1..Len(s)
      <4>1. Len(s) \in Nat /\ t \in Nat /\ t <= Len(s)
        BY <1>1, <2>1
      <4> QED
        BY <4>1
    <3> QED
      BY <1>3, <2>0, <2>3, <3>1, <3>2
  <2>5. [from |-> f, to |-> t, class |-> k] \in
          {[from |-> i - 1, to |-> j, class |-> ClassAt(s, kd, i)] :
             i \in DOMAIN s, j \in DOMAIN s}
    BY <1>1, <2>1, <2>2
  <2> QED
    BY <2>1, <2>4, <2>5
<1> HIDE DEF R
<1>6. ASSUME NEW tok \in Parse(kd, s)
      PROVE  \E f, t, k : IsRun(s, c, f, t, k) /\ tok = TokenAt(s, f, t, k)
  BY <1>2, <1>4
<1>7. ASSUME NEW f, NEW t, NEW k, IsRun(s, c, f, t, k) PROVE TokenAt(s, f, t, k) \in Parse(kd, s)
  <2>1. [from |-> f, to |-> t, class |-> k] \in R
    BY <1>5, <1>7
  <2> DEFINE r == [from |-> f, to |-> t, class |-> k]
  <2>2. r.from = f /\ r.to = t /\ r.class = k
    OBVIOUS
  <2> HIDE DEF r
  <2>3. r \in R
    BY <2>1 DEF r
  <2> QED
    BY <1>2, <2>2, <2>3
<1> QED
  BY <1>6, <1>7 DEF c

LEMMA SegmentsFacts ==
  ASSUME NEW s \in Texts, NEW kd, NEW g
  PROVE  g \in Segments(NewDocument(s), Parse(kd, s)) <=>
           \E f, t, k : \E line \in LinesBefore(s, f)..LinesBefore(s, t) :
             /\ IsRun(s, ClassOf(kd, s), f, t, k)
             /\ g = OfLine(s, f, t, k, line)
             /\ g.length > 0
<1> DEFINE d == NewDocument(s)
           L(tok, line) ==
             LET from  == PositionOf(d, tok.start)
                 to    == PositionOf(d, tok.end)
                 start == IF line = from.line THEN from.character ELSE 0
                 end   == IF line = to.line THEN to.character ELSE LineLen(d, line)
             IN  [line |-> line, start |-> start, length |-> end - start, class |-> tok.class]
           tokens == Parse(kd, s)
           U == UNION {{L(tok, line) : line \in (tok.start.line - 1)..(tok.end.line - 1)} :
                         tok \in tokens}
<1>1. Segments(d, tokens) = {h \in U : h.length > 0}
  BY DEF Segments
<1>2. \A h : h \in U <=> \E tok \in tokens :
                \E line \in (tok.start.line - 1)..(tok.end.line - 1) : h = L(tok, line)
  <2> HIDE DEF L, tokens
  <2> QED
    OBVIOUS
<1> HIDE DEF U
<1>3. ASSUME NEW f, NEW t, NEW k, IsRun(s, ClassOf(kd, s), f, t, k)
      PROVE  LET tok == TokenAt(s, f, t, k)
             IN  /\ tok.start.line - 1 = LinesBefore(s, f)
                 /\ tok.end.line - 1 = LinesBefore(s, t)
                 /\ \A line : L(tok, line) = OfLine(s, f, t, k, line)
  <2> DEFINE tok == TokenAt(s, f, t, k)
  <2>1. f \in 0..Len(s) /\ t \in 0..Len(s)
    BY <1>3 DEF IsRun
  <2>2. tok.start = Location(s, f) /\ tok.end = Location(s, t) /\ tok.class = k
    BY DEF TokenAt
  <2>3. LinesBefore(s, f) \in Nat /\ LinesBefore(s, t) \in Nat
    BY <2>1, CaretFacts
  <2>4. tok.start.line - 1 = LinesBefore(s, f) /\ tok.end.line - 1 = LinesBefore(s, t)
    BY <2>2, <2>3 DEF Location
  <2> HIDE DEF tok
  <2>5. /\ PositionOf(d, tok.start) = [line |-> LinesBefore(s, f), character |-> Column(s, f, f)]
        /\ PositionOf(d, tok.end) = [line |-> LinesBefore(s, t), character |-> Column(s, t, t)]
    BY <2>1, <2>2, PositionOfLocation, CaretFacts
  <2>6. \A line : L(tok, line) = OfLine(s, f, t, k, line)
    BY <2>2, <2>5 DEF OfLine
  <2> QED
    BY <2>4, <2>6 DEF tok
<1> HIDE DEF L
<1>4. ASSUME NEW tok \in tokens, NEW line \in (tok.start.line - 1)..(tok.end.line - 1),
             g = L(tok, line), g.length > 0
      PROVE  \E f, t, k : \E n \in LinesBefore(s, f)..LinesBefore(s, t) :
               /\ IsRun(s, ClassOf(kd, s), f, t, k)
               /\ g = OfLine(s, f, t, k, n)
               /\ g.length > 0
  <2>1. PICK f, t, k : IsRun(s, ClassOf(kd, s), f, t, k) /\ tok = TokenAt(s, f, t, k)
    BY ParseFacts
  <2>2. line \in LinesBefore(s, f)..LinesBefore(s, t) /\ g = OfLine(s, f, t, k, line)
    BY <1>3, <1>4, <2>1
  <2> QED
    BY <1>4, <2>1, <2>2
<1>5. ASSUME NEW f, NEW t, NEW k, NEW line \in LinesBefore(s, f)..LinesBefore(s, t),
             IsRun(s, ClassOf(kd, s), f, t, k), g = OfLine(s, f, t, k, line), g.length > 0
      PROVE  \E tok \in tokens :
               \E n \in (tok.start.line - 1)..(tok.end.line - 1) : g = L(tok, n)
  <2> DEFINE tok == TokenAt(s, f, t, k)
  <2>1. tok \in tokens
    BY <1>5, ParseFacts
  <2>2. line \in (tok.start.line - 1)..(tok.end.line - 1) /\ g = L(tok, line)
    BY <1>3, <1>5
  <2> QED
    BY <2>1, <2>2
<1> HIDE DEF tokens
<1>6. g \in Segments(d, tokens) <=> g \in U /\ g.length > 0
  BY <1>1
<1>7. ASSUME g \in Segments(d, tokens)
      PROVE  \E f, t, k : \E n \in LinesBefore(s, f)..LinesBefore(s, t) :
               /\ IsRun(s, ClassOf(kd, s), f, t, k)
               /\ g = OfLine(s, f, t, k, n)
               /\ g.length > 0
  BY <1>2, <1>4, <1>6, <1>7
<1>8. ASSUME \E f, t, k : \E n \in LinesBefore(s, f)..LinesBefore(s, t) :
               /\ IsRun(s, ClassOf(kd, s), f, t, k)
               /\ g = OfLine(s, f, t, k, n)
               /\ g.length > 0
      PROVE  g \in Segments(d, tokens)
  BY <1>2, <1>5, <1>6, <1>8
<1> QED
  BY <1>7, <1>8 DEF tokens

LEMMA SegmentsArePieces ==
  ASSUME NEW s \in Texts, NEW kd, NEW g
  PROVE  g \in Segments(NewDocument(s), Parse(kd, s)) <=>
           \E a, b, k : IsRun(s, Unbroken(s, ClassOf(kd, s)), a, b, k) /\ g = Seg(s, a, b, k)
<1> DEFINE c == ClassOf(kd, s)
<1> HIDE DEF c
<1>1. ASSUME NEW f, NEW t, NEW k, NEW line \in LinesBefore(s, f)..LinesBefore(s, t),
             IsRun(s, c, f, t, k), g = OfLine(s, f, t, k, line), g.length > 0
      PROVE  \E a, b, l : IsRun(s, Unbroken(s, c), a, b, l) /\ g = Seg(s, a, b, l)
  <2>1. f \in 0..Len(s) /\ t \in 0..Len(s) /\ t \in f..Len(s)
    BY <1>1 DEF IsRun, Texts
  <2>2. PICK a, b : IsCut(s, f, t, a, b) /\ LinesBefore(s, a) = line
    BY <2>1, CutOfLine
  <2>3. g = Seg(s, a, b, k)
    BY <1>1, <2>1, <2>2, OfLineIsCut
  <2>4. a < b
    <3>1. a \in Nat /\ b \in Nat /\ a <= b /\ a \in 0..Len(s)
      BY <2>1, <2>2 DEF IsCut
    <3>2. a # b
      <4>1. a = b => g.length = Column(s, a, a) - Column(s, a, a)
        BY <2>3 DEF Seg
      <4>2. Column(s, a, a) \in Nat
        BY <3>1, CaretFacts
      <4> QED
        BY <1>1, <4>1, <4>2
    <3> QED
      BY <3>1, <3>2
  <2> QED
    BY <1>1, <2>2, <2>3, <2>4, CutIsPiece
<1>2. ASSUME NEW a, NEW b, NEW k, IsRun(s, Unbroken(s, c), a, b, k), g = Seg(s, a, b, k)
      PROVE  \E f, t, l : \E line \in LinesBefore(s, f)..LinesBefore(s, t) :
               IsRun(s, c, f, t, l) /\ g = OfLine(s, f, t, l, line) /\ g.length > 0
  <2>1. PICK f, t : IsRun(s, c, f, t, k) /\ IsCut(s, f, t, a, b)
    BY <1>2, PieceIsCut
  <2>2. f \in 0..Len(s) /\ t \in f..Len(s)
    BY <2>1 DEF IsRun, Texts
  <2>3. /\ LinesBefore(s, a) \in LinesBefore(s, f)..LinesBefore(s, t)
        /\ g = OfLine(s, f, t, k, LinesBefore(s, a))
    BY <1>2, <2>1, <2>2, OfLineIsCut
  <2>4. g.length > 0
    <3>1. a \in 0..Len(s) /\ b \in a..Len(s) /\ a < b /\ b \in 0..Len(s)
      BY <1>2 DEF IsRun, Texts
    <3>2. Column(s, a, a) < Column(s, b, b)
      BY <2>1, <3>1, OnALine DEF IsCut
    <3>3. Column(s, a, a) \in Nat /\ Column(s, b, b) \in Nat
      BY <3>1, CaretFacts
    <3>4. g.length = Column(s, b, b) - Column(s, a, a)
      BY <1>2 DEF Seg
    <3> QED
      BY <3>2, <3>3, <3>4
  <2> QED
    BY <2>1, <2>3, <2>4
<1>3. g \in Segments(NewDocument(s), Parse(kd, s)) <=>
        \E f, t, l : \E line \in LinesBefore(s, f)..LinesBefore(s, t) :
          IsRun(s, c, f, t, l) /\ g = OfLine(s, f, t, l, line) /\ g.length > 0
  BY SegmentsFacts DEF c
<1> QED
  BY <1>1, <1>2, <1>3 DEF c
-----------------------------------------------------------------------------
(* Segments in the order of their places, and back.                          *)
Rank(G, g) == Cardinality({h \in G : Precedes(h, g)})

IsSegment(g) ==
  /\ g.line \in Nat /\ g.start \in Nat
  /\ g = [line |-> g.line, start |-> g.start, length |-> g.length, class |-> g.class]

ArePlaced(G) ==
  /\ IsFiniteSet(G)
  /\ \A g \in G : IsSegment(g)
  /\ \A g, h \in G : g.line = h.line /\ g.start = h.start => g = h

LEMMA RankFacts ==
  ASSUME NEW G, ArePlaced(G)
  PROVE  /\ Cardinality(G) \in Nat
         /\ \A g \in G : Rank(G, g) \in 0..(Cardinality(G) - 1)
         /\ \A g, h \in G : Rank(G, g) = Rank(G, h) => g = h
         /\ \A n \in 0..(Cardinality(G) - 1) : \E g \in G : Rank(G, g) = n
         /\ \A g, h \in G : Precedes(g, h) => Rank(G, g) < Rank(G, h)
<1>1. IsFiniteSet(G) /\ Cardinality(G) \in Nat
  BY FS_CardinalityType DEF ArePlaced
<1>2. ASSUME NEW g \in G
      PROVE  Rank(G, g) \in 0..(Cardinality(G) - 1)
  <2> DEFINE A == {h \in G : Precedes(h, g)}
  <2>1. g \notin A
    BY DEF Precedes, ArePlaced, IsSegment
  <2>2. A \in SUBSET G /\ A # G
    BY <2>1
  <2> HIDE DEF A
  <2>3. Cardinality(A) \in Nat /\ Cardinality(A) <= Cardinality(G)
        /\ Cardinality(A) # Cardinality(G)
    BY <1>1, <2>2, FS_Subset, FS_CardinalityType
  <2> QED
    BY <1>1, <2>3 DEF Rank, A
<1>3. ASSUME NEW g \in G, NEW h \in G, Precedes(g, h)
      PROVE  Rank(G, g) < Rank(G, h)
  <2> DEFINE A == {x \in G : Precedes(x, g)}
             B == {x \in G : Precedes(x, h)}
  <2>1. g \notin A /\ g \in B
    BY <1>3 DEF Precedes, ArePlaced, IsSegment
  <2>2. ASSUME NEW x \in G, Precedes(x, g) PROVE Precedes(x, h)
    BY <1>3, <2>2 DEF Precedes, ArePlaced, IsSegment
  <2>3. A \in SUBSET B /\ A # B /\ B \in SUBSET G
    BY <2>1, <2>2
  <2> HIDE DEF A, B
  <2>4. IsFiniteSet(B) /\ Cardinality(B) \in Nat
    BY <1>1, <2>3, FS_Subset, FS_CardinalityType
  <2>5. Cardinality(A) \in Nat /\ Cardinality(A) <= Cardinality(B)
        /\ Cardinality(A) # Cardinality(B)
    BY <2>3, <2>4, FS_Subset, FS_CardinalityType
  <2> QED
    BY <2>4, <2>5 DEF Rank, A, B
<1>4. ASSUME NEW g \in G, NEW h \in G, Rank(G, g) = Rank(G, h)
      PROVE  g = h
  <2>1. Rank(G, g) \in Nat /\ Rank(G, h) \in Nat
    BY <1>1, <1>2
  <2>2. ~Precedes(g, h) /\ ~Precedes(h, g)
    BY <1>3, <1>4, <2>1
  <2>3. g.line = h.line /\ g.start = h.start
    BY <2>2 DEF Precedes, ArePlaced, IsSegment
  <2> QED
    BY <2>3 DEF ArePlaced
<1>5. \A n \in 0..(Cardinality(G) - 1) : \E g \in G : Rank(G, g) = n
  <2> DEFINE T == 0..(Cardinality(G) - 1)
             f == [g \in G |-> Rank(G, g)]
  <2>1. f \in Injection(G, T)
    BY <1>2, <1>4 DEF Injection, IsInjective
  <2>2. IsFiniteSet(T) /\ Cardinality(T) = Cardinality(G)
    <3>1. 0 \in Int /\ Cardinality(G) - 1 \in Int
          /\ (IF 0 > Cardinality(G) - 1 THEN 0 ELSE (Cardinality(G) - 1) - 0 + 1) = Cardinality(G)
      BY <1>1
    <3> QED
      BY <3>1, FS_Interval
  <2>3. f \in Surjection(G, T)
    <3> HIDE DEF f, T
    <3> QED
      BY <2>1, <2>2, FS_Injection
  <2> QED
    BY <2>3 DEF Surjection
<1> QED
  BY <1>1, <1>2, <1>3, <1>4, <1>5

Nth(G, i) == CHOOSE g \in G : Cardinality({h \in G : Precedes(h, g)}) = i - 1

LineOfNth(G, i)  == IF i = 0 THEN 0 ELSE Nth(G, i).line
StartOfNth(G, i) == IF i = 0 THEN 0 ELSE Nth(G, i).start

LEMMA NthFacts ==
  ASSUME NEW G, ArePlaced(G)
  PROVE  /\ \A i \in 1..Cardinality(G) : Nth(G, i) \in G /\ Rank(G, Nth(G, i)) = i - 1
         /\ \A g \in G : \E i \in 1..Cardinality(G) : g = Nth(G, i)
         /\ \A i \in 0..Cardinality(G) : LineOfNth(G, i) \in Nat /\ StartOfNth(G, i) \in Nat
<1>1. Cardinality(G) \in Nat
  BY RankFacts
<1>2. ASSUME NEW i \in 1..Cardinality(G)
      PROVE  Nth(G, i) \in G /\ Rank(G, Nth(G, i)) = i - 1
  <2>1. i - 1 \in 0..(Cardinality(G) - 1)
    BY <1>1
  <2>2. \E g \in G : Cardinality({h \in G : Precedes(h, g)}) = i - 1
    BY <2>1, RankFacts, ZenonT(30) DEF Rank
  <2> QED
    BY <2>2 DEF Nth, Rank
<1>3. ASSUME NEW g \in G PROVE \E i \in 1..Cardinality(G) : g = Nth(G, i)
  <2>1. Rank(G, g) \in 0..(Cardinality(G) - 1)
    BY RankFacts
  <2>2. Rank(G, g) + 1 \in 1..Cardinality(G) /\ (Rank(G, g) + 1) - 1 = Rank(G, g)
    BY <1>1, <2>1
  <2>3. Rank(G, Nth(G, Rank(G, g) + 1)) = Rank(G, g) /\ Nth(G, Rank(G, g) + 1) \in G
    BY <1>2, <2>2
  <2> QED
    BY <2>2, <2>3, RankFacts
<1>4. ASSUME NEW i \in 0..Cardinality(G)
      PROVE  LineOfNth(G, i) \in Nat /\ StartOfNth(G, i) \in Nat
  <2>1. CASE i = 0
    BY <2>1 DEF LineOfNth, StartOfNth
  <2>2. CASE i # 0
    <3>1. Nth(G, i) \in G
      BY <1>1, <1>2, <2>2
    <3> QED
      BY <2>2, <3>1 DEF LineOfNth, StartOfNth, ArePlaced, IsSegment
  <2> QED
    BY <2>1, <2>2
<1> QED
  BY <1>2, <1>3, <1>4

LEMMA NthOrder ==
  ASSUME NEW G, ArePlaced(G), NEW i \in 1..Cardinality(G)
  PROVE  /\ LineOfNth(G, i - 1) <= LineOfNth(G, i)
         /\ LineOfNth(G, i - 1) = LineOfNth(G, i) => StartOfNth(G, i - 1) <= StartOfNth(G, i)
<1>1. Cardinality(G) \in Nat /\ i \in Nat /\ i \in 0..Cardinality(G)
  BY RankFacts
<1>2. LineOfNth(G, i) \in Nat /\ StartOfNth(G, i) \in Nat
  BY <1>1, NthFacts
<1>3. CASE i = 1
  BY <1>2, <1>3 DEF LineOfNth, StartOfNth
<1>4. CASE i # 1
  <2> DEFINE g == Nth(G, i - 1)
             h == Nth(G, i)
  <2>1. i - 1 \in 1..Cardinality(G) /\ (i - 1) - 1 < i - 1
    BY <1>1, <1>4
  <2>2. g \in G /\ h \in G /\ Rank(G, g) = (i - 1) - 1 /\ Rank(G, h) = i - 1
    BY <2>1, NthFacts
  <2>3. /\ LineOfNth(G, i) = h.line /\ StartOfNth(G, i) = h.start
        /\ LineOfNth(G, i - 1) = g.line /\ StartOfNth(G, i - 1) = g.start
    BY <1>1, <2>1 DEF LineOfNth, StartOfNth
  <2> HIDE DEF g, h
  <2>4. g.line \in Nat /\ g.start \in Nat /\ h.line \in Nat /\ h.start \in Nat
    BY <2>2 DEF ArePlaced, IsSegment
  <2>5. ~Precedes(h, g)
    <3>1. Precedes(h, g) => Rank(G, h) < Rank(G, g)
      BY <2>2, RankFacts
    <3> QED
      BY <1>1, <2>2, <3>1
  <2> QED
    BY <2>3, <2>4, <2>5 DEF Precedes
<1> QED
  BY <1>3, <1>4

IsToken(t) ==
  t = [deltaLine |-> t.deltaLine, deltaStart |-> t.deltaStart, length |-> t.length,
       class |-> t.class]

LEMMA EncodeFacts ==
  ASSUME NEW G, ArePlaced(G)
  PROVE  /\ \E S : Encode(G) \in Seq(S)
         /\ Len(Encode(G)) = Cardinality(G)
         /\ \A i \in 1..Cardinality(G) :
              /\ Encode(G)[i].deltaLine = LineOfNth(G, i) - LineOfNth(G, i - 1)
              /\ Encode(G)[i].deltaStart =
                   IF LineOfNth(G, i) = LineOfNth(G, i - 1)
                   THEN StartOfNth(G, i) - StartOfNth(G, i - 1) ELSE StartOfNth(G, i)
              /\ Encode(G)[i].length = Nth(G, i).length
              /\ Encode(G)[i].class = Nth(G, i).class
              /\ IsToken(Encode(G)[i])
<1> DEFINE n == Cardinality(G)
           E(i) == [deltaLine  |-> LineOfNth(G, i) - LineOfNth(G, i - 1),
                    deltaStart |-> IF LineOfNth(G, i) = LineOfNth(G, i - 1)
                                   THEN StartOfNth(G, i) - StartOfNth(G, i - 1)
                                   ELSE StartOfNth(G, i),
                    length |-> Nth(G, i).length, class |-> Nth(G, i).class]
<1>1. n \in Nat
  BY RankFacts
<1>2. Encode(G) = [i \in 1..n |-> E(i)]
  <2> DEFINE sorted == [i \in 1..n |-> Nth(G, i)]
             Line(i)  == IF i = 0 THEN 0 ELSE sorted[i].line
             Start(i) == IF i = 0 THEN 0 ELSE sorted[i].start
  <2>1. Encode(G) =
          [i \in DOMAIN sorted |->
             [deltaLine  |-> Line(i) - Line(i - 1),
              deltaStart |-> IF Line(i) = Line(i - 1) THEN Start(i) - Start(i - 1)
                                                      ELSE Start(i),
              length |-> sorted[i].length, class |-> sorted[i].class]]
    BY DEF Encode, Nth
  <2>2. DOMAIN sorted = 1..n /\ \A i \in 1..n : sorted[i] = Nth(G, i)
    OBVIOUS
  <2>3. \A i \in 0..n : Line(i) = LineOfNth(G, i) /\ Start(i) = StartOfNth(G, i)
    <3> TAKE i \in 0..n
    <3>1. i # 0 => i \in 1..n
      BY <1>1
    <3> HIDE DEF sorted
    <3> QED
      BY <2>2, <3>1 DEF LineOfNth, StartOfNth
  <2> HIDE DEF sorted, Line, Start
  <2>4. \A i \in 1..n : i \in 0..n /\ i - 1 \in 0..n
    BY <1>1
  <2> QED
    BY <2>1, <2>2, <2>3, <2>4
<1>3. \A i \in 1..n : /\ Encode(G)[i].deltaLine = LineOfNth(G, i) - LineOfNth(G, i - 1)
                      /\ Encode(G)[i].deltaStart =
                           IF LineOfNth(G, i) = LineOfNth(G, i - 1)
                           THEN StartOfNth(G, i) - StartOfNth(G, i - 1) ELSE StartOfNth(G, i)
                      /\ Encode(G)[i].length = Nth(G, i).length
                      /\ Encode(G)[i].class = Nth(G, i).class
                      /\ IsToken(Encode(G)[i])
  BY <1>2 DEF IsToken
<1>4. Len(Encode(G)) = n /\ Encode(G) \in Seq({E(i) : i \in 1..n})
  <2> HIDE DEF E
  <2> QED
    BY <1>1, <1>2
<1> QED
  BY <1>3, <1>4

(* The client finds the segments that were encoded.                           *)
LEMMA DecodeEncode ==
  ASSUME NEW G, ArePlaced(G)
  PROVE  Decode(Encode(G)) = G
<1> DEFINE n == Cardinality(G)
           data == Encode(G)
           StepL(f, i) == IF i = 0 THEN 0 ELSE f[i - 1] + data[i].deltaLine
           StepS(f, i) == IF i = 0 THEN 0
                          ELSE data[i].deltaStart
                                 + (IF data[i].deltaLine = 0 THEN f[i - 1] ELSE 0)
           line  == CHOOSE f : f = [i \in 0..Len(data) |-> StepL(f, i)]
           start == CHOOSE f : f = [i \in 0..Len(data) |-> StepS(f, i)]
<1>1. Decode(data) = {[line |-> line[i], start |-> start[i], length |-> data[i].length,
                       class |-> data[i].class] : i \in DOMAIN data}
  BY DEF Decode
<1>2. /\ n \in Nat /\ Len(data) = n /\ DOMAIN data = 1..n
      /\ \A i \in 1..n :
           /\ data[i].deltaLine = LineOfNth(G, i) - LineOfNth(G, i - 1)
           /\ data[i].deltaStart =
                IF LineOfNth(G, i) = LineOfNth(G, i - 1)
                THEN StartOfNth(G, i) - StartOfNth(G, i - 1) ELSE StartOfNth(G, i)
           /\ data[i].length = Nth(G, i).length
           /\ data[i].class = Nth(G, i).class
  <2>1. n \in Nat
    BY RankFacts
  <2>2. PICK S : data \in Seq(S)
    BY EncodeFacts
  <2>3. DOMAIN data = 1..Len(data)
    BY <2>2
  <2> QED
    BY <2>1, <2>3, EncodeFacts
<1> HIDE DEF data
<1>3. /\ LineOfNth(G, 0) = 0 /\ StartOfNth(G, 0) = 0
      /\ \A i \in 0..n : LineOfNth(G, i) \in Nat /\ StartOfNth(G, i) \in Nat
  BY NthFacts DEF LineOfNth, StartOfNth
<1>4. \A i \in 1..n : i \in 0..n /\ i - 1 \in 0..n /\ i # 0
  BY <1>2
<1>5. \A i \in 0..n : i # 0 => i \in 1..n
  BY <1>2
<1>6. \A i \in 1..n : LineOfNth(G, i) = LineOfNth(G, i - 1) + data[i].deltaLine
  BY <1>2, <1>3, <1>4
<1>7. \A i \in 1..n : StartOfNth(G, i) =
           data[i].deltaStart + (IF data[i].deltaLine = 0 THEN StartOfNth(G, i - 1) ELSE 0)
  BY <1>2, <1>3, <1>4
<1>8. line = [i \in 0..n |-> StepL(line, i)]
  <2> DEFINE w == [i \in 0..n |-> LineOfNth(G, i)]
  <2>1. \A i \in 0..n : w[i] = StepL(w, i)
    BY <1>3, <1>4, <1>5, <1>6
  <2>2. w = [i \in 0..n |-> StepL(w, i)]
    <3> HIDE DEF StepL
    <3> QED
      BY <2>1
  <2> HIDE DEF w, StepL
  <2> QED
    BY <1>2, <2>2
<1>9. start = [i \in 0..n |-> StepS(start, i)]
  <2> DEFINE w == [i \in 0..n |-> StartOfNth(G, i)]
  <2>1. \A i \in 0..n : w[i] = StepS(w, i)
    BY <1>3, <1>4, <1>5, <1>7
  <2>2. w = [i \in 0..n |-> StepS(w, i)]
    <3> HIDE DEF StepS
    <3> QED
      BY <2>1
  <2> HIDE DEF w, StepS
  <2> QED
    BY <1>2, <2>2
<1> HIDE DEF line, start
<1>10. \A i \in 0..n : line[i] = StepL(line, i) /\ start[i] = StepS(start, i)
  <2> HIDE DEF StepL, StepS
  <2>1. \A i \in 0..n : line[i] = StepL(line, i)
    BY <1>8
  <2>2. \A i \in 0..n : start[i] = StepS(start, i)
    BY <1>9
  <2> QED
    BY <2>1, <2>2
<1> DEFINE N == {m \in Nat : m <= n => line[m] = LineOfNth(G, m) /\ start[m] = StartOfNth(G, m)}
<1>11. 0 \in N
  BY <1>2, <1>3, <1>10
<1>12. ASSUME NEW m \in Nat, m \in N PROVE m + 1 \in N
  <2> SUFFICES ASSUME m + 1 <= n
               PROVE  line[m + 1] = LineOfNth(G, m + 1) /\ start[m + 1] = StartOfNth(G, m + 1)
    OBVIOUS
  <2>1. m + 1 \in 0..n /\ m + 1 \in 1..n /\ m + 1 # 0 /\ (m + 1) - 1 = m
        /\ line[m] = LineOfNth(G, m) /\ start[m] = StartOfNth(G, m)
    BY <1>2, <1>12
  <2>2. line[m + 1] = line[m] + data[m + 1].deltaLine
    BY <1>10, <2>1
  <2>3. start[m + 1] = data[m + 1].deltaStart
                         + (IF data[m + 1].deltaLine = 0 THEN start[m] ELSE 0)
    BY <1>10, <2>1
  <2> HIDE DEF N, StepL, StepS
  <2> QED
    BY <1>6, <1>7, <2>1, <2>2, <2>3
<1>13. \A m \in Nat : m \in N
  <2> HIDE DEF N
  <2> QED
    BY <1>11, <1>12, CountUp
<1>14. \A i \in 1..n : line[i] = Nth(G, i).line /\ start[i] = Nth(G, i).start
  <2> TAKE i \in 1..n
  <2>1. i \in Nat /\ i <= n /\ i # 0
    BY <1>2
  <2> QED
    BY <1>13, <2>1 DEF LineOfNth, StartOfNth
<1> HIDE DEF N, StepL, StepS
<1>15. ASSUME NEW i \in 1..n
       PROVE  [line |-> line[i], start |-> start[i], length |-> data[i].length,
               class |-> data[i].class] = Nth(G, i)
  <2>1. Nth(G, i) = [line |-> Nth(G, i).line, start |-> Nth(G, i).start,
                     length |-> Nth(G, i).length, class |-> Nth(G, i).class]
    BY NthFacts DEF ArePlaced, IsSegment
  <2> QED
    BY <1>2, <1>14, <2>1
<1>16. Decode(data) = {Nth(G, i) : i \in 1..n}
  BY <1>1, <1>2, <1>15
<1>17. {Nth(G, i) : i \in 1..n} = G
  BY NthFacts
<1> QED
  BY <1>16, <1>17 DEF data

(* What the client sees of a text.                                           *)
ScreenAt(about, i) ==
  IF about.text[i] = "n" THEN None
  ELSE IF about.language = "sql" THEN ClassAt(about.text, about.kind, i)
  ELSE IF Word(about.text[i]) /\ ClassAt(about.text, about.kind, i) = "literal" THEN about.kind
  ELSE None

ScreenOf(about) == [i \in 1..Len(about.text) |-> ScreenAt(about, i)]

Shows(s, c, g) == \E a, b, k : IsRun(s, c, a, b, k) /\ g = Seg(s, a, b, k)

LEMMA PieceRuns ==
  ASSUME NEW about, NEW s \in Texts, about.text = s
  PROVE  /\ \A r \in Pieces(about) :
              /\ IsRun(s, ScreenOf(about), r.from, r.to, r.class)
              /\ OnScreen(about, r) = Seg(s, r.from, r.to, r.class)
         /\ \A f, t, k : IsRun(s, ScreenOf(about), f, t, k) =>
              [from |-> f, to |-> t, class |-> k] \in Pieces(about)
<1> DEFINE c == ScreenOf(about)
           R == {r \in {[from |-> i - 1, to |-> j, class |-> ScreenAt(about, i)] :
                          i \in DOMAIN s, j \in DOMAIN s} :
                   /\ r.from < r.to
                   /\ r.class # None
                   /\ \A m \in r.from + 1 .. r.to : ScreenAt(about, m) = r.class
                   /\ r.from = 0 \/ ScreenAt(about, r.from) # r.class
                   /\ r.to = Len(s) \/ ScreenAt(about, r.to + 1) # r.class}
<1>1. Len(s) \in Nat /\ DOMAIN s = 1..Len(s)
  BY DEF Texts
<1>2. Pieces(about) = R
  BY DEF Pieces, Runs, ScreenAt
<1>3. \A m \in 1..Len(s) : c[m] = ScreenAt(about, m)
  BY DEF ScreenOf
<1> HIDE DEF c
<1>4. ASSUME NEW r \in R PROVE IsRun(s, c, r.from, r.to, r.class)
  <2>1. PICK i \in 1..Len(s), j \in 1..Len(s) :
          r = [from |-> i - 1, to |-> j, class |-> ScreenAt(about, i)]
    BY <1>1
  <2>a. r.from = i - 1 /\ r.to = j
    BY <2>1
  <2>b. /\ r.from < r.to /\ r.class # None
        /\ \A m \in r.from + 1 .. r.to : ScreenAt(about, m) = r.class
        /\ r.from = 0 \/ ScreenAt(about, r.from) # r.class
        /\ r.to = Len(s) \/ ScreenAt(about, r.to + 1) # r.class
    OBVIOUS
  <2>2. /\ r.from \in 0..Len(s) /\ r.to \in 0..Len(s) /\ r.from < r.to /\ r.class # None
        /\ \A m \in r.from + 1 .. r.to : ScreenAt(about, m) = r.class
        /\ r.from = 0 \/ ScreenAt(about, r.from) # r.class
        /\ r.to = Len(s) \/ ScreenAt(about, r.to + 1) # r.class
    <3> HIDE DEF R
    <3>1. i - 1 \in 0..Len(s) /\ j \in 0..Len(s)
      BY <1>1
    <3> QED
      BY <2>a, <2>b, <3>1
  <2> HIDE DEF R
  <2>3. \A m \in r.from + 1 .. r.to : m \in 1..Len(s)
    BY <1>1, <2>2
  <2>4. r.from # 0 => r.from \in 1..Len(s)
    BY <1>1, <2>2
  <2>5. r.to # Len(s) => r.to + 1 \in 1..Len(s)
    BY <1>1, <2>2
  <2> QED
    BY <1>3, <2>2, <2>3, <2>4, <2>5 DEF IsRun
<1>5. ASSUME NEW f, NEW t, NEW k, IsRun(s, c, f, t, k)
      PROVE  [from |-> f, to |-> t, class |-> k] \in R
  <2>0. /\ f \in 0..Len(s) /\ t \in 0..Len(s) /\ f < t /\ k # None
        /\ \A m \in (f + 1)..t : c[m] = k
        /\ f = 0 \/ c[f] # k
        /\ t = Len(s) \/ c[t + 1] # k
    BY <1>5 DEF IsRun
  <2>1. /\ f \in Nat /\ t \in Nat /\ f + 1 \in 1..Len(s) /\ t \in 1..Len(s) /\ f < t
        /\ (f + 1) - 1 = f /\ f + 1 \in (f + 1)..t /\ t <= Len(s)
    <3>1. f \in 0..Len(s) /\ t \in 0..Len(s) /\ f < t
      BY <2>0
    <3> HIDE DEF R
    <3> QED
      BY <1>1, <3>1
  <2>2. ScreenAt(about, f + 1) = k
    BY <1>3, <2>0, <2>1
  <2>3. \A m \in (f + 1)..t : m \in 1..Len(s)
    BY <1>1, <2>1
  <2>4. /\ k # None
        /\ \A m \in (f + 1)..t : ScreenAt(about, m) = k
        /\ f = 0 \/ ScreenAt(about, f) # k
        /\ t = Len(s) \/ ScreenAt(about, t + 1) # k
    <3> HIDE DEF R
    <3>1. f # 0 => f \in 1..Len(s)
      BY <1>1, <2>1
    <3>2. t # Len(s) => t + 1 \in 1..Len(s)
      <4>1. Len(s) \in Nat /\ t \in Nat /\ t <= Len(s)
        BY <1>1, <2>1
      <4> QED
        BY <4>1
    <3> QED
      BY <1>3, <2>0, <2>3, <3>1, <3>2
  <2> DEFINE r == [from |-> f, to |-> t, class |-> k]
  <2>5. r.from = f /\ r.to = t /\ r.class = k
    OBVIOUS
  <2>6. /\ f + 1 \in DOMAIN s /\ t \in DOMAIN s
        /\ r = [from |-> (f + 1) - 1, to |-> t, class |-> ScreenAt(about, f + 1)]
    BY <1>1, <2>1, <2>2
  <2> HIDE DEF r
  <2>7. r \in {[from |-> i - 1, to |-> j, class |-> ScreenAt(about, i)] :
                i \in DOMAIN s, j \in DOMAIN s}
    BY <2>6
  <2>8. r \in R
    BY <2>1, <2>4, <2>5, <2>7
  <2> HIDE DEF R
  <2> QED
    BY <2>8 DEF r
<1> HIDE DEF R
<1>6. ASSUME NEW r \in R
      PROVE  OnScreen(about, r) = Seg(s, r.from, r.to, r.class)
  <2>1. IsRun(s, c, r.from, r.to, r.class)
    BY <1>4
  <2>2. /\ r.from \in 0..Len(s) /\ r.to \in 0..Len(s)
    BY <2>1 DEF IsRun
  <2>3. /\ CaretPosition(s, r.from) = [line |-> LinesBefore(s, r.from),
                                      character |-> Column(s, r.from, r.from)]
        /\ CaretPosition(s, r.to) = [line |-> LinesBefore(s, r.to),
                                    character |-> Column(s, r.to, r.to)]
    BY <2>2, CaretFacts
  <2> QED
    BY <2>3 DEF OnScreen, Seg
<1> QED
  BY <1>2, <1>4, <1>5, <1>6 DEF c

LEMMA PiecesFacts ==
  ASSUME NEW about, NEW s \in Texts, about.text = s, NEW g
  PROVE  g \in {OnScreen(about, piece) : piece \in Pieces(about)} <=>
           Shows(s, ScreenOf(about), g)
<1> DEFINE c == ScreenOf(about)
<1>1. \A r \in Pieces(about) : /\ IsRun(s, c, r.from, r.to, r.class)
                               /\ OnScreen(about, r) = Seg(s, r.from, r.to, r.class)
  BY PieceRuns
<1>2. ASSUME NEW a, NEW b, NEW k, IsRun(s, c, a, b, k)
      PROVE  Seg(s, a, b, k) \in {OnScreen(about, piece) : piece \in Pieces(about)}
  <2> DEFINE r == [from |-> a, to |-> b, class |-> k]
  <2>1. r \in Pieces(about)
    BY <1>2, PieceRuns
  <2>2. r.from = a /\ r.to = b /\ r.class = k
    OBVIOUS
  <2> HIDE DEF r
  <2> QED
    BY <1>1, <2>1, <2>2
<1> QED
  BY <1>1, <1>2 DEF Shows, c
-----------------------------------------------------------------------------
(* A part of a text as a text of its own: where its carets are in the whole.   *)
LEMMA PartOfPart ==
  ASSUME NEW s \in Texts, NEW i \in 0..Len(s), NEW z \in i..Len(s),
         NEW a \in 0..(z - i), NEW b \in a..(z - i)
  PROVE  SubSeq(SubSeq(s, i + 1, z), a + 1, b) = SubSeq(s, (i + a) + 1, i + b)
<1> DEFINE u == SubSeq(s, i + 1, z)
           v == SubSeq(u, a + 1, b)
           w == SubSeq(s, (i + a) + 1, i + b)
<1>1. /\ Len(s) \in Nat /\ i \in Nat /\ z \in Nat /\ a \in Nat /\ b \in Nat
      /\ i <= z /\ z <= Len(s) /\ a <= b /\ b <= z - i
  BY DEF Texts
<1>2. u \in Texts /\ Len(u) = z - i /\ \A k \in 1..(z - i) : u[k] = s[i + k]
  BY PartFacts
<1> HIDE DEF u
<1>3. v \in Texts /\ Len(v) = b - a /\ \A k \in 1..(b - a) : v[k] = u[a + k]
  <2>1. a \in 0..Len(u) /\ b \in a..Len(u)
    BY <1>2
  <2> QED
    BY <1>2, <2>1, PartFacts
<1>4. w \in Texts /\ Len(w) = b - a /\ \A k \in 1..(b - a) : w[k] = s[(i + a) + k]
  <2>1. i + a \in 0..Len(s) /\ i + b \in (i + a)..Len(s) /\ (i + b) - (i + a) = b - a
    BY <1>1
  <2> QED
    BY <2>1, PartFacts
<1> HIDE DEF v, w
<1>5. \A k \in 1..(b - a) : a + k \in 1..(z - i) /\ i + (a + k) = (i + a) + k
  BY <1>1
<1>6. \A k \in 1..(b - a) : v[k] = w[k]
  BY <1>2, <1>3, <1>4, <1>5
<1>7. v = w
  BY <1>3, <1>4, <1>6, SameText
<1> QED
  BY <1>7 DEF u, v, w

LEMMA MeasureSplit ==
  ASSUME NEW e, NEW s \in Texts, NEW f \in 0..Len(s), NEW i \in f..Len(s), NEW k \in i..Len(s)
  PROVE  Measure(e, SubSeq(s, f + 1, k)) =
           Measure(e, SubSeq(s, f + 1, i)) + Measure(e, SubSeq(s, i + 1, k))
<1> DEFINE u == SubSeq(s, f + 1, k)
           t == SubSeq(s, i + 1, k)
<1>1. /\ Len(s) \in Nat /\ f \in Nat /\ i \in Nat /\ k \in Nat /\ f <= i /\ i <= k /\ k <= Len(s)
      /\ i \in 0..Len(s) /\ k \in f..Len(s)
  BY DEF Texts
<1>2. u \in Texts /\ Len(u) = k - f /\ \A j \in 1..(k - f) : u[j] = s[f + j]
  BY <1>1, PartFacts
<1>3. t \in Texts /\ Len(t) = k - i /\ \A j \in 1..(k - i) : t[j] = s[i + j]
  BY <1>1, PartFacts
<1>4. SubSeq(u, 1, i - f) = SubSeq(s, f + 1, i)
  <2>1. 0 \in 0..(k - f) /\ i - f \in 0..(k - f) /\ 0 + 1 = 1 /\ f + 0 = f /\ f + (i - f) = i
    BY <1>1
  <2>2. SubSeq(u, 0 + 1, i - f) = SubSeq(s, (f + 0) + 1, f + (i - f))
    BY <1>1, <2>1, PartOfPart
  <2> QED
    BY <2>1, <2>2
<1> HIDE DEF u, t
<1>5. SubSeq(u, 1, k - f) = u /\ SubSeq(t, 1, k - i) = t
  BY <1>2, <1>3, SubSeqFull DEF Texts
<1>6. Measure(e, SubSeq(u, 1, (i - f) + (k - i))) =
        Measure(e, SubSeq(u, 1, i - f)) + Measure(e, SubSeq(t, 1, k - i))
  <2>1. i - f \in Nat /\ (i - f) + Len(t) <= Len(u) /\ k - i \in 0..Len(t)
    BY <1>1, <1>2, <1>3
  <2>2. \A j \in 1..Len(t) : u[(i - f) + j] = t[j]
    <3> TAKE j \in 1..Len(t)
    <3>1. (i - f) + j \in 1..(k - f) /\ f + ((i - f) + j) = i + j /\ j \in 1..(k - i)
      BY <1>1, <1>3
    <3> QED
      BY <1>2, <1>3, <3>1
  <2> QED
    BY <1>2, <1>3, <2>1, <2>2, MeasureSecond
<1>7. (i - f) + (k - i) = k - f
  BY <1>1
<1> QED
  BY <1>4, <1>5, <1>6, <1>7 DEF u, t

LEMMA PartCarets ==
  ASSUME NEW s \in Texts, NEW i \in 0..Len(s), NEW z \in i..Len(s),
         NEW u, u = SubSeq(s, i + 1, z), NEW m \in 0..(z - i)
  PROVE  /\ LinesBefore(s, i + m) = LinesBefore(u, m) + LinesBefore(s, i)
         /\ Column(s, i + m, i + m) = Column(u, m, m) + (IF LinesBefore(u, m) = 0
                                                         THEN Column(s, i, i) ELSE 0)
<1>1. /\ Len(s) \in Nat /\ i \in Nat /\ z \in Nat /\ m \in Nat
      /\ i <= z /\ z <= Len(s) /\ m <= z - i
      /\ i + m \in 0..Len(s) /\ 0 \in Nat /\ 0 + m = m
  BY DEF Texts
<1>2. u \in Texts /\ Len(u) = z - i /\ \A k \in 1..(z - i) : u[k] = s[i + k]
  BY PartFacts
<1>3. InCommon(u, s, 0, i, m)
  <2> SUFFICES ASSUME NEW k \in 1..m PROVE s[i + k] = u[0 + k]
    BY DEF InCommon
  <2>1. k \in 1..(z - i) /\ 0 + k = k
    BY <1>1
  <2> QED
    BY <1>2, <2>1
<1>4. ShiftedLines(u, s, 0, i, m)
  BY <1>1, <1>3, LinesShift
<1>5. LinesBefore(u, 0) = 0 /\ LinesBefore(u, m) \in Nat /\ LinesBefore(s, i) \in Nat
      /\ LinesBefore(s, i + m) \in Nat /\ LineStart(u, m) \in 0..m /\ LineStart(s, i) \in 0..i
      /\ LineStart(u, 0) = 0
  BY <1>1, LinesFacts
<1>6. LinesBefore(s, i + m) = LinesBefore(u, m) + LinesBefore(s, i)
  BY <1>1, <1>4, <1>5 DEF ShiftedLines
<1>7. CASE LinesBefore(u, m) = 0
  <2>1. LineStart(u, m) = 0
    BY <1>1, <1>5, <1>7, LinesGrow
  <2>2. LineStart(s, i + m) = LineStart(s, i)
    <3>1. LinesBefore(s, i) = LinesBefore(s, i + m) /\ i <= i + m /\ i + m \in Nat
      BY <1>1, <1>5, <1>6, <1>7
    <3> QED
      BY <1>1, <3>1, LinesGrow
  <2> DEFINE f == LineStart(s, i)
  <2>3. Units(SubSeq(s, f + 1, i + m)) = Units(SubSeq(s, f + 1, i)) + Units(SubSeq(s, i + 1, i + m))
    <3>1. f \in 0..Len(s) /\ i \in f..Len(s) /\ i + m \in i..Len(s)
      BY <1>1, <1>5
    <3> HIDE DEF f
    <3> QED
      BY <3>1, MeasureSplit DEF Units
  <2>4. SubSeq(u, 1, m) = SubSeq(s, i + 1, i + m)
    <3>1. 0 \in 0..(z - i) /\ m \in 0..(z - i) /\ 0 + 1 = 1 /\ i + 0 = i
      BY <1>1
    <3>2. SubSeq(u, 0 + 1, m) = SubSeq(s, (i + 0) + 1, i + m)
      BY <3>1, PartOfPart
    <3> QED
      BY <3>1, <3>2
  <2>5. Column(u, m, m) = Units(SubSeq(s, i + 1, i + m))
    <3>1. Column(u, m, m) = Units(SubSeq(u, 0 + 1, m)) /\ 0 + 1 = 1
      BY <2>1 DEF Column
    <3> QED
      BY <2>4, <3>1
  <2>6. Column(s, i, i) \in Nat /\ Column(u, m, m) \in Nat
    <3>1. m \in 0..Len(u)
      BY <1>2
    <3> QED
      BY <1>2, <3>1, CaretFacts
  <2>7. Column(s, i + m, i + m) = Units(SubSeq(s, f + 1, i + m))
        /\ Column(s, i, i) = Units(SubSeq(s, f + 1, i))
    BY <2>2 DEF Column
  <2> HIDE DEF f
  <2>8. Column(s, i + m, i + m) = Column(u, m, m) + Column(s, i, i)
    BY <2>3, <2>5, <2>6, <2>7
  <2> QED
    BY <1>6, <1>7, <2>8
<1>8. CASE LinesBefore(u, m) # 0
  <2>1. LineStart(s, i + m) = i + LineStart(u, m)
    BY <1>1, <1>4, <1>5, <1>8 DEF ShiftedLines
  <2> DEFINE f == LineStart(u, m)
  <2>2. SubSeq(u, f + 1, m) = SubSeq(s, (i + f) + 1, i + m)
    <3>1. f \in 0..(z - i) /\ m \in f..(z - i)
      BY <1>1, <1>5
    <3> HIDE DEF f
    <3> QED
      BY <3>1, PartOfPart
  <2>3. Column(s, i + m, i + m) = Column(u, m, m)
    BY <2>1, <2>2 DEF Column
  <2>4. Column(u, m, m) \in Nat
    <3>1. m \in 0..Len(u)
      BY <1>2
    <3> QED
      BY <1>2, <3>1, CaretFacts
  <2> QED
    BY <1>6, <1>8, <2>3, <2>4
<1> QED
  BY <1>7, <1>8
-----------------------------------------------------------------------------
(* The literals of a text, and the regions that are extracted for them.        *)
IsLiteral(s, i, j) ==
  /\ i \in Quotes(s) /\ j \in Quotes(s) /\ i < j
  /\ \A k \in Quotes(s) : k <= i \/ j <= k
  /\ Cardinality(Quotes(Before(s, i))) % 2 = 1

LEMMA QuotesFacts ==
  ASSUME NEW s \in Texts
  PROVE  /\ Quotes(s) \subseteq Nat
         /\ \A q : q \in Quotes(s) <=> q \in 1..Len(s) /\ s[q] = "q"
         /\ IsFiniteSet(Quotes(s))
<1>1. DOMAIN s = 1..Len(s) /\ Len(s) \in Nat
  BY DEF Texts
<1>2. IsFiniteSet(1..Len(s))
  BY <1>1, FS_Interval
<1>3. Quotes(s) \in SUBSET (1..Len(s))
  BY <1>1 DEF Quotes
<1>4. IsFiniteSet(Quotes(s))
  BY <1>2, <1>3, FS_Subset
<1> QED
  BY <1>1, <1>4 DEF Quotes

LEMMA QuoteFollows ==
  ASSUME NEW s \in Texts, NEW i \in Quotes(s), \E k \in Quotes(s) : i < k
  PROVE  /\ NextQuote(s, i) \in Quotes(s) /\ i < NextQuote(s, i)
         /\ \A k \in Quotes(s) : k <= i \/ NextQuote(s, i) <= k
<1> DEFINE S == {k \in Quotes(s) : i < k}
<1>1. S \subseteq Nat /\ S # {} /\ i \in Nat /\ Quotes(s) \subseteq Nat
  BY QuotesFacts
<1>2. PICK m \in S : \A k \in S : m <= k
  <2> HIDE DEF S
  <2> QED
    BY <1>1, LeastNumber
<1>3. \A k \in Quotes(s) : k <= i \/ m <= k
  BY <1>1, <1>2
<1>4. \E j \in Quotes(s) : i < j /\ \A k \in Quotes(s) : k <= i \/ j <= k
  BY <1>2, <1>3
<1> QED
  BY <1>4 DEF NextQuote

LEMMA LiteralsFacts ==
  ASSUME NEW s \in Texts, NEW l
  PROVE  l \in Literals(s) <=> \E i, j : IsLiteral(s, i, j) /\ l = <<i, j>>
<1>1. ASSUME l \in Literals(s)
      PROVE  \E i, j : IsLiteral(s, i, j) /\ l = <<i, j>>
  <2>1. PICK i \in {j \in Quotes(s) : /\ Cardinality(Quotes(Before(s, j))) % 2 = 1
                                      /\ \E k \in Quotes(s) : j < k} :
                 l = <<i, NextQuote(s, i)>>
    BY <1>1 DEF Literals
  <2>2. IsLiteral(s, i, NextQuote(s, i))
    BY QuoteFollows DEF IsLiteral
  <2> QED
    BY <2>1, <2>2
<1>2. ASSUME NEW i, NEW j, IsLiteral(s, i, j), l = <<i, j>>
      PROVE  l \in Literals(s)
  <2>1. i \in Quotes(s) /\ j \in Quotes(s) /\ i < j
        /\ (\A k \in Quotes(s) : k <= i \/ j <= k)
        /\ Cardinality(Quotes(Before(s, i))) % 2 = 1
    BY <1>2 DEF IsLiteral
  <2> DEFINE n == NextQuote(s, i)
  <2>2. n \in Quotes(s) /\ i < n /\ \A k \in Quotes(s) : k <= i \/ n <= k
    BY <2>1, QuoteFollows
  <2> HIDE DEF n
  <2>3. i \in Nat /\ j \in Nat /\ n \in Nat
    BY <2>1, <2>2, QuotesFacts
  <2>4. n = j
    <3>1. j <= n /\ n <= j
      BY <2>1, <2>2, <2>3
    <3> QED
      BY <2>3, <3>1
  <2>5. i \in {q \in Quotes(s) : /\ Cardinality(Quotes(Before(s, q))) % 2 = 1
                                 /\ \E k \in Quotes(s) : q < k}
    BY <2>1
  <2>6. l = <<i, NextQuote(s, i)>>
    BY <1>2, <2>4 DEF n
  <2> QED
    BY <2>5, <2>6 DEF Literals
<1> QED
  BY <1>1, <1>2

LEMMA PositionAtOffset ==
  ASSUME NEW s \in Texts, NEW i \in 0..Len(s)
  PROVE  PositionAt(NewDocument(s), Offset(s, i)) = CaretPosition(s, i)
<1>1. LineOf(NewDocument(s), Offset(s, i)) = LinesBefore(s, i)
  BY LineOfOffset
<1>2. ComputeLineStarts(s)[LinesBefore(s, i) + 1] = Offset(s, LineStart(s, i))
  BY LineStartsFacts DEF AreLineStarts
<1>3. NewDocument(s).lineStarts = ComputeLineStarts(s) /\ NewDocument(s).text = s
  BY DEF NewDocument
<1>4. LineStart(s, i) \in 0..Len(s)
  BY CaretFacts
<1>5. Slice(s, Offset(s, LineStart(s, i)), Offset(s, i)) = SubSeq(s, LineStart(s, i) + 1, i)
  BY <1>4, SliceOfOffsets
<1> QED
  BY <1>1, <1>2, <1>3, <1>5 DEF PositionAt, CaretPosition

ByteOf(s, q) == Offset(s, q - 1)

LEMMA QuoteBytes ==
  ASSUME NEW s \in Texts
  PROVE  /\ {n.byte : n \in {m \in Nodes(NewDocument(s)) : m.char = "q"}} =
              {ByteOf(s, q) : q \in Quotes(s)}
         /\ \A q \in Quotes(s) : q \in Nat /\ ByteOf(s, q) \in Nat
                                 /\ Offset(s, q) = ByteOf(s, q) + 1
         /\ \A p, q \in Quotes(s) : ByteOf(s, p) < ByteOf(s, q) <=> p < q
         /\ \A p, q \in Quotes(s) : ByteOf(s, p) = ByteOf(s, q) <=> p = q
<1> DEFINE I == {k \in 0..Len(s) : k < Len(s)}
           T == Nodes(NewDocument(s))
<1>1. Len(s) \in Nat
  BY DEF Texts
<1>2. T = {NodeAt(s, k) : k \in I}
  BY NodesAt
<1>3. \A k : NodeAt(s, k).byte = Offset(s, k) /\ NodeAt(s, k).char = s[k + 1]
  BY DEF NodeAt
<1>4. \A q \in Quotes(s) : /\ q \in 1..Len(s) /\ q \in Nat /\ q \in 0..Len(s) /\ s[q] = "q"
                           /\ q - 1 \in I /\ q - 1 \in 0..Len(s) /\ q - 1 < Len(s)
                           /\ (q - 1) + 1 = q
  BY <1>1, QuotesFacts
<1>5. \A k \in I : s[k + 1] = "q" => k + 1 \in Quotes(s) /\ (k + 1) - 1 = k
  BY <1>1, QuotesFacts
<1> HIDE DEF I, T
<1>6. {n.byte : n \in {m \in T : m.char = "q"}} = {ByteOf(s, q) : q \in Quotes(s)}
  <2>1. ASSUME NEW m \in T, m.char = "q" PROVE \E q \in Quotes(s) : m.byte = ByteOf(s, q)
    <3>1. PICK k \in I : m = NodeAt(s, k)
      BY <1>2
    <3>2. s[k + 1] = "q" /\ m.byte = Offset(s, k)
      BY <1>3, <2>1, <3>1
    <3> QED
      BY <1>5, <3>2 DEF ByteOf
  <2>2. ASSUME NEW q \in Quotes(s)
        PROVE  \E m \in T : m.char = "q" /\ m.byte = ByteOf(s, q)
    <3>1. NodeAt(s, q - 1) \in T
      BY <1>2, <1>4
    <3>2. NodeAt(s, q - 1).char = "q" /\ NodeAt(s, q - 1).byte = ByteOf(s, q)
      BY <1>3, <1>4 DEF ByteOf
    <3> QED
      BY <3>1, <3>2
  <2> QED
    BY <2>1, <2>2
<1>7. ASSUME NEW q \in Quotes(s)
      PROVE  ByteOf(s, q) \in Nat /\ Offset(s, q) = ByteOf(s, q) + 1
  <2>1. Offset(s, (q - 1) + 1) = Offset(s, q - 1) + Utf8(s[(q - 1) + 1])
    BY <1>4, OffsetFacts
  <2>2. Utf8("q") = 1
    BY DEF Utf8
  <2>3. Offset(s, q - 1) \in Nat
    BY <1>4, OffsetFacts
  <2>4. (q - 1) + 1 = q /\ s[q] = "q"
    BY <1>4
  <2> QED
    BY <2>1, <2>2, <2>3, <2>4 DEF ByteOf
<1>8. ASSUME NEW p \in Quotes(s), NEW q \in Quotes(s)
      PROVE  /\ ByteOf(s, p) < ByteOf(s, q) <=> p < q
             /\ ByteOf(s, p) = ByteOf(s, q) <=> p = q
  <2>1. /\ Offset(s, p - 1) <= Offset(s, q - 1) <=> p - 1 <= q - 1
        /\ Offset(s, p - 1) = Offset(s, q - 1) <=> p - 1 = q - 1
    BY <1>4, OffsetOrder
  <2>2. p \in Nat /\ q \in Nat /\ Offset(s, p - 1) \in Nat /\ Offset(s, q - 1) \in Nat
    BY <1>4, OffsetFacts
  <2> QED
    BY <2>1, <2>2 DEF ByteOf
<1> QED
  BY <1>4, <1>6, <1>7, <1>8 DEF T

(* As many quotes come before one in the tree as in the text.                  *)
LEMMA QuotesBefore ==
  ASSUME NEW s \in Texts, NEW i \in Quotes(s), NEW bytes,
         bytes = {ByteOf(s, q) : q \in Quotes(s)}
  PROVE  Cardinality({c \in bytes : c < ByteOf(s, i)}) % 2 = 0 <=>
           Cardinality(Quotes(Before(s, i))) % 2 = 1
<1> DEFINE P == {q \in Quotes(s) : q < i}
           C == {c \in bytes : c < ByteOf(s, i)}
           f == [q \in P |-> ByteOf(s, q)]
<1>1. \A q \in Quotes(s) : q \in 1..Len(s) /\ q \in Nat
  BY QuotesFacts
<1>2. \A p, q \in Quotes(s) : /\ ByteOf(s, p) < ByteOf(s, q) <=> p < q
                              /\ ByteOf(s, p) = ByteOf(s, q) <=> p = q
  BY QuoteBytes
<1>3. IsFiniteSet(P) /\ Cardinality(P) \in Nat
  <2>1. IsFiniteSet(Quotes(s)) /\ P \in SUBSET Quotes(s)
    BY QuotesFacts
  <2> HIDE DEF P
  <2> QED
    BY <2>1, FS_Subset, FS_CardinalityType
<1>4. Cardinality(C) = Cardinality(P)
  <2>1. \A q \in P : ByteOf(s, q) \in C
    BY <1>2
  <2>2. \A c \in C : \E q \in P : c = ByteOf(s, q)
    BY <1>2
  <2>3. \A p, q \in P : ByteOf(s, p) = ByteOf(s, q) => p = q
    BY <1>2
  <2> HIDE DEF P, C
  <2>4. f \in Injection(P, C)
    BY <2>1, <2>3 DEF Injection, IsInjective
  <2>5. f \in Surjection(P, C)
    BY <2>1, <2>2 DEF Surjection
  <2> HIDE DEF f
  <2>6. ExistsBijection(P, C)
    BY <2>4, <2>5 DEF ExistsBijection, Bijection
  <2> QED
    BY <1>3, <2>6, FS_Bijection
<1>5. Quotes(Before(s, i)) = P \cup {i}
  <2>1. 0 \in 0..Len(s) /\ i \in 0..Len(s) /\ i \in 1..Len(s) /\ 0 + 1 = 1 /\ i - 0 = i
        /\ \A k \in 1..i : 0 + k = k
    BY <1>1, QuotesFacts
  <2>2. Before(s, i) \in Texts /\ Len(Before(s, i)) = i /\ \A k \in 1..i : Before(s, i)[k] = s[k]
    BY <2>1, PartFacts DEF Before
  <2>3. \A q : q \in Quotes(Before(s, i)) <=> q \in 1..i /\ s[q] = "q"
    BY <2>2, QuotesFacts
  <2>4. \A q : q \in Quotes(s) <=> q \in 1..Len(s) /\ s[q] = "q"
    BY QuotesFacts
  <2>5. i \in Nat /\ Len(s) \in Nat /\ i <= Len(s)
    BY <2>1 DEF Texts
  <2>6. \A q : q \in 1..i <=> q \in 1..Len(s) /\ (q < i \/ q = i)
    BY <2>5
  <2> QED
    BY <2>3, <2>4, <2>6
<1>6. Cardinality(Quotes(Before(s, i))) = Cardinality(P) + 1
  <2>1. i \notin P
    BY <1>1
  <2> HIDE DEF P
  <2> QED
    BY <1>3, <1>5, <2>1, FS_AddElement
<1> HIDE DEF P, C, f
<1>7. \A n \in Nat : n % 2 = 0 <=> (n + 1) % 2 = 1
  OBVIOUS
<1> QED
  BY <1>3, <1>4, <1>6, <1>7 DEF C

RegionAt(s, i, j) ==
  [text |-> SubSeq(s, i + 1, j - 1), start |-> CaretPosition(s, i),
   end |-> CaretPosition(s, j - 1)]

(* extract_with, for a tree that fits the text.                               *)
LEMMA Extracted ==
  ASSUME NEW s \in Texts, NEW r
  PROVE  r \in Extract(NewDocument(s), Nodes(NewDocument(s))) <=>
           \E i, j : IsLiteral(s, i, j) /\ i + 1 < j /\ r = RegionAt(s, i, j)
<1> DEFINE d == NewDocument(s)
           tree == Nodes(d)
           bytes == {n.byte : n \in {m \in tree : m.char = "q"}}
           opening == {b \in bytes : /\ Cardinality({c \in bytes : c < b}) % 2 = 0
                                     /\ \E c \in bytes : b < c}
           Closing(b) == Min({c \in bytes : b < c})
<1>1. Extract(d, tree) = UNION {RegionFromMacro(d, b, Closing(b)) : b \in opening}
  BY DEF Extract
<1>2. bytes = {ByteOf(s, q) : q \in Quotes(s)}
  BY QuoteBytes
<1>3. /\ \A q \in Quotes(s) : q \in Nat /\ ByteOf(s, q) \in Nat /\ Offset(s, q) = ByteOf(s, q) + 1
                              /\ q \in 1..Len(s) /\ q \in 0..Len(s) /\ q - 1 \in 0..Len(s)
      /\ \A p, q \in Quotes(s) : ByteOf(s, p) < ByteOf(s, q) <=> p < q
      /\ \A p, q \in Quotes(s) : ByteOf(s, p) = ByteOf(s, q) <=> p = q
  <2>1. \A q \in Quotes(s) : q \in 1..Len(s) /\ q \in 0..Len(s) /\ q - 1 \in 0..Len(s)
    <3>1. Len(s) \in Nat
      BY DEF Texts
    <3> QED
      BY <3>1, QuotesFacts
  <2> QED
    BY <2>1, QuoteBytes
<1> HIDE DEF bytes
<1>4. ASSUME NEW i \in Quotes(s)
      PROVE  Cardinality({c \in bytes : c < ByteOf(s, i)}) % 2 = 0 <=>
               Cardinality(Quotes(Before(s, i))) % 2 = 1
  BY <1>2, QuotesBefore
<1>5. ASSUME NEW i, NEW j, IsLiteral(s, i, j)
      PROVE  ByteOf(s, i) \in opening /\ Closing(ByteOf(s, i)) = ByteOf(s, j)
  <2>1. i \in Quotes(s) /\ j \in Quotes(s) /\ i < j
        /\ (\A k \in Quotes(s) : k <= i \/ j <= k)
        /\ Cardinality(Quotes(Before(s, i))) % 2 = 1
    BY <1>5 DEF IsLiteral
  <2>2. ByteOf(s, i) \in opening
    BY <1>2, <1>3, <1>4, <2>1
  <2> DEFINE S == {c \in bytes : ByteOf(s, i) < c}
  <2>3. ByteOf(s, j) \in S /\ S \subseteq Nat
    BY <1>2, <1>3, <2>1
  <2>4. ASSUME NEW c \in S PROVE ByteOf(s, j) <= c
    <3>1. PICK q \in Quotes(s) : c = ByteOf(s, q)
      BY <1>2
    <3>2. i < q
      BY <1>3, <2>1, <3>1
    <3>3. j <= q
      BY <1>3, <2>1, <3>2
    <3>4. j < q \/ j = q
      BY <1>3, <2>1, <3>3
    <3>5. ByteOf(s, j) < ByteOf(s, q) \/ j = q
      BY <1>3, <2>1, <3>4
    <3> QED
      BY <1>3, <2>1, <3>1, <3>5
  <2>5. Closing(ByteOf(s, i)) = Min(S)
    OBVIOUS
  <2> HIDE DEF S
  <2>6. Min(S) \in S /\ Min(S) <= ByteOf(s, j)
    BY <2>3, MinIsLeast
  <2>7. Min(S) = ByteOf(s, j)
    <3>1. Min(S) \in Nat /\ ByteOf(s, j) \in Nat
      BY <2>3, <2>6
    <3>2. ByteOf(s, j) <= Min(S)
      BY <2>4, <2>6
    <3> QED
      BY <2>6, <3>1, <3>2
  <2> QED
    BY <2>2, <2>5, <2>7
<1>6. ASSUME NEW b \in opening
      PROVE  \E i, j : IsLiteral(s, i, j) /\ b = ByteOf(s, i)
  <2>1. PICK i \in Quotes(s) : b = ByteOf(s, i)
    BY <1>2
  <2>2. Cardinality(Quotes(Before(s, i))) % 2 = 1
    BY <1>4, <2>1
  <2>3. \E q \in Quotes(s) : i < q
    BY <1>2, <1>3, <2>1
  <2>4. IsLiteral(s, i, NextQuote(s, i))
    BY <2>2, <2>3, QuoteFollows DEF IsLiteral
  <2> QED
    BY <2>1, <2>4
<1>7. ASSUME NEW i, NEW j, IsLiteral(s, i, j)
      PROVE  RegionFromMacro(d, ByteOf(s, i), ByteOf(s, j)) =
               IF i + 1 < j THEN {RegionAt(s, i, j)} ELSE {}
  <2>1. i \in Quotes(s) /\ j \in Quotes(s) /\ i < j
    BY <1>7 DEF IsLiteral
  <2>2. ByteOf(s, i) + 1 = Offset(s, i) /\ ByteOf(s, j) = Offset(s, j - 1)
    BY <1>3, <2>1 DEF ByteOf
  <2>3. i \in 0..Len(s) /\ j - 1 \in 0..Len(s) /\ i \in Nat /\ j \in Nat
    BY <1>3, <2>1
  <2>4. Offset(s, j - 1) = Offset(s, i) <=> j - 1 = i
    BY <2>3, OffsetOrder
  <2>5. j - 1 = i <=> ~(i + 1 < j)
    BY <2>1, <2>3
  <2>6. d.text = s
    BY DEF NewDocument
  <2>7. /\ PositionAt(d, Offset(s, i)) = CaretPosition(s, i)
        /\ PositionAt(d, Offset(s, j - 1)) = CaretPosition(s, j - 1)
        /\ Slice(s, Offset(s, i), Offset(s, j - 1)) = SubSeq(s, i + 1, j - 1)
    BY <2>3, PositionAtOffset, SliceOfOffsets
  <2> HIDE DEF d
  <2>8. RegionFromMacro(d, ByteOf(s, i), ByteOf(s, j)) =
          IF Offset(s, j - 1) = Offset(s, i) THEN {}
          ELSE {[text |-> Slice(d.text, Offset(s, i), Offset(s, j - 1)),
                 start |-> PositionAt(d, Offset(s, i)),
                 end |-> PositionAt(d, Offset(s, j - 1))]}
    BY <2>2 DEF RegionFromMacro
  <2> QED
    BY <2>4, <2>5, <2>6, <2>7, <2>8 DEF RegionAt
<1> HIDE DEF d, tree, opening, Closing
<1>8. r \in Extract(d, tree) <=> \E b \in opening : r \in RegionFromMacro(d, b, Closing(b))
  BY <1>1
<1>9. ASSUME NEW b \in opening, r \in RegionFromMacro(d, b, Closing(b))
      PROVE  \E i, j : IsLiteral(s, i, j) /\ i + 1 < j /\ r = RegionAt(s, i, j)
  <2>1. PICK i, j : IsLiteral(s, i, j) /\ b = ByteOf(s, i)
    BY <1>6
  <2>2. r \in RegionFromMacro(d, ByteOf(s, i), ByteOf(s, j))
    BY <1>5, <1>9, <2>1
  <2> QED
    BY <1>7, <2>1, <2>2
<1>10. ASSUME NEW i, NEW j, IsLiteral(s, i, j), i + 1 < j, r = RegionAt(s, i, j)
       PROVE  \E b \in opening : r \in RegionFromMacro(d, b, Closing(b))
  BY <1>5, <1>7, <1>10
<1> QED
  BY <1>8, <1>9, <1>10 DEF d, tree
-----------------------------------------------------------------------------
(* The segments of the regions, where they are in the host.                   *)
LEMMA LiteralFacts ==
  ASSUME NEW s \in Texts, NEW i, NEW j, IsLiteral(s, i, j)
  PROVE  /\ i \in Nat /\ j \in Nat /\ i < j /\ i \in 1..Len(s) /\ j \in 1..Len(s)
         /\ s[i] = "q" /\ s[j] = "q"
<1>1. i \in Quotes(s) /\ j \in Quotes(s) /\ i < j
  BY DEF IsLiteral
<1> QED
  BY <1>1, QuotesFacts

HasNoQuotes(u) == \A m \in 1..Len(u) : u[m] # "q"

Region(s, i, j) == SubSeq(s, i + 1, j - 1)

LEMMA RegionText ==
  ASSUME NEW s \in Texts, NEW i, NEW j, IsLiteral(s, i, j)
  PROVE  /\ i \in 0..Len(s) /\ j - 1 \in i..Len(s)
         /\ Region(s, i, j) \in Texts
         /\ Len(Region(s, i, j)) = (j - 1) - i
         /\ \A m \in 1..((j - 1) - i) : Region(s, i, j)[m] = s[i + m]
         /\ HasNoQuotes(Region(s, i, j))
<1> DEFINE u == SubSeq(s, i + 1, j - 1)
<1>1. i \in Quotes(s) /\ j \in Quotes(s) /\ i < j /\ \A k \in Quotes(s) : k <= i \/ j <= k
  BY DEF IsLiteral
<1>2. i \in 1..Len(s) /\ j \in 1..Len(s) /\ Len(s) \in Nat
  BY <1>1, QuotesFacts DEF Texts
<1>3. i \in 0..Len(s) /\ j - 1 \in i..Len(s)
  BY <1>1, <1>2
<1>4. u \in Texts /\ Len(u) = (j - 1) - i /\ \A m \in 1..((j - 1) - i) : u[m] = s[i + m]
  BY <1>3, PartFacts
<1>5. ASSUME NEW m \in 1..((j - 1) - i) PROVE s[i + m] # "q"
  <2>1. i + m \in 1..Len(s) /\ ~(i + m <= i) /\ ~(j <= i + m)
    BY <1>1, <1>2
  <2> QED
    BY <1>1, <2>1, QuotesFacts
<1> HIDE DEF u
<1>6. \A m \in 1..((j - 1) - i) : u[m] = s[i + m] /\ u[m] # "q"
  BY <1>4, <1>5
<1> QED
  BY <1>3, <1>4, <1>6 DEF u, Region, HasNoQuotes

(* In a text without quotes, words are all there is.                          *)
LEMMA PlainClass ==
  ASSUME NEW u \in Texts, HasNoQuotes(u), NEW kd, NEW m \in 1..Len(u)
  PROVE  Unbroken(u, ClassOf(kd, u))[m] = IF Word(u[m]) THEN kd ELSE None
<1>1. Quotes(u) = {}
  BY QuotesFacts DEF HasNoQuotes
<1>2. Literals(u) = {}
  BY <1>1 DEF Literals
<1>3. Quotes(Before(u, m)) = {}
  <2>1. 0 \in 0..Len(u) /\ m \in 0..Len(u) /\ 0 + 1 = 1 /\ m - 0 = m
        /\ \A k \in 1..m : 0 + k = k /\ k \in 1..Len(u)
    BY DEF Texts
  <2>2. Before(u, m) \in Texts /\ Len(Before(u, m)) = m /\ \A k \in 1..m : Before(u, m)[k] = u[k]
    BY <2>1, PartFacts DEF Before
  <2> QED
    BY <2>1, <2>2, QuotesFacts DEF HasNoQuotes
<1>4. Cardinality(Quotes(Before(u, m))) = 0
  BY <1>3, FS_EmptySet
<1>5. ClassAt(u, kd, m) = IF Word(u[m]) THEN kd ELSE None
  <2>1. ~\E l \in Literals(u) : l[1] <= m /\ m <= l[2]
    BY <1>2
  <2>2. 0 % 2 = 0
    OBVIOUS
  <2> QED
    BY <1>4, <2>1, <2>2 DEF ClassAt
<1>6. u[m] = "n" => ~Word(u[m])
  BY DEF Word
<1> QED
  BY <1>5, <1>6 DEF Unbroken, ClassOf

(* A run of a region is one of the host, and the other way around.             *)
LEMMA RegionRuns ==
  ASSUME NEW s, NEW u, NEW n \in Nat, NEW i \in Nat, NEW size \in Nat,
         Len(u) = n, Len(s) = size, i + n < size,
         NEW c, NEW cu, c[i] = None, c[i + n + 1] = None,
         \A m \in 1..n : cu[m] = c[i + m],
         NEW a \in 0..n, NEW b \in 0..n, NEW k
  PROVE  IsRun(u, cu, a, b, k) <=> IsRun(s, c, i + a, i + b, k)
<1>1. a \in Nat /\ b \in Nat /\ i + a \in 0..size /\ i + b \in 0..size
      /\ (a < b <=> i + a < i + b)
  OBVIOUS
<1>2. (\A m \in (a + 1)..b : cu[m] = k) <=> (\A m \in (i + a + 1)..(i + b) : c[m] = k)
  <2>1. \A m \in (a + 1)..b : m \in 1..n /\ i + m \in (i + a + 1)..(i + b)
    BY <1>1
  <2>2. \A m \in (i + a + 1)..(i + b) : m - i \in 1..n /\ m - i \in (a + 1)..b /\ i + (m - i) = m
    BY <1>1
  <2> QED
    BY <2>1, <2>2
<1>3. k # None => ((a = 0 \/ cu[a] # k) <=> (i + a = 0 \/ c[i + a] # k))
  <2>1. CASE a = 0
    BY <2>1
  <2>2. CASE a # 0
    <3>1. a \in 1..n /\ i + a # 0
      BY <2>2
    <3> QED
      BY <2>2, <3>1
  <2> QED
    BY <2>1, <2>2
<1>4. k # None => ((b = n \/ cu[b + 1] # k) <=> (i + b = size \/ c[i + b + 1] # k))
  <2>1. CASE b = n
    BY <2>1
  <2>2. CASE b # n
    <3>1. b + 1 \in 1..n /\ i + (b + 1) = i + b + 1 /\ i + b # size
      BY <2>2
    <3> QED
      BY <2>2, <3>1
  <2> QED
    BY <2>1, <2>2
<1> QED
  BY <1>1, <1>2, <1>3, <1>4 DEF IsRun

Hosted(g, start) ==
  [g EXCEPT !.line = @ + start.line,
            !.start = IF g.line = 0 THEN @ + start.character ELSE @]

LEMMA HostedFields ==
  ASSUME NEW line, NEW start, NEW length, NEW class, NEW l, NEW character
  PROVE  Hosted([line |-> line, start |-> start, length |-> length, class |-> class],
                [line |-> l, character |-> character]) =
           [line |-> line + l, start |-> IF line = 0 THEN start + character ELSE start,
            length |-> length, class |-> class]
<1> DEFINE g == [line |-> line, start |-> start, length |-> length, class |-> class]
           p == [line |-> l, character |-> character]
<1>1. g.line = line /\ g.start = start /\ g.length = length /\ g.class = class
      /\ p.line = l /\ p.character = character
      /\ DOMAIN g = {"line", "start", "length", "class"}
  OBVIOUS
<1>2. g = [f \in {"line", "start", "length", "class"} |-> g[f]]
  OBVIOUS
<1> HIDE DEF g, p
<1>3. Hosted(g, p) = [f \in {"line", "start", "length", "class"} |->
                        IF f = "start" THEN (IF g.line = 0 THEN g.start + p.character ELSE g.start)
                        ELSE IF f = "line" THEN g.line + p.line ELSE g[f]]
  BY <1>1, <1>2 DEF Hosted
<1>4. Hosted(g, p) = [line |-> line + l, start |-> IF line = 0 THEN start + character ELSE start,
                      length |-> length, class |-> class]
  BY <1>1, <1>3
<1> QED
  BY <1>4 DEF g, p

IsPart(s, i, z, u) == u = SubSeq(s, i + 1, z)

LEMMA HostedSeg ==
  ASSUME NEW s \in Texts, NEW i \in 0..Len(s), NEW z \in i..Len(s),
         NEW u, IsPart(s, i, z, u), NEW a \in 0..(z - i), NEW b \in 0..(z - i), NEW k,
         LinesBefore(u, a) = LinesBefore(u, b)
  PROVE  Hosted(Seg(u, a, b, k), CaretPosition(s, i)) = Seg(s, i + a, i + b, k)
<1> DEFINE shift == IF LinesBefore(u, a) = 0 THEN Column(s, i, i) ELSE 0
<1>0. u = SubSeq(s, i + 1, z)
  BY DEF IsPart
<1>1. u \in Texts /\ Len(u) = z - i
  BY <1>0, PartFacts
<1>2. /\ LinesBefore(s, i + a) = LinesBefore(u, a) + LinesBefore(s, i)
      /\ Column(s, i + a, i + a) = Column(u, a, a) + shift
      /\ Column(s, i + b, i + b) = Column(u, b, b) + shift
  BY <1>0, PartCarets
<1>3. /\ Column(u, a, a) \in Nat /\ Column(u, b, b) \in Nat /\ Column(s, i, i) \in Nat
      /\ CaretPosition(s, i) = [line |-> LinesBefore(s, i), character |-> Column(s, i, i)]
  BY <1>1, CaretFacts
<1>4. shift \in Nat
  BY <1>3
<1> DEFINE g == Seg(u, a, b, k)
<1>5. g = [line |-> LinesBefore(u, a), start |-> Column(u, a, a),
           length |-> Column(u, b, b) - Column(u, a, a), class |-> k]
  BY DEF Seg
<1> HIDE DEF g
<1>6. Hosted(g, CaretPosition(s, i)) =
        [line |-> LinesBefore(u, a) + LinesBefore(s, i),
         start |-> IF LinesBefore(u, a) = 0 THEN Column(u, a, a) + Column(s, i, i)
                                            ELSE Column(u, a, a),
         length |-> Column(u, b, b) - Column(u, a, a), class |-> k]
  BY <1>3, <1>5, HostedFields
<1>7. (IF LinesBefore(u, a) = 0 THEN Column(u, a, a) + Column(s, i, i) ELSE Column(u, a, a))
        = Column(s, i + a, i + a)
  BY <1>2, <1>3
<1>8. Column(u, b, b) - Column(u, a, a) = Column(s, i + b, i + b) - Column(s, i + a, i + a)
  <2> HIDE DEF shift
  <2> QED
    BY <1>2, <1>3, <1>4
<1> QED
  BY <1>2, <1>6, <1>7, <1>8 DEF Seg, g

(* What is on the screen of a Rust source.                                    *)
Within(s, m) == \E i, j : IsLiteral(s, i, j) /\ i < m /\ m < j

IsRust(about, s) ==
  /\ about.text = s /\ about.language # "sql"
  /\ about.kind # "literal" /\ None # "literal"

LEMMA RustScreen ==
  ASSUME NEW about, NEW s \in Texts, IsRust(about, s),
         NEW m \in 1..Len(s)
  PROVE  ScreenOf(about)[m] = IF Word(s[m]) /\ Within(s, m) THEN about.kind ELSE None
<1>1. m \in Nat /\ Len(s) \in Nat
  BY DEF Texts
<1>2. ClassAt(s, about.kind, m) = "literal" <=> \E l \in Literals(s) : l[1] <= m /\ m <= l[2]
  BY DEF ClassAt, IsRust
<1>3. Word(s[m]) => ((\E l \in Literals(s) : l[1] <= m /\ m <= l[2]) <=> Within(s, m))
  <2> SUFFICES ASSUME Word(s[m])
               PROVE  (\E l \in Literals(s) : l[1] <= m /\ m <= l[2]) <=> Within(s, m)
    OBVIOUS
  <2>1. ASSUME NEW l \in Literals(s), l[1] <= m, m <= l[2] PROVE Within(s, m)
    <3>1. PICK i, j : IsLiteral(s, i, j) /\ l = <<i, j>>
      BY LiteralsFacts
    <3>2. s[i] = "q" /\ s[j] = "q" /\ i \in Nat /\ j \in Nat
      BY <3>1, LiteralFacts
    <3>3. i # m /\ j # m
      BY <3>2 DEF Word
    <3>4. i <= m /\ m <= j
      BY <2>1, <3>1
    <3>5. i < m /\ m < j
      BY <1>1, <3>2, <3>3, <3>4
    <3> QED
      BY <3>1, <3>5 DEF Within
  <2>2. ASSUME Within(s, m) PROVE \E l \in Literals(s) : l[1] <= m /\ m <= l[2]
    <3>1. PICK i, j : IsLiteral(s, i, j) /\ i < m /\ m < j
      BY <2>2 DEF Within
    <3>2. <<i, j>> \in Literals(s)
      BY <3>1, LiteralsFacts
    <3>3. i \in Nat /\ j \in Nat
      BY <3>1, LiteralFacts
    <3>4. <<i, j>>[1] <= m /\ m <= <<i, j>>[2]
      BY <1>1, <3>1, <3>3
    <3> QED
      BY <3>2, <3>4
  <2> QED
    BY <2>1, <2>2
<1>4. s[m] = "n" => ~Word(s[m])
  BY DEF Word
<1> QED
  BY <1>2, <1>3, <1>4 DEF ScreenOf, ScreenAt, IsRust

LEMMA RegionScreen ==
  ASSUME NEW about, NEW s \in Texts, IsRust(about, s),
         NEW i, NEW j, IsLiteral(s, i, j)
  PROVE  /\ ScreenOf(about)[i] = None /\ ScreenOf(about)[j] = None
         /\ \A m \in 1..((j - 1) - i) :
              Unbroken(Region(s, i, j), ClassOf(about.kind, Region(s, i, j)))[m] =
                ScreenOf(about)[i + m]
<1> DEFINE u == Region(s, i, j)
<1>1. /\ i \in 1..Len(s) /\ j \in 1..Len(s) /\ i < j
      /\ s[i] = "q" /\ s[j] = "q"
      /\ u \in Texts /\ Len(u) = (j - 1) - i
      /\ HasNoQuotes(u)
      /\ \A m \in 1..((j - 1) - i) : u[m] = s[i + m]
  BY LiteralFacts, RegionText
<1> HIDE DEF u
<1>2. ScreenOf(about)[i] = None /\ ScreenOf(about)[j] = None
  BY <1>1, RustScreen DEF Word
<1>3. ASSUME NEW m \in 1..((j - 1) - i)
      PROVE  Unbroken(u, ClassOf(about.kind, u))[m] = ScreenOf(about)[i + m]
  <2>1. i + m \in 1..Len(s) /\ i < i + m /\ i + m < j
    BY <1>1 DEF Texts
  <2>2. Within(s, i + m)
    BY <2>1 DEF Within
  <2>3. Unbroken(u, ClassOf(about.kind, u))[m] = IF Word(u[m]) THEN about.kind ELSE None
    BY <1>1, PlainClass
  <2> QED
    BY <1>1, <2>1, <2>2, <2>3, RustScreen
<1> QED
  BY <1>2, <1>3 DEF u

(* A piece lies on one line.                                                 *)
LEMMA PieceOnALine ==
  ASSUME NEW u \in Texts, NEW c, NEW a, NEW b, NEW k, IsRun(u, Unbroken(u, c), a, b, k)
  PROVE  a \in 0..Len(u) /\ b \in a..Len(u) /\ a < b /\ LinesBefore(u, a) = LinesBefore(u, b)
<1>1. PICK f, t : IsRun(u, c, f, t, k) /\ IsCut(u, f, t, a, b)
  BY PieceIsCut
<1> QED
  BY <1>1 DEF IsRun, IsCut, Texts

LEMMA RegionsAreShown ==
  ASSUME NEW about, NEW s \in Texts, IsRust(about, s), NEW g
  PROVE  g \in RegionSegments(Extract(NewDocument(s), Nodes(NewDocument(s))), about.kind) <=>
           Shows(s, ScreenOf(about), g)
<1> DEFINE kd == about.kind
           c == ScreenOf(about)
           regions == Extract(NewDocument(s), Nodes(NewDocument(s)))
           Host(r) == {Hosted(h, r.start) : h \in Segments(NewDocument(r.text), Parse(kd, r.text))}
<1>1. RegionSegments(regions, kd) = UNION {Host(r) : r \in regions}
  BY DEF RegionSegments, Hosted
<1>2. \A r : r \in regions <=> \E i, j : IsLiteral(s, i, j) /\ i + 1 < j /\ r = RegionAt(s, i, j)
  BY Extracted
<1> HIDE DEF regions, c, kd
<1>3. ASSUME NEW i, NEW j, IsLiteral(s, i, j), NEW u, u = Region(s, i, j), NEW cu,
             cu = Unbroken(u, ClassOf(kd, u)), NEW a, NEW b, NEW k,
             a \in 0..((j - 1) - i), b \in 0..((j - 1) - i)
      PROVE  IsRun(u, cu, a, b, k) <=> IsRun(s, c, i + a, i + b, k)
  <2> DEFINE n == (j - 1) - i
  <2>1. /\ i \in 1..Len(s) /\ j \in 1..Len(s) /\ i < j /\ Len(u) = n
    BY <1>3, LiteralFacts, RegionText
  <2>2. /\ i \in Nat /\ n \in Nat /\ Len(s) \in Nat /\ i + n < Len(s) /\ i + n + 1 = j
    BY <2>1 DEF Texts
  <2>3. c[i] = None /\ c[j] = None /\ \A m \in 1..n : cu[m] = c[i + m]
    BY <1>3, RegionScreen DEF c, kd
  <2>4. a \in 0..n /\ b \in 0..n
    BY <1>3
  <2> HIDE DEF n
  <2> QED
    BY <2>1, <2>2, <2>3, <2>4, RegionRuns
<1>4. ASSUME NEW i, NEW j, IsLiteral(s, i, j), i + 1 < j, NEW u, u = Region(s, i, j),
             NEW a, NEW b, NEW k, IsRun(u, Unbroken(u, ClassOf(kd, u)), a, b, k)
      PROVE  Hosted(Seg(u, a, b, k), CaretPosition(s, i)) = Seg(s, i + a, i + b, k)
             /\ IsRun(s, c, i + a, i + b, k)
  <2>1. /\ u \in Texts /\ Len(u) = (j - 1) - i /\ i \in 0..Len(s) /\ j - 1 \in i..Len(s)
        /\ u = SubSeq(s, i + 1, j - 1)
    BY <1>4, RegionText DEF Region
  <2>2. /\ a \in 0..Len(u) /\ b \in 0..Len(u) /\ LinesBefore(u, a) = LinesBefore(u, b)
    <3>1. /\ a \in 0..Len(u) /\ b \in a..Len(u) /\ LinesBefore(u, a) = LinesBefore(u, b)
      BY <1>4, <2>1, PieceOnALine, ZenonT(30)
    <3> QED
      BY <3>1
  <2>3. Hosted(Seg(u, a, b, k), CaretPosition(s, i)) = Seg(s, i + a, i + b, k)
    <3> DEFINE z == j - 1
    <3>1. /\ a \in 0..(z - i) /\ b \in 0..(z - i) /\ i \in 0..Len(s) /\ z \in i..Len(s)
          /\ IsPart(s, i, z, u)
      BY <2>1, <2>2 DEF IsPart
    <3> HIDE DEF z
    <3> QED
      BY <2>2, <3>1, HostedSeg
  <2>4. IsRun(s, c, i + a, i + b, k)
    BY <1>3, <1>4, <2>1, <2>2
  <2> QED
    BY <2>3, <2>4
<1>5. ASSUME NEW r \in regions, g \in Host(r) PROVE Shows(s, c, g)
  <2>1. PICK i, j : IsLiteral(s, i, j) /\ i + 1 < j /\ r = RegionAt(s, i, j)
    BY <1>2
  <2> DEFINE u == Region(s, i, j)
  <2>2. r.text = u /\ r.start = CaretPosition(s, i)
    BY <2>1 DEF RegionAt, Region
  <2>3. u \in Texts
    BY <2>1, RegionText
  <2> HIDE DEF u
  <2>4. PICK h : h \in Segments(NewDocument(u), Parse(kd, u)) /\ g = Hosted(h, CaretPosition(s, i))
    BY <1>5, <2>2
  <2>5. PICK a, b, k : IsRun(u, Unbroken(u, ClassOf(kd, u)), a, b, k) /\ h = Seg(u, a, b, k)
    BY <2>3, <2>4, SegmentsArePieces
  <2>6. g = Seg(s, i + a, i + b, k) /\ IsRun(s, c, i + a, i + b, k)
    BY <1>4, <2>1, <2>4, <2>5 DEF u
  <2> QED
    BY <2>6 DEF Shows
<1>6. ASSUME NEW a, NEW b, NEW k, IsRun(s, c, a, b, k), g = Seg(s, a, b, k)
      PROVE  \E r \in regions : g \in Host(r)
  <2>1. /\ a \in Nat /\ b \in Nat /\ Len(s) \in Nat /\ a < b /\ b <= Len(s) /\ k # None
        /\ \A m \in (a + 1)..b : c[m] = k
    BY <1>6 DEF IsRun, Texts
  <2>2. \A m \in (a + 1)..b : m \in 1..Len(s)
    BY <2>1
  <2>3. PICK i, j : IsLiteral(s, i, j) /\ i < a + 1 /\ a + 1 < j
    <3>1. a + 1 \in (a + 1)..b
      BY <2>1
    <3>2. Within(s, a + 1)
      BY <2>1, <2>2, <3>1, RustScreen DEF c
    <3> QED
      BY <3>2 DEF Within
  <2> DEFINE u == Region(s, i, j)
             r == RegionAt(s, i, j)
  <2>4. /\ i \in Nat /\ j \in Nat /\ i < j /\ u \in Texts /\ Len(u) = (j - 1) - i
    BY <2>3, LiteralFacts, RegionText
  <2>5. c[j] = None
    BY <2>3, RegionScreen DEF c
  <2>6. b < j
    <3>1. SUFFICES ASSUME j <= b PROVE FALSE
      BY <2>1, <2>4
    <3>2. j \in (a + 1)..b
      BY <2>1, <2>3, <2>4, <3>1
    <3> QED
      BY <2>1, <2>5, <3>2
  <2>7. /\ a - i \in 0..((j - 1) - i) /\ b - i \in 0..((j - 1) - i)
        /\ i + (a - i) = a /\ i + (b - i) = b /\ i + 1 < j
    BY <2>1, <2>3, <2>4, <2>6
  <2>8. r \in regions /\ r.text = u /\ r.start = CaretPosition(s, i)
    BY <1>2, <2>3, <2>7 DEF RegionAt, Region
  <2> HIDE DEF u, r
  <2>9. IsRun(u, Unbroken(u, ClassOf(kd, u)), a - i, b - i, k)
    <3>1. IsRun(u, Unbroken(u, ClassOf(kd, u)), a - i, b - i, k) <=>
            IsRun(s, c, i + (a - i), i + (b - i), k)
      BY <1>3, <2>3, <2>7 DEF u
    <3> QED
      BY <1>6, <2>7, <3>1
  <2>10. Seg(u, a - i, b - i, k) \in Segments(NewDocument(u), Parse(kd, u))
    BY <2>4, <2>9, SegmentsArePieces
  <2>11. Hosted(Seg(u, a - i, b - i, k), CaretPosition(s, i)) = g
    <3>1. Hosted(Seg(u, a - i, b - i, k), CaretPosition(s, i)) =
            Seg(s, i + (a - i), i + (b - i), k)
      BY <1>4, <2>3, <2>7, <2>9 DEF u
    <3> QED
      BY <1>6, <2>7, <3>1
  <2> QED
    BY <2>8, <2>10, <2>11
<1>7. g \in UNION {Host(r) : r \in regions} <=> \E r \in regions : g \in Host(r)
  <2> HIDE DEF Host
  <2> QED
    OBVIOUS
<1> HIDE DEF Host
<1> QED
  BY <1>1, <1>5, <1>6, <1>7 DEF Shows, regions, c, kd
-----------------------------------------------------------------------------
(* The stream of a document.                                                 *)
LEMMA ShownOnce ==
  ASSUME NEW s \in Texts, NEW c,
         NEW a, NEW b, NEW k, IsRun(s, c, a, b, k),
         NEW p, NEW q, NEW l, IsRun(s, c, p, q, l),
         LinesBefore(s, a) = LinesBefore(s, p), Column(s, a, a) = Column(s, p, p)
  PROVE  a = p /\ b = q /\ k = l
<1>1. /\ a \in 0..Len(s) /\ b \in 0..Len(s) /\ p \in 0..Len(s) /\ q \in 0..Len(s)
      /\ a < b /\ p < q /\ Len(s) \in Nat
      /\ \A m \in (a + 1)..b : c[m] = k
      /\ \A m \in (p + 1)..q : c[m] = l
      /\ b = Len(s) \/ c[b + 1] # k
      /\ q = Len(s) \/ c[q + 1] # l
  BY DEF IsRun, Texts
<1>2. a = p
  BY <1>1, CaretsDiffer
<1>3. k = l
  <2>1. a + 1 \in (a + 1)..b /\ a + 1 \in (p + 1)..q
    BY <1>1, <1>2
  <2> QED
    BY <1>1, <2>1
<1>4. ~(b < q)
  <2>1. SUFFICES ASSUME b < q PROVE FALSE
    OBVIOUS
  <2>2. b + 1 \in (p + 1)..q /\ b # Len(s)
    BY <1>1, <1>2, <2>1
  <2> QED
    BY <1>1, <1>3, <2>2
<1>5. ~(q < b)
  <2>1. SUFFICES ASSUME q < b PROVE FALSE
    OBVIOUS
  <2>2. q + 1 \in (a + 1)..b /\ q # Len(s)
    BY <1>1, <1>2, <2>1
  <2> QED
    BY <1>1, <1>3, <2>2
<1>6. b = q
  BY <1>1, <1>4, <1>5
<1> QED
  BY <1>2, <1>3, <1>6

LEMMA ShownSegment ==
  ASSUME NEW s \in Texts, NEW a \in 0..Len(s), NEW b, NEW k
  PROVE  /\ IsSegment(Seg(s, a, b, k))
         /\ Seg(s, a, b, k).line = LinesBefore(s, a)
         /\ Seg(s, a, b, k).start = Column(s, a, a)
BY CaretFacts DEF IsSegment, Seg

(* Of what is shown of a text no two segments begin at one place.             *)
LEMMA ShownArePlaced ==
  ASSUME NEW s \in Texts, NEW c, NEW G, \A g : g \in G <=> Shows(s, c, g)
  PROVE  ArePlaced(G)
<1>1. Len(s) \in Nat
  BY DEF Texts
<1>2. \A g \in G : IsSegment(g)
  <2> TAKE g \in G
  <2>1. PICK a, b, k : IsRun(s, c, a, b, k) /\ g = Seg(s, a, b, k)
    BY DEF Shows
  <2>2. a \in 0..Len(s)
    BY <2>1 DEF IsRun
  <2> QED
    BY <2>1, <2>2, ShownSegment
<1>3. ASSUME NEW g \in G, NEW h \in G, g.line = h.line, g.start = h.start PROVE g = h
  <2>1. PICK a, b, k : IsRun(s, c, a, b, k) /\ g = Seg(s, a, b, k)
    BY DEF Shows
  <2>2. PICK p, q, l : IsRun(s, c, p, q, l) /\ h = Seg(s, p, q, l)
    BY DEF Shows
  <2>3. a \in 0..Len(s) /\ p \in 0..Len(s)
    BY <2>1, <2>2 DEF IsRun
  <2>4. LinesBefore(s, a) = LinesBefore(s, p) /\ Column(s, a, a) = Column(s, p, p)
    BY <1>3, <2>1, <2>2, <2>3, ShownSegment
  <2>5. a = p /\ b = q /\ k = l
    BY <2>1, <2>2, <2>4, ShownOnce
  <2> QED
    BY <2>1, <2>2, <2>5
<1>4. IsFiniteSet(G)
  <2> DEFINE A == {a \in 0..Len(s) : \E b, k : IsRun(s, c, a, b, k)}
             At(a, g) == \E b, k : IsRun(s, c, a, b, k) /\ g = Seg(s, a, b, k)
             f == [a \in A |-> CHOOSE g : At(a, g)]
  <2>1. IsFiniteSet(A)
    <3>1. IsFiniteSet(0..Len(s))
      BY <1>1, FS_Interval
    <3> QED
      BY <3>1, FS_Subset
  <2>2. ASSUME NEW a \in A PROVE At(a, f[a])
    <3>1. \E g : At(a, g)
      OBVIOUS
    <3> HIDE DEF At, A
    <3> QED
      BY <3>1
  <2>3. ASSUME NEW a \in A PROVE f[a] \in G
    BY <2>2 DEF Shows
  <2>4. ASSUME NEW g \in G PROVE \E a \in A : f[a] = g
    <3>1. PICK a, b, k : IsRun(s, c, a, b, k) /\ g = Seg(s, a, b, k)
      BY DEF Shows
    <3>2. a \in A
      BY <3>1 DEF IsRun
    <3>3. PICK q, l : IsRun(s, c, a, q, l) /\ f[a] = Seg(s, a, q, l)
      BY <2>2, <3>2
    <3>4. b = q /\ k = l
      BY <3>1, <3>3, ShownOnce
    <3> QED
      BY <3>1, <3>2, <3>3, <3>4
  <2>5. f \in Surjection(A, G)
    <3>1. DOMAIN f = A /\ f = [a \in A |-> f[a]]
      OBVIOUS
    <3> HIDE DEF f, A
    <3> QED
      BY <2>3, <2>4, <3>1 DEF Surjection
  <2> HIDE DEF f, A
  <2> QED
    BY <2>1, <2>5, FS_Surjection
<1> QED
  BY <1>2, <1>3, <1>4 DEF ArePlaced

(* The analyses that a document keeps are those of its text.                  *)
IsFresh(o) ==
  /\ o.parsedSql # None => o.parsedSql.tokens = Parse(o.parsedSql.kind, o.document.text)
  /\ o.extracted # None => o.extracted = Extract(o.document, Nodes(o.document))

LEMMA ParsedAnew ==
  ASSUME NEW d, NEW tree, tree # None => tree \subseteq Nodes(d)
  PROVE  ParseRust(d, tree) = Nodes(d)
<1> DEFINE kept == IF tree = None THEN {} ELSE tree
<1>1. kept \subseteq Nodes(d)
  OBVIOUS
<1>2. \A m, n \in Nodes(d) : m.byte = n.byte => m = n
  BY DEF Nodes
<1>3. ParseRust(d, tree) = kept \cup {n \in Nodes(d) : \A m \in kept : m.byte # n.byte}
  BY DEF ParseRust
<1> HIDE DEF kept
<1> QED
  BY <1>1, <1>2, <1>3

LEMMA AnalysedIsFresh ==
  ASSUME NEW o, NEW s, IsDocumentOf(o, s), IsFresh(o)
  PROVE  /\ IsFresh(Analysed(o))
         /\ Analysed(o).language = o.language
         /\ Analysed(o).lastTokens = o.lastTokens
         /\ o.language = "sql" => Analysed(o).parsedSql.tokens = Parse(kind, s)
         /\ o.language # "sql" =>
              Analysed(o).extracted = Extract(NewDocument(s), Nodes(NewDocument(s)))
<1>0. DOMAIN o = Fields /\ o.document = NewDocument(s) /\ o.document.text = s
  BY DEF IsDocumentOf, NewDocument
<1>1. CASE o.language = "sql"
  <2> DEFINE parsed == [kind |-> kind, tokens |-> Parse(kind, o.document.text)]
  <2>1. Analysed(o) = IF o.parsedSql # None /\ o.parsedSql.kind = kind THEN o
                      ELSE [o EXCEPT !.parsedSql = parsed]
    BY <1>1 DEF Analysed
  <2>2. parsed.kind = kind /\ parsed.tokens = Parse(kind, o.document.text)
    OBVIOUS
  <2> HIDE DEF parsed
  <2>3. CASE o.parsedSql # None /\ o.parsedSql.kind = kind
    BY <1>0, <1>1, <2>1, <2>3 DEF IsFresh
  <2>4. CASE ~(o.parsedSql # None /\ o.parsedSql.kind = kind)
    <3> DEFINE u == [o EXCEPT !.parsedSql = parsed]
    <3>1. /\ u.parsedSql = parsed /\ u.document = o.document /\ u.extracted = o.extracted
          /\ u.language = o.language /\ u.lastTokens = o.lastTokens
      BY <1>0 DEF Fields
    <3>2. Analysed(o) = u
      BY <2>1, <2>4
    <3> HIDE DEF u
    <3> QED
      BY <1>0, <1>1, <2>2, <3>1, <3>2 DEF IsFresh
  <2> QED
    BY <2>3, <2>4
<1>2. CASE o.language # "sql"
  <2> DEFINE tree == ParseRust(o.document, o.tree)
             u == [o EXCEPT !.tree = tree, !.extracted = Extract(o.document, tree)]
  <2>1. Analysed(o) = IF o.extracted # None THEN o ELSE u
    BY <1>2 DEF Analysed
  <2>2. tree = Nodes(o.document)
    BY ParsedAnew DEF IsDocumentOf
  <2>3. /\ u.extracted = Extract(o.document, tree) /\ u.document = o.document
        /\ u.parsedSql = o.parsedSql
        /\ u.language = o.language /\ u.lastTokens = o.lastTokens
    BY <1>0 DEF Fields
  <2> HIDE DEF u, tree
  <2> QED
    BY <1>0, <1>2, <2>1, <2>2, <2>3 DEF IsFresh
<1> QED
  BY <1>1, <1>2

LEMMA SqlScreen ==
  ASSUME NEW about, NEW s \in Texts, about.text = s, about.language = "sql"
  PROVE  ScreenOf(about) = Unbroken(s, ClassOf(about.kind, s))
<1>1. ASSUME NEW i \in 1..Len(s)
      PROVE  ScreenAt(about, i) =
               IF s[i] = "n" THEN None ELSE ClassOf(about.kind, s)[i]
  BY DEF ScreenAt, ClassOf
<1> QED
  BY <1>1 DEF ScreenOf, Unbroken

(* The tokens of a document are what the client sees of its text.             *)
LEMMA SegmentsAreShown ==
  ASSUME NEW o, NEW s, IsDocumentOf(o, s), IsFresh(o), kind \in Kinds,
         NEW about, about = [text |-> s, language |-> o.language, kind |-> kind]
  PROVE  /\ ArePlaced(SegmentsOf(o))
         /\ SegmentsOf(o) = {OnScreen(about, piece) : piece \in Pieces(about)}
<1>1. /\ s \in Texts /\ o.document = NewDocument(s)
      /\ about.text = s /\ about.language = o.language /\ about.kind = kind
  BY DEF IsDocumentOf
<1>2. \A g : g \in SegmentsOf(o) <=> Shows(s, ScreenOf(about), g)
  <2> TAKE g
  <2>1. CASE o.language = "sql"
    <3>1. SegmentsOf(o) = Segments(NewDocument(s), Parse(kind, s))
      BY <1>1, <2>1, AnalysedIsFresh DEF SegmentsOf
    <3>2. ScreenOf(about) = Unbroken(s, ClassOf(kind, s))
      BY <1>1, <2>1, SqlScreen
    <3> QED
      BY <1>1, <3>1, <3>2, SegmentsArePieces DEF Shows
  <2>2. CASE o.language # "sql"
    <3>1. SegmentsOf(o) =
            RegionSegments(Extract(NewDocument(s), Nodes(NewDocument(s))), about.kind)
      BY <1>1, <2>2, AnalysedIsFresh DEF SegmentsOf
    <3>2. IsRust(about, s)
      BY <1>1, <2>2, DocumentAssumption DEF IsRust, DocumentAssumption
    <3> QED
      BY <1>1, <3>1, <3>2, RegionsAreShown
  <2> QED
    BY <2>1, <2>2
<1>3. ArePlaced(SegmentsOf(o))
  BY <1>1, <1>2, ShownArePlaced
<1>4. \A g : g \in {OnScreen(about, piece) : piece \in Pieces(about)} <=>
               Shows(s, ScreenOf(about), g)
  BY <1>1, PiecesFacts
<1>5. SegmentsOf(o) = {OnScreen(about, piece) : piece \in Pieces(about)}
  <2> DEFINE P == {OnScreen(about, piece) : piece \in Pieces(about)}
  <2>1. \A g : g \in SegmentsOf(o) <=> g \in P
    BY <1>2, <1>4
  <2> HIDE DEF P
  <2>2. SegmentsOf(o) = P
    BY <2>1
  <2> QED
    BY <2>2 DEF P
<1> QED
  BY <1>3, <1>5

LEMMA TokensAreShown ==
  ASSUME NEW o, NEW s, IsDocumentOf(o, s), IsFresh(o), kind \in Kinds,
         NEW about, about = [text |-> s, language |-> o.language, kind |-> kind]
  PROVE  /\ \E S : ComputeTokens(o) \in Seq(S)
         /\ Decode(ComputeTokens(o)) = {OnScreen(about, piece) : piece \in Pieces(about)}
<1>1. /\ ArePlaced(SegmentsOf(o))
      /\ SegmentsOf(o) = {OnScreen(about, piece) : piece \in Pieces(about)}
  BY SegmentsAreShown
<1>2. \E S : Encode(SegmentsOf(o)) \in Seq(S)
  BY <1>1, EncodeFacts
<1>3. Decode(Encode(SegmentsOf(o))) = SegmentsOf(o)
  BY <1>1, DecodeEncode
<1> QED
  BY <1>1, <1>2, <1>3 DEF ComputeTokens
-----------------------------------------------------------------------------
(* The streams that were sent.                                               *)
LEMMA ChangesKeepSent ==
  ASSUME NEW o, NEW s, IsDocumentOf(o, s), NEW changes \in Seq(Changes)
  PROVE  /\ IsFresh(Invalidate(ApplyContentChanges(o, changes)))
         /\ Invalidate(ApplyContentChanges(o, changes)).lastTokens = o.lastTokens
         /\ Invalidate(ApplyContentChanges(o, changes)).language = o.language
         /\ Invalidate(ApplyContentChanges(o, changes)).parsedSql = None
<1>1. PICK f : ApplyContentChanges(o, changes) = f[Len(changes)] /\ Applies(o, changes, f)
  BY ApplyContentChangesSteps
<1>2. Len(changes) \in Nat /\ \A i \in 1..Len(changes) : changes[i] \in Changes
  OBVIOUS
<1>3. ASSUME NEW u, DOMAIN u = Fields, NEW change
      PROVE  /\ DOMAIN ApplyContentChange(u, change) = Fields
             /\ ApplyContentChange(u, change).lastTokens = u.lastTokens
             /\ ApplyContentChange(u, change).language = u.language
  <2> DEFINE applied == ApplyChange(u.document, change.range, change.text)
             tree == IF u.tree = None THEN None ELSE TreeEdit(u.tree, applied.edit)
  <2>1. ApplyContentChange(u, change) =
          IF change.range = None
          THEN [u EXCEPT !.document = NewDocument(change.text), !.tree = None]
          ELSE [u EXCEPT !.document = applied.document, !.tree = tree]
    BY <1>3 DEF ApplyContentChange, Fields
  <2> HIDE DEF applied, tree
  <2> QED
    BY <1>3, <2>1 DEF Fields
<1> DEFINE Keeps(u) == u.lastTokens = o.lastTokens /\ u.language = o.language
           N == {n \in Nat : n <= Len(changes) =>
                   DOMAIN f[n] = Fields /\ Keeps(f[n])}
<1>4. 0 \in N
  BY <1>1 DEF Applies, IsDocumentOf
<1>5. ASSUME NEW n \in Nat, n \in N PROVE n + 1 \in N
  <2> SUFFICES ASSUME n + 1 <= Len(changes)
               PROVE  DOMAIN f[n + 1] = Fields /\ Keeps(f[n + 1])
    OBVIOUS
  <2>1. n + 1 \in 1..Len(changes) /\ (n + 1) - 1 = n
    BY <1>2
  <2>2. DOMAIN f[n] = Fields /\ Keeps(f[n])
    BY <1>2, <1>5
  <2>3. f[n + 1] = ApplyContentChange(f[n], changes[n + 1])
    BY <1>1, <2>1 DEF Applies
  <2> QED
    BY <1>3, <2>2, <2>3
<1> HIDE DEF N
<1>6. Len(changes) \in N
  BY <1>2, <1>4, <1>5, CountUp
<1> DEFINE u == ApplyContentChanges(o, changes)
<1>7. DOMAIN u = Fields /\ Keeps(u)
  BY <1>1, <1>2, <1>6 DEF N
<1> HIDE DEF u
<1>8. /\ IsFresh(Invalidate(u)) /\ Invalidate(u).lastTokens = o.lastTokens
      /\ Invalidate(u).language = o.language /\ Invalidate(u).parsedSql = None
  BY <1>7 DEF IsFresh, Invalidate, Fields
<1> QED
  BY <1>8 DEF u

LEMMA NewIsFresh ==
  ASSUME NEW s, NEW language
  PROVE  IsFresh(NewOpenDocument(s, language)) /\ NewOpenDocument(s, language).lastTokens = None
BY DEF IsFresh, NewOpenDocument

(* By the number of a stream one knows what was sent.                         *)
IsSent(sent, next, stream) ==
  /\ stream.id \in Nat /\ stream.id < next
  /\ stream.data = sent[stream.id]
  /\ \E S : stream.data \in Seq(S)

OpenSent(sent, next, o) ==
  o # None /\ o.lastTokens # None => IsSent(sent, next, o.lastTokens)
ShownSent(sent, next, stream) == stream # None => IsSent(sent, next, stream)
BasesSent(sent, next, c) ==
  \A i \in 1..Len(c) : c[i].type = "delta" => IsSent(sent, next, c[i].base)

AllSent(sent) ==
  /\ OpenSent(sent, nextTokensId, open)
  /\ ShownSent(sent, nextTokensId, shown)
  /\ BasesSent(sent, nextTokensId, channel)

StreamsFit ==
  /\ nextTokensId \in Nat
  /\ \E sent : AllSent(sent)

LEMMA BasesAppended ==
  ASSUME NEW sent, NEW next, NEW S, NEW c \in Seq(S), NEW m, BasesSent(sent, next, c),
         m.type = "delta" => IsSent(sent, next, m.base)
  PROVE  BasesSent(sent, next, Append(c, m))
<1>1. /\ Len(c) \in Nat /\ Len(Append(c, m)) = Len(c) + 1
      /\ \A i \in 1..Len(c) : Append(c, m)[i] = c[i]
      /\ Append(c, m)[Len(c) + 1] = m
  BY AppendedFacts
<1>2. \A i \in 1..(Len(c) + 1) : i \in 1..Len(c) \/ i = Len(c) + 1
  BY <1>1
<1> QED
  BY <1>1, <1>2 DEF BasesSent

LEMMA BasesRemoved ==
  ASSUME NEW sent, NEW next, NEW S, NEW c \in Seq(S), NEW i \in 1..Len(c),
         BasesSent(sent, next, c)
  PROVE  BasesSent(sent, next, RemoveAt(c, i))
<1>1. /\ Len(c) \in Nat /\ Len(RemoveAt(c, i)) = Len(c) - 1
      /\ \A k \in 1..(Len(c) - 1) : RemoveAt(c, i)[k] = IF k < i THEN c[k] ELSE c[k + 1]
  BY RemovedFacts
<1>2. \A k \in 1..(Len(c) - 1) : k \in 1..Len(c) /\ k + 1 \in 1..Len(c)
  BY <1>1
<1> QED
  BY <1>1, <1>2 DEF BasesSent

LEMMA BasesTail ==
  ASSUME NEW sent, NEW next, NEW S, NEW c \in Seq(S), c # <<>>, BasesSent(sent, next, c)
  PROVE  BasesSent(sent, next, Tail(c))
<1>1. /\ Len(c) \in Nat /\ Len(Tail(c)) = Len(c) - 1
      /\ \A k \in 1..(Len(c) - 1) : Tail(c)[k] = c[k + 1]
  BY HeadTailProperties
<1>2. \A k \in 1..(Len(c) - 1) : k + 1 \in 1..Len(c)
  BY <1>1
<1> QED
  BY <1>1, <1>2 DEF BasesSent

(* One more stream has the next number.                                       *)
LEMMA OneMoreStream ==
  ASSUME StreamsFit, NEW c, NEW stream, stream.id = nextTokensId,
         \E S : stream.data \in Seq(S),
         \A sent : BasesSent(sent, nextTokensId, channel) => BasesSent(sent, nextTokensId, c),
         NEW o, o.lastTokens = stream, NEW sh, sh = shown \/ (sh.id = stream.id /\ sh.data = stream.data)
  PROVE  \E sent : /\ OpenSent(sent, nextTokensId + 1, o)
                   /\ ShownSent(sent, nextTokensId + 1, sh)
                   /\ BasesSent(sent, nextTokensId + 1, c)
<1>1. PICK f : AllSent(f)
  BY DEF StreamsFit
<1>2. nextTokensId \in Nat
  BY DEF StreamsFit
<1> DEFINE g == [n \in Nat |-> IF n = nextTokensId THEN stream.data ELSE f[n]]
<1>3. g[nextTokensId] = stream.data /\ \A n \in Nat : n < nextTokensId => g[n] = f[n]
  BY <1>2
<1> HIDE DEF g
<1>4. \A r : IsSent(f, nextTokensId, r) => IsSent(g, nextTokensId + 1, r)
  BY <1>2, <1>3 DEF IsSent
<1>5. \A r : r.id = stream.id /\ r.data = stream.data => IsSent(g, nextTokensId + 1, r)
  BY <1>2, <1>3 DEF IsSent
<1>6. BasesSent(f, nextTokensId, c)
  BY <1>1 DEF AllSent
<1>7. BasesSent(g, nextTokensId + 1, c)
  BY <1>4, <1>6 DEF BasesSent
<1>8. OpenSent(g, nextTokensId + 1, o)
  BY <1>5 DEF OpenSent
<1>9. ShownSent(g, nextTokensId + 1, sh)
  BY <1>1, <1>4, <1>5 DEF ShownSent, AllSent
<1> QED
  BY <1>7, <1>8, <1>9
-----------------------------------------------------------------------------
(* What is kept is fresh, and what is shown is right.                         *)
Prepared ==
  /\ kind \in Kinds
  /\ open # None => IsFresh(open)
  /\ StreamsFit
  /\ TokensAreTheTexts

(* A step that sends no stream.                                              *)
KeepsBases == \A sent : /\ BasesSent(sent, nextTokensId, channel)
                        /\ ShownSent(sent, nextTokensId, shown)
                        => BasesSent(sent, nextTokensId, channel')

KeepsSent == \/ open' = None
             \/ open' = open
             \/ IsFresh(open') /\ open'.lastTokens = None
             \/ IsFresh(open') /\ open # None /\ open'.lastTokens = open.lastTokens

LEMMA StaysFresh ==
  ASSUME encoding' = encoding, open' # None => IsFresh(open')
  PROVE  (open # None => IsFresh(open))'
<1>1. Extract(open.document, Nodes(open.document))' =
        Extract(open'.document, Nodes(open'.document))
  BY DEF Extract, RegionFromMacro, PositionAt, Units
<1> QED
  BY <1>1 DEF IsFresh

LEMMA NothingSent ==
  ASSUME Prepared, KeepsBases, KeepsSent, shown' = shown \/ shown' = None,
         kind' \in Kinds, UNCHANGED <<encoding, nextTokensId>>
  PROVE  Prepared'
<1>1. open' # None => IsFresh(open')
  BY DEF KeepsSent, Prepared
<1>2. TokensAreTheTexts'
  <2>1. TokensAreTheTexts' <=>
          (shown' # None =>
             Decode(shown'.data) = {OnScreen(shown'.about, piece) : piece \in Pieces(shown'.about)})
    BY DEF TokensAreTheTexts, OnScreen, CaretPosition, Units
  <2> QED
    BY <2>1 DEF Prepared, TokensAreTheTexts
<1>3. StreamsFit'
  <2>1. PICK sent : AllSent(sent)
    BY DEF Prepared, StreamsFit
  <2>2. BasesSent(sent, nextTokensId, channel')
    BY <2>1 DEF KeepsBases, AllSent
  <2>3. ShownSent(sent, nextTokensId, shown')
    BY <2>1 DEF AllSent, ShownSent
  <2>4. OpenSent(sent, nextTokensId, open')
    BY <2>1 DEF AllSent, OpenSent, KeepsSent
  <2>5. nextTokensId' = nextTokensId /\ nextTokensId \in Nat
    BY DEF Prepared, StreamsFit
  <2> QED
    BY <2>2, <2>3, <2>4, <2>5 DEF StreamsFit, AllSent
<1>4. (open # None => IsFresh(open))'
  BY <1>1, StaysFresh
<1> QED
  BY <1>2, <1>3, <1>4 DEF Prepared

(* A step that sends the stream of the document.                              *)
LEMMA StreamSent ==
  ASSUME InSync, Prepared, open # None, RememberTokens(open, ComputeTokens(open)),
         NEW i \in 1..Len(channel), channel' = RemoveAt(channel, i),
         \/ shown' = shown
         \/ shown' = [id |-> nextTokensId, data |-> ComputeTokens(open), about |-> Described],
         UNCHANGED <<encoding, kind>>
  PROVE  Prepared'
<1> DEFINE data == ComputeTokens(open)
           stream == [id |-> nextTokensId, data |-> data]
<1>0. IsDocumentOf(open, meant) /\ IsFresh(open) /\ kind \in Kinds
  BY DEF InSync, OpenIsMeant, Prepared
<1>1. /\ \E S : data \in Seq(S)
      /\ Decode(data) = {OnScreen(Described, piece) : piece \in Pieces(Described)}
  BY <1>0, TokensAreShown DEF Described
<1>2. IsFresh(Analysed(open)) /\ DOMAIN Analysed(open) = Fields
  BY <1>0, AnalysedIsFresh, AnalysedKeeps DEF IsDocumentOf
<1>3. open' = [Analysed(open) EXCEPT !.lastTokens = stream] /\ nextTokensId' = nextTokensId + 1
  BY DEF RememberTokens
<1>4. stream.id = nextTokensId /\ stream.data = data
  OBVIOUS
<1> HIDE DEF data, stream
<1>5. IsFresh(open') /\ open'.lastTokens = stream
  BY <1>2, <1>3 DEF IsFresh, Fields
<1>6. TokensAreTheTexts'
  <2>1. TokensAreTheTexts' <=>
          (shown' # None =>
             Decode(shown'.data) = {OnScreen(shown'.about, piece) : piece \in Pieces(shown'.about)})
    BY DEF TokensAreTheTexts, OnScreen, CaretPosition, Units
  <2>2. CASE shown' = shown
    BY <2>1, <2>2 DEF Prepared, TokensAreTheTexts
  <2>3. CASE shown' = [id |-> nextTokensId, data |-> data, about |-> Described]
    <3>1. shown'.data = data /\ shown'.about = Described
      BY <2>3
    <3> QED
      BY <1>1, <2>1, <3>1
  <2> QED
    BY <2>2, <2>3 DEF data
<1>7. StreamsFit'
  <2>1. PICK S : channel \in Seq(S)
    BY DEF InSync
  <2>2. \A sent : BasesSent(sent, nextTokensId, channel)
                    => BasesSent(sent, nextTokensId, RemoveAt(channel, i))
    BY <2>1, BasesRemoved
  <2>3. shown' = shown \/ (shown'.id = stream.id /\ shown'.data = stream.data)
    BY <1>4 DEF data
  <2>4. \E T : stream.data \in Seq(T)
    BY <1>1, <1>4
  <2>5. \E sent : /\ OpenSent(sent, nextTokensId + 1, open')
                  /\ ShownSent(sent, nextTokensId + 1, shown')
                  /\ BasesSent(sent, nextTokensId + 1, RemoveAt(channel, i))
    BY <1>4, <1>5, <2>2, <2>3, <2>4, OneMoreStream DEF Prepared
  <2>6. nextTokensId + 1 \in Nat
    BY DEF Prepared, StreamsFit
  <2> QED
    BY <1>3, <2>5, <2>6 DEF StreamsFit, AllSent
<1>8. (open # None => IsFresh(open))'
  BY <1>5, StaysFresh
<1> QED
  BY <1>0, <1>6, <1>7, <1>8 DEF Prepared

LEMMA ClientPrepares ==
  ASSUME InSync, Prepared,
         \/ \E s \in Contents : ReplaceWhole(s) \/ \E l \in Languages : OpenBuffer(s, l)
         \/ \E from \in Carets : \E to \in from..Len(buffer), new \in Inserts :
              Replace(from, to, new)
         \/ SendChanges \/ CloseBuffer
         \/ RequestFull
         \/ \E from : RequestCompletion(from) \/ \E to : RequestRange(from, to)
  PROVE  Prepared'
<1>1. /\ channel' = channel \/ \E m : m.type # "delta" /\ channel' = Append(channel, m)
      /\ shown' = shown \/ shown' = None
      /\ UNCHANGED <<encoding, kind, open, nextTokensId>>
  <2>1. ASSUME NEW s, ReplaceWhole(s)
        PROVE  channel' = channel /\ shown' = shown /\ UNCHANGED <<encoding, kind, open, nextTokensId>>
    BY <2>1 DEF ReplaceWhole, Edit, Client, server
  <2>2. ASSUME NEW s, NEW l, OpenBuffer(s, l)
        PROVE  /\ channel' = channel \/ \E m : m.type # "delta" /\ channel' = Append(channel, m)
               /\ shown' = shown /\ UNCHANGED <<encoding, kind, open, nextTokensId>>
    BY <2>2 DEF OpenBuffer, Post, Client, server
  <2>3. ASSUME NEW from, NEW to, NEW new, Replace(from, to, new)
        PROVE  channel' = channel /\ shown' = shown /\ UNCHANGED <<encoding, kind, open, nextTokensId>>
    BY <2>3 DEF Replace, Edit, Client, server
  <2>4. ASSUME SendChanges
        PROVE  /\ \E m : m.type # "delta" /\ channel' = Append(channel, m)
               /\ shown' = shown /\ UNCHANGED <<encoding, kind, open, nextTokensId>>
    BY <2>4 DEF SendChanges, Post, Client, server
  <2>5. ASSUME CloseBuffer
        PROVE  /\ \E m : m.type # "delta" /\ channel' = Append(channel, m)
               /\ shown' = None /\ UNCHANGED <<encoding, kind, open, nextTokensId>>
    BY <2>5 DEF CloseBuffer, Post, Client, server
  <2>6. ASSUME NEW m, NEW what, Request(m, what), m.type # "delta"
        PROVE  /\ \E n : n.type # "delta" /\ channel' = Append(channel, n)
               /\ shown' = shown /\ UNCHANGED <<encoding, kind, open, nextTokensId>>
    BY <2>6 DEF Request, Post, Client, server
  <2> QED
    BY <2>1, <2>2, <2>3, <2>4, <2>5, <2>6 DEF RequestFull, RequestCompletion, RequestRange
<1>2. KeepsBases
  BY <1>1, BasesAppended DEF KeepsBases, InSync
<1> QED
  BY <1>1, <1>2, NothingSent DEF KeepsSent, Prepared

LEMMA DeltaPrepares ==
  ASSUME InSync, Prepared, RequestDelta
  PROVE  Prepared'
<1> DEFINE m == [type |-> "delta", opens |-> opens, base |-> shown]
<1>1. /\ channel' = Append(channel, m) /\ shown # None
      /\ UNCHANGED <<shown, encoding, kind, open, nextTokensId>>
  BY DEF RequestDelta, Request, Post, Client, server
<1>2. m.base = shown
  OBVIOUS
<1> HIDE DEF m
<1>3. KeepsBases
  BY <1>1, <1>2, BasesAppended DEF KeepsBases, InSync, ShownSent
<1> QED
  BY <1>1, <1>3, NothingSent DEF KeepsSent, Prepared

LEMMA NotificationPrepares ==
  ASSUME InSync, Prepared, DOMAIN None # Fields, DidOpen \/ DidChange \/ DidClose
  PROVE  Prepared'
<1> DEFINE m == Head(channel)
<1>1. /\ channel # <<>> /\ channel' = Tail(channel)
      /\ UNCHANGED <<shown, encoding, kind, nextTokensId>>
  BY DEF DidOpen, DidChange, DidClose, Handles
<1>2. KeepsBases
  BY <1>1, BasesTail DEF KeepsBases, InSync
<1>3. ASSUME DidOpen PROVE KeepsSent
  <2>1. open' = NewOpenDocument(m.text, m.language)
    BY <1>3 DEF DidOpen
  <2> QED
    BY <2>1, NewIsFresh DEF KeepsSent
<1>4. ASSUME DidChange PROVE KeepsSent
  <2> DEFINE changes == m.changes
  <2>1. m.type = "change" /\ open' = IF open = None THEN FromFullText(changes)
                                     ELSE Invalidate(ApplyContentChanges(open, changes))
    BY <1>4 DEF DidChange, Handles
  <2>2. CASE open # None
    <3>1. IsDocumentOf(open, meant)
      BY <2>2 DEF InSync, OpenIsMeant
    <3>2. changes \in Seq(Changes)
      <4>1. PICK S : channel \in Seq(S)
        BY DEF InSync
      <4>2. PICK s \in Texts \cup {None} : Follows(encoding, meant, channel, s)
        BY DEF InSync, OnTheWay
      <4>3. PICK t : MessageLeads(encoding, meant, m, t)
        BY <1>1, <4>1, <4>2, FirstMessage
      <4> QED
        BY <2>1, <4>3 DEF MessageLeads, Requests
    <3> HIDE DEF changes
    <3> QED
      BY <2>1, <2>2, <3>1, <3>2, ChangesKeepSent DEF KeepsSent
  <2>3. CASE open = None
    BY <2>1, <2>3, NewIsFresh DEF FromFullText, KeepsSent
  <2> QED
    BY <2>2, <2>3
<1>5. ASSUME DidClose PROVE KeepsSent
  BY <1>5 DEF DidClose, KeepsSent
<1> QED
  BY <1>1, <1>2, <1>3, <1>4, <1>5, NothingSent DEF Prepared

LEMMA AnalysisPrepares ==
  ASSUME InSync, Prepared, open # None, open' = Analysed(open)
  PROVE  KeepsSent
<1>1. IsDocumentOf(open, meant) /\ IsFresh(open)
  BY DEF InSync, OpenIsMeant, Prepared
<1>2. IsFresh(Analysed(open)) /\ Analysed(open).lastTokens = open.lastTokens
  BY <1>1, AnalysedIsFresh
<1> QED
  BY <1>2 DEF KeepsSent

(* The baseline that a delta names is the one the client applies it to.        *)
LEMMA DeltaIsWhole ==
  ASSUME InSync, Prepared, open # None, open.lastTokens # None,
         NEW i \in 1..Len(channel), channel[i].type = "delta",
         open.lastTokens.id = channel[i].base.id
  PROVE  ApplyEdits(channel[i].base.data,
                    TokenEdit(open.lastTokens.data, ComputeTokens(open))) = ComputeTokens(open)
<1>1. PICK sent : AllSent(sent)
  BY DEF Prepared, StreamsFit
<1>2. IsSent(sent, nextTokensId, open.lastTokens)
  BY <1>1 DEF AllSent, OpenSent
<1>3. IsSent(sent, nextTokensId, channel[i].base)
  BY <1>1 DEF AllSent, BasesSent
<1>4. channel[i].base.data = open.lastTokens.data
  BY <1>2, <1>3 DEF IsSent
<1>5. PICK S : open.lastTokens.data \in Seq(S)
  BY <1>2 DEF IsSent
<1>6. IsDocumentOf(open, meant) /\ IsFresh(open) /\ kind \in Kinds
  BY DEF InSync, OpenIsMeant, Prepared
<1>7. PICK T : ComputeTokens(open) \in Seq(T)
  BY <1>6, TokensAreShown
<1>8. open.lastTokens.data \in Seq(S \cup T)
  BY <1>5, SeqMonotonic, Z3
<1>9. ComputeTokens(open) \in Seq(S \cup T)
  BY <1>7, SeqMonotonic, Z3
<1> QED
  BY <1>4, <1>8, <1>9, EditGivesSecond

LEMMA AnswerPrepares ==
  ASSUME InSync, Prepared, NEW i \in DOMAIN channel,
         \/ SemanticTokensFull(i) \/ SemanticTokensFullDelta(i)
         \/ SemanticTokensRange(i) \/ Completion(i)
  PROVE  Prepared'
<1> DEFINE current == ComputeTokens(open)
           new == [id |-> nextTokensId, data |-> current, about |-> Described]
<1>1. PICK S : channel \in Seq(S)
  BY DEF InSync
<1>2. i \in 1..Len(channel)
  BY <1>1
<1>3. channel' = RemoveAt(channel, i) /\ UNCHANGED <<encoding, kind>>
  BY DEF SemanticTokensFull, SemanticTokensFullDelta, SemanticTokensRange, Completion, Answers
<1>4. KeepsBases
  BY <1>1, <1>2, <1>3, BasesRemoved DEF KeepsBases
<1>5. ASSUME \/ SemanticTokensRange(i) \/ Completion(i) \/ Nothing
      PROVE  Prepared'
  <2>1. /\ UNCHANGED <<shown, nextTokensId>>
        /\ open' = open \/ (open # None /\ open' = Analysed(open))
    BY <1>5 DEF SemanticTokensRange, Completion, Nothing
  <2>2. KeepsSent
    BY <2>1, AnalysisPrepares DEF KeepsSent
  <2> QED
    BY <1>3, <1>4, <2>1, <2>2, NothingSent DEF Prepared
<1>6. ASSUME open # None, RememberTokens(open, current), shown' = shown \/ shown' = new
      PROVE  Prepared'
  BY <1>2, <1>3, <1>6, StreamSent
<1> HIDE DEF new
<1>7. ASSUME SemanticTokensFull(i), open # None PROVE Prepared'
  <2>1. RememberTokens(open, current) /\ Show(channel[i], current)
    BY <1>7 DEF SemanticTokensFull
  <2> HIDE DEF current
  <2>2. shown' = shown \/ shown' = new
    BY <2>1 DEF Show, new, current
  <2> QED
    BY <1>6, <1>7, <2>1, <2>2
<1>8. ASSUME SemanticTokensFullDelta(i), open # None PROVE Prepared'
  <2> DEFINE previous == open.lastTokens
             data == IF previous # None /\ previous.id = channel[i].base.id
                     THEN ApplyEdits(channel[i].base.data, TokenEdit(previous.data, current))
                     ELSE current
  <2>1. /\ RememberTokens(open, current) /\ Show(channel[i], data)
        /\ channel[i].type = "delta"
    BY <1>8 DEF SemanticTokensFullDelta, Answers
  <2>2. data = current
    BY <1>2, <1>8, <2>1, DeltaIsWhole
  <2> HIDE DEF data, current
  <2>3. shown' = shown \/ shown' = new
    BY <2>1, <2>2 DEF Show, new, current
  <2> QED
    BY <1>6, <1>8, <2>1, <2>3
<1>9. ASSUME open = None PROVE Nothing \/ SemanticTokensRange(i) \/ Completion(i)
  BY <1>9 DEF SemanticTokensFull, SemanticTokensFullDelta
<1> QED
  BY <1>5, <1>7, <1>8, <1>9

LEMMA InitPrepares ==
  ASSUME Init
  PROVE  Prepared
<1>1. open = None /\ shown = None /\ channel = <<>> /\ nextTokensId = 0 /\ kind \in Kinds
  BY DEF Init
<1>2. StreamsFit
  <2>1. Len(channel) = 0
    BY <1>1
  <2>2. AllSent([n \in Nat |-> <<>>])
    BY <1>1, <2>1 DEF AllSent, OpenSent, ShownSent, BasesSent
  <2> QED
    BY <1>1, <2>2 DEF StreamsFit
<1> QED
  BY <1>1, <1>2 DEF Prepared, TokensAreTheTexts

LEMMA StepPrepares ==
  ASSUME InSync, Prepared, DOMAIN None # Fields, [Next]_vars
  PROVE  Prepared'
<1>1. CASE UNCHANGED vars
  BY <1>1, NothingSent DEF vars, client, server, KeepsBases, KeepsSent, Prepared
<1>2. ASSUME \/ \E s \in Contents : ReplaceWhole(s) \/ \E l \in Languages : OpenBuffer(s, l)
             \/ \E from \in Carets :
                  \E to \in from..Len(buffer), new \in Inserts : Replace(from, to, new)
             \/ SendChanges \/ CloseBuffer
             \/ RequestFull
             \/ \E from : RequestCompletion(from) \/ \E to : RequestRange(from, to)
      PROVE  Prepared'
  BY <1>2, ClientPrepares
<1>3. CASE RequestDelta
  BY <1>3, DeltaPrepares
<1>4. ASSUME DidOpen \/ DidChange \/ DidClose PROVE Prepared'
  BY <1>4, NotificationPrepares
<1>5. ASSUME NEW i \in DOMAIN channel,
             \/ SemanticTokensFull(i) \/ SemanticTokensFullDelta(i)
             \/ SemanticTokensRange(i) \/ Completion(i)
      PROVE  Prepared'
  BY <1>5, AnswerPrepares
<1>6. CASE Analyse
  <2>1. /\ open # None /\ open' = Analysed(open)
        /\ UNCHANGED <<encoding, kind, shown, channel, nextTokensId>>
    BY <1>6 DEF Analyse
  <2> QED
    BY <2>1, AnalysisPrepares, NothingSent DEF KeepsBases, Prepared
<1>7. ASSUME NEW k \in Kinds, Reload(k) PROVE Prepared'
  <2>1. kind' \in Kinds /\ UNCHANGED <<encoding, shown, channel, open, nextTokensId>>
    BY <1>7 DEF Reload, server
  <2> QED
    BY <2>1, NothingSent DEF KeepsBases, KeepsSent
<1> QED
  BY <1>1, <1>2, <1>3, <1>4, <1>5, <1>6, <1>7 DEF Next

(* The stream that the client shows, sent whole or put together from deltas, is *)
(* that of the text it was asked for: of every text, in both languages, for    *)
(* any edits, batches and reloads between the requests, and whichever requests *)
(* pass one another.                                                        *)
THEOREM TokensAgree ==
  ASSUME ~Unannounced, DOMAIN None # Fields
  PROVE  Spec => []TokensAreTheTexts
<1>1. Prepared => TokensAreTheTexts
  BY DEF Prepared
<1> QED
  BY <1>1, InitSyncs, StepSyncs, InitPrepares, StepPrepares, PTL DEF Spec
-----------------------------------------------------------------------------
(* The answer to a range request.                                            *)
LEMMA CaretOrder ==
  ASSUME NEW s \in Texts, NEW i \in 0..Len(s), NEW j \in 0..Len(s)
  PROVE  /\ i < j <=> \/ LinesBefore(s, i) < LinesBefore(s, j)
                      \/ /\ LinesBefore(s, i) = LinesBefore(s, j)
                         /\ Column(s, i, i) < Column(s, j, j)
         /\ NotAfter(CaretPosition(s, i), CaretPosition(s, j)) <=> i <= j
<1>1. i \in Nat /\ j \in Nat /\ Len(s) \in Nat
  BY DEF Texts
<1>2. /\ LinesBefore(s, i) \in Nat /\ LinesBefore(s, j) \in Nat
      /\ Column(s, i, i) \in Nat /\ Column(s, j, j) \in Nat
      /\ CaretPosition(s, i) = [line |-> LinesBefore(s, i), character |-> Column(s, i, i)]
      /\ CaretPosition(s, j) = [line |-> LinesBefore(s, j), character |-> Column(s, j, j)]
  BY CaretFacts
<1>3. ASSUME NEW m \in 0..Len(s), NEW n \in 0..Len(s), m < n
      PROVE  \/ LinesBefore(s, m) < LinesBefore(s, n)
             \/ /\ LinesBefore(s, m) = LinesBefore(s, n)
                /\ Column(s, m, m) < Column(s, n, n)
  <2>1. n \in m..Len(s) /\ m \in Nat /\ n \in Nat /\ m <= n
    BY <1>1, <1>3
  <2>2. LinesBefore(s, m) <= LinesBefore(s, n)
    BY <2>1, LinesGrow
  <2>3. LinesBefore(s, m) \in Nat /\ LinesBefore(s, n) \in Nat
    BY CaretFacts
  <2>4. LinesBefore(s, m) = LinesBefore(s, n) => Column(s, m, m) < Column(s, n, n)
    BY <1>3, <2>1, OnALine
  <2> QED
    BY <2>2, <2>3, <2>4
<1>4. i < j \/ i = j \/ j < i
  BY <1>1
<1>5. i < j <=> \/ LinesBefore(s, i) < LinesBefore(s, j)
                \/ /\ LinesBefore(s, i) = LinesBefore(s, j)
                   /\ Column(s, i, i) < Column(s, j, j)
  BY <1>1, <1>2, <1>3, <1>4
<1>6. NotAfter(CaretPosition(s, i), CaretPosition(s, j)) <=>
        \/ LinesBefore(s, i) < LinesBefore(s, j)
        \/ LinesBefore(s, i) = LinesBefore(s, j) /\ Column(s, i, i) <= Column(s, j, j)
  BY <1>2 DEF NotAfter
<1>7. NotAfter(CaretPosition(s, i), CaretPosition(s, j)) <=> i <= j
  <2>1. CASE i < j
    BY <1>1, <1>2, <1>5, <1>6, <2>1
  <2>2. CASE i = j
    BY <1>1, <1>2, <1>6, <2>2
  <2>3. CASE j < i
    BY <1>1, <1>2, <1>3, <1>6, <2>3
  <2> QED
    BY <1>4, <2>1, <2>2, <2>3
<1> QED
  BY <1>5, <1>7

IsBetween(s, range, i, j) ==
  /\ i \in 0..Len(s) /\ j \in 0..Len(s) /\ i < j
  /\ range = [start |-> CaretPosition(s, i), end |-> CaretPosition(s, j)]

LEMMA SegmentInRange ==
  ASSUME NEW s \in Texts, NEW range, NEW i, NEW j, IsBetween(s, range, i, j),
         NEW a \in 0..Len(s), NEW b \in 0..Len(s), a < b, LinesBefore(s, a) = LinesBefore(s, b),
         NEW k
  PROVE  InRange(Seg(s, a, b, k), range) <=> i < b /\ a < j
<1>1. i \in 0..Len(s) /\ j \in 0..Len(s)
  BY DEF IsBetween
<1>2. /\ range.start.line = LinesBefore(s, i) /\ range.start.character = Column(s, i, i)
      /\ range.end.line = LinesBefore(s, j) /\ range.end.character = Column(s, j, j)
  BY <1>1, CaretFacts, SMTT(30) DEF IsBetween
<1>3. /\ LinesBefore(s, a) \in Nat /\ Column(s, a, a) \in Nat /\ Column(s, b, b) \in Nat
      /\ LinesBefore(s, i) \in Nat /\ Column(s, i, i) \in Nat
      /\ LinesBefore(s, j) \in Nat /\ Column(s, j, j) \in Nat
  BY <1>1, CaretFacts
<1> DEFINE g == Seg(s, a, b, k)
<1>4. g.line = LinesBefore(s, a) /\ g.start = Column(s, a, a)
      /\ g.start + g.length = Column(s, b, b)
  BY <1>3 DEF Seg
<1> HIDE DEF g
<1>5. InRange(g, range) <=>
        /\ \/ LinesBefore(s, a) > LinesBefore(s, i)
           \/ LinesBefore(s, a) = LinesBefore(s, i) /\ Column(s, b, b) > Column(s, i, i)
        /\ \/ LinesBefore(s, a) < LinesBefore(s, j)
           \/ LinesBefore(s, a) = LinesBefore(s, j) /\ Column(s, a, a) < Column(s, j, j)
  BY <1>2, <1>4 DEF InRange
<1>6. i < b <=> \/ LinesBefore(s, i) < LinesBefore(s, b)
                \/ LinesBefore(s, i) = LinesBefore(s, b) /\ Column(s, i, i) < Column(s, b, b)
  BY <1>1, CaretOrder
<1>7. a < j <=> \/ LinesBefore(s, a) < LinesBefore(s, j)
                \/ LinesBefore(s, a) = LinesBefore(s, j) /\ Column(s, a, a) < Column(s, j, j)
  BY <1>1, CaretOrder
<1> QED
  BY <1>3, <1>5, <1>6, <1>7 DEF g

LEMMA PieceInRange ==
  ASSUME NEW s \in Texts, NEW range, NEW i, NEW j, IsBetween(s, range, i, j),
         NEW a \in 0..Len(s), NEW b \in 0..Len(s), a < b
  PROVE  (\E m \in a..(b - 1) :
            /\ NotAfter(range.start, CaretPosition(s, m))
            /\ ~NotAfter(range.end, CaretPosition(s, m))) <=> i < b /\ a < j
<1>1. /\ i \in Nat /\ j \in Nat /\ a \in Nat /\ b \in Nat /\ i < j /\ Len(s) \in Nat
      /\ i \in 0..Len(s) /\ j \in 0..Len(s)
  BY DEF IsBetween, Texts
<1>2. range.start = CaretPosition(s, i) /\ range.end = CaretPosition(s, j)
  BY DEF IsBetween
<1>3. ASSUME NEW m \in a..(b - 1)
      PROVE  /\ m \in Nat
             /\ NotAfter(range.start, CaretPosition(s, m)) <=> i <= m
             /\ NotAfter(range.end, CaretPosition(s, m)) <=> j <= m
  <2>1. m \in 0..Len(s)
    BY <1>1
  <2> QED
    BY <1>1, <1>2, <2>1, CaretOrder
<1>4. ASSUME NEW m \in a..(b - 1), i <= m, ~(j <= m) PROVE i < b /\ a < j
  BY <1>1, <1>4
<1>5. ASSUME i < b, a < j PROVE \E m \in a..(b - 1) : i <= m /\ ~(j <= m)
  <2>1. CASE i <= a
    <3>1. a \in a..(b - 1) /\ ~(j <= a)
      BY <1>1, <1>5
    <3> QED
      BY <2>1, <3>1
  <2>2. CASE ~(i <= a)
    <3>1. i \in a..(b - 1) /\ ~(j <= i) /\ i <= i
      BY <1>1, <1>5, <2>2
    <3> QED
      BY <3>1
  <2> QED
    BY <2>1, <2>2
<1> QED
  BY <1>3, <1>4, <1>5

(* A piece lies on one line.                                                 *)
LEMMA ScreenUnbroken ==
  ASSUME NEW about, NEW s \in Texts, about.text = s,
         NEW a, NEW b, NEW k, IsRun(s, ScreenOf(about), a, b, k)
  PROVE  a \in 0..Len(s) /\ b \in 0..Len(s) /\ a < b /\ LinesBefore(s, a) = LinesBefore(s, b)
<1>1. a \in 0..Len(s) /\ b \in 0..Len(s) /\ a < b /\ Len(s) \in Nat /\ k # None
  BY DEF IsRun, Texts
<1>2. \A m \in (a + 1)..b : s[m] # "n"
  <2> TAKE m \in (a + 1)..b
  <2>1. m \in 1..Len(s) /\ ScreenOf(about)[m] = k
    BY <1>1 DEF IsRun
  <2> QED
    BY <1>1, <2>1 DEF ScreenOf, ScreenAt
<1>3. a \in Nat /\ b \in Nat /\ a <= b
  BY <1>1
<1> QED
  BY <1>1, <1>2, <1>3, LinesGrow

Kept(G, range) == {g \in G : InRange(g, range)}

(* What the client sees of a range.                                          *)
Reaching(about, range) ==
  {OnScreen(about, piece) : piece \in
     {r \in Pieces(about) : \E m \in r.from..(r.to - 1) :
        LET p == CaretPosition(about.text, m)
        IN  NotAfter(range.start, p) /\ ~NotAfter(range.end, p)}}

LEMMA RangeSegments ==
  ASSUME NEW about, NEW s \in Texts, about.text = s,
         NEW range, NEW i, NEW j, IsBetween(s, range, i, j),
         NEW G, G = {OnScreen(about, piece) : piece \in Pieces(about)}
  PROVE  Kept(G, range) = Reaching(about, range)
<1> DEFINE Touches(r) == \E m \in r.from..(r.to - 1) :
                            LET p == CaretPosition(about.text, m)
                            IN  NotAfter(range.start, p) /\ ~NotAfter(range.end, p)
<1>1. ASSUME NEW r \in Pieces(about)
      PROVE  InRange(OnScreen(about, r), range) <=> Touches(r)
  <2> DEFINE a == r.from
             b == r.to
  <2>1. IsRun(s, ScreenOf(about), a, b, r.class) /\ OnScreen(about, r) = Seg(s, a, b, r.class)
    BY PieceRuns
  <2>2. a \in 0..Len(s) /\ b \in 0..Len(s) /\ a < b /\ LinesBefore(s, a) = LinesBefore(s, b)
    BY <2>1, ScreenUnbroken, ZenonT(30)
  <2>3. InRange(OnScreen(about, r), range) <=> i < b /\ a < j
    BY <2>1, <2>2, SegmentInRange
  <2>4. Touches(r) <=> i < b /\ a < j
    BY <2>2, PieceInRange
  <2> QED
    BY <2>3, <2>4
<1> HIDE DEF Touches
<1>2. {g \in G : InRange(g, range)} = {OnScreen(about, piece) : piece \in
                                        {r \in Pieces(about) : Touches(r)}}
  BY <1>1
<1> QED
  BY <1>2 DEF Touches, Kept, Reaching

LEMMA PartIsPlaced ==
  ASSUME NEW G, ArePlaced(G), NEW H, H \subseteq G
  PROVE  ArePlaced(H)
BY FS_Subset DEF ArePlaced
-----------------------------------------------------------------------------
(* The word at a caret.                                                      *)
LEMMA RunsMeet ==
  ASSUME NEW s \in Texts, NEW c, NEW m \in Nat,
         NEW a, NEW b, NEW k, IsRun(s, c, a, b, k), a < m, m <= b,
         NEW p, NEW q, NEW l, IsRun(s, c, p, q, l), p < m, m <= q
  PROVE  a = p /\ b = q /\ k = l
<1>1. /\ a \in Nat /\ b \in Nat /\ p \in Nat /\ q \in Nat /\ Len(s) \in Nat
      /\ b <= Len(s) /\ q <= Len(s)
      /\ \A n \in (a + 1)..b : c[n] = k
      /\ \A n \in (p + 1)..q : c[n] = l
      /\ a = 0 \/ c[a] # k
      /\ p = 0 \/ c[p] # l
      /\ b = Len(s) \/ c[b + 1] # k
      /\ q = Len(s) \/ c[q + 1] # l
  BY DEF IsRun, Texts
<1>2. k = l
  <2>1. m \in (a + 1)..b /\ m \in (p + 1)..q
    BY <1>1
  <2> QED
    BY <1>1, <2>1
<1>3. ~(a < p)
  <2>1. SUFFICES ASSUME a < p PROVE FALSE
    OBVIOUS
  <2>2. p \in (a + 1)..b /\ p # 0
    BY <1>1, <2>1
  <2> QED
    BY <1>1, <1>2, <2>2
<1>4. ~(p < a)
  <2>1. SUFFICES ASSUME p < a PROVE FALSE
    OBVIOUS
  <2>2. a \in (p + 1)..q /\ a # 0
    BY <1>1, <2>1
  <2> QED
    BY <1>1, <1>2, <2>2
<1>5. ~(b < q)
  <2>1. SUFFICES ASSUME b < q PROVE FALSE
    OBVIOUS
  <2>2. b + 1 \in (p + 1)..q /\ b # Len(s)
    BY <1>1, <2>1
  <2> QED
    BY <1>1, <1>2, <2>2
<1>6. ~(q < b)
  <2>1. SUFFICES ASSUME q < b PROVE FALSE
    OBVIOUS
  <2>2. q + 1 \in (a + 1)..b /\ q # Len(s)
    BY <1>1, <2>1
  <2> QED
    BY <1>1, <1>2, <2>2
<1>7. a = p /\ b = q
  BY <1>1, <1>3, <1>4, <1>5, <1>6
<1> QED
  BY <1>2, <1>7

LEMMA WordRun ==
  ASSUME NEW s \in Texts, NEW kd, None # "literal",
         NEW f, NEW t, NEW k, IsRun(s, ClassOf(kd, s), f, t, k), k # "literal"
  PROVE  \A m \in (f + 1)..t : s[m] # "n"
<1>1. f \in 0..Len(s) /\ t \in 0..Len(s) /\ Len(s) \in Nat /\ k # None
  BY DEF IsRun, Texts
<1> TAKE m \in (f + 1)..t
<1>2. m \in 1..Len(s) /\ ClassOf(kd, s)[m] = k
  BY <1>1 DEF IsRun
<1>3. ClassAt(s, kd, m) = k
  BY <1>2 DEF ClassOf
<1>4. Word(s[m])
  BY <1>1, <1>3 DEF ClassAt
<1> QED
  BY <1>4 DEF Word

(* A word is not cut.                                                        *)
LEMMA WordsUnbroken ==
  ASSUME NEW s \in Texts, NEW kd, None # "literal", NEW f, NEW t, NEW k, k # "literal"
  PROVE  IsRun(s, ClassOf(kd, s), f, t, k) <=> IsRun(s, Unbroken(s, ClassOf(kd, s)), f, t, k)
<1> DEFINE c == ClassOf(kd, s)
<1>1. ASSUME IsRun(s, c, f, t, k) PROVE IsRun(s, Unbroken(s, c), f, t, k)
  <2>1. f \in Nat /\ t \in Nat /\ f < t /\ f <= t
    BY <1>1 DEF IsRun
  <2>2. \A m \in (f + 1)..t : s[m] # "n"
    BY <1>1, WordRun
  <2>3. LinesBefore(s, f) = LinesBefore(s, t)
    BY <2>1, <2>2, LinesGrow
  <2>4. f \in f..t /\ t \in f..t
    BY <2>1
  <2>5. IsCut(s, f, t, f, t)
    BY <2>3, <2>4 DEF IsCut
  <2> HIDE DEF c
  <2> QED
    BY <1>1, <2>1, <2>5, CutIsPiece
<1>2. ASSUME IsRun(s, Unbroken(s, c), f, t, k) PROVE IsRun(s, c, f, t, k)
  <2>1. PICK a, b : IsRun(s, c, a, b, k) /\ IsCut(s, a, b, f, t)
    <3> HIDE DEF c
    <3> QED
      BY <1>2, PieceIsCut
  <2>2. \A m \in (a + 1)..b : s[m] # "n"
    BY <2>1, WordRun
  <2>3. /\ a \in Nat /\ b \in Nat /\ f \in a..b /\ t \in f..b
        /\ f = a \/ s[f] = "n"
        /\ t = b \/ s[t + 1] = "n"
    BY <2>1 DEF IsRun, IsCut
  <2>4. f = a
    <3>1. f # a => f \in (a + 1)..b
      BY <2>3
    <3> QED
      BY <2>2, <2>3, <3>1
  <2>5. t = b
    <3>1. t # b => t + 1 \in (a + 1)..b
      BY <2>3
    <3> QED
      BY <2>2, <2>3, <3>1
  <2> QED
    BY <2>1, <2>4, <2>5
<1> QED
  BY <1>1, <1>2

Span(s, f, t) == [start |-> CaretPosition(s, f), end |-> CaretPosition(s, t)]

WordAt(s, c, caret, f, t, k) ==
  IsRun(s, c, f, t, k) /\ f < caret /\ caret <= t /\ k # "literal"

(* What accepting an offer should replace.                                    *)
IsEdit(s, c, caret, e) ==
  \/ \E f, t, k : WordAt(s, c, caret, f, t, k) /\ e = Span(s, f, t)
  \/ (~\E f, t, k : WordAt(s, c, caret, f, t, k)) /\ e = Span(s, caret, caret)

LEMMA TokenSpan ==
  ASSUME NEW s \in Texts, NEW f \in 0..Len(s), NEW t \in 0..Len(s), NEW k
  PROVE  RangeOf(NewDocument(s), TokenAt(s, f, t, k)) = Span(s, f, t)
BY PositionOfLocation DEF RangeOf, TokenAt, Span

IsWord(s, c, caret, g) == \E f, t, k : WordAt(s, c, caret, f, t, k) /\ g = Span(s, f, t)

StartsBefore(s, caret, tok) ==
  ~NotAfter(CaretPosition(s, caret), RangeOf(NewDocument(s), tok).start)

LEMMA WordRangeFacts ==
  ASSUME NEW s \in Texts, NEW kd, NEW caret \in 0..Len(s), NEW g
  PROVE  g \in WordRange(NewDocument(s), Parse(kd, s), CaretPosition(s, caret)) <=>
           IsWord(s, ClassOf(kd, s), caret, g)
<1> DEFINE d == NewDocument(s)
           c == ClassOf(kd, s)
           tokens == Parse(kd, s)
           position == CaretPosition(s, caret)
           before == {v \in tokens : StartsBefore(s, caret, v)}
           IsLast(u) == \A v \in before : NotAfter(RangeOf(d, v).start, RangeOf(d, u).start)
           Reaches(u) == NotAfter(position, RangeOf(d, u).end)
<1>1. WordRange(d, tokens, position) =
        {RangeOf(d, u) : u \in {v \in before : IsLast(v) /\ v.class # "literal" /\ Reaches(v)}}
  BY DEF WordRange, StartsBefore
<1>2. /\ \A u \in tokens : \E f, t, k : IsRun(s, c, f, t, k) /\ u = TokenAt(s, f, t, k)
      /\ \A f, t, k : IsRun(s, c, f, t, k) => TokenAt(s, f, t, k) \in tokens
  BY ParseFacts
<1> HIDE DEF c, tokens
<1>3. ASSUME NEW f, NEW t, NEW k, IsRun(s, c, f, t, k)
      PROVE  /\ f \in 0..Len(s) /\ t \in 0..Len(s) /\ f \in Nat /\ t \in Nat
             /\ RangeOf(d, TokenAt(s, f, t, k)) = Span(s, f, t)
             /\ RangeOf(d, TokenAt(s, f, t, k)).start = CaretPosition(s, f)
             /\ RangeOf(d, TokenAt(s, f, t, k)).end = CaretPosition(s, t)
             /\ TokenAt(s, f, t, k).class = k
  <2>1. f \in 0..Len(s) /\ t \in 0..Len(s) /\ f \in Nat /\ t \in Nat
    BY <1>3 DEF IsRun
  <2>2. TokenAt(s, f, t, k).class = k
    BY DEF TokenAt
  <2>3. RangeOf(d, TokenAt(s, f, t, k)) = Span(s, f, t)
    BY <2>1, TokenSpan
  <2> HIDE DEF d
  <2> QED
    BY <2>1, <2>2, <2>3 DEF Span
<1>4. ASSUME NEW f, NEW t, NEW k, IsRun(s, c, f, t, k)
      PROVE  /\ TokenAt(s, f, t, k) \in before <=> f < caret
             /\ Reaches(TokenAt(s, f, t, k)) <=> caret <= t
  <2>1. caret \in Nat
    OBVIOUS
  <2>2. NotAfter(position, CaretPosition(s, f)) <=> caret <= f
    BY <1>3, <1>4, CaretOrder
  <2>3. NotAfter(position, CaretPosition(s, t)) <=> caret <= t
    BY <1>3, <1>4, CaretOrder
  <2>4. TokenAt(s, f, t, k) \in tokens
    BY <1>2, <1>4
  <2>5. f \in Nat /\ (~(caret <= f) <=> f < caret)
    BY <1>3, <1>4, <2>1
  <2> QED
    BY <1>3, <1>4, <2>2, <2>3, <2>4, <2>5 DEF StartsBefore
<1> HIDE DEF d, position, before, Reaches
<1>5. ASSUME NEW f, NEW t, NEW k, WordAt(s, c, caret, f, t, k)
      PROVE  IsLast(TokenAt(s, f, t, k))
  <2> SUFFICES ASSUME NEW v \in before
               PROVE  NotAfter(RangeOf(d, v).start, RangeOf(d, TokenAt(s, f, t, k)).start)
    OBVIOUS
  <2>0. IsRun(s, c, f, t, k) /\ f < caret /\ caret <= t
    BY <1>5 DEF WordAt
  <2>1. v \in tokens
    BY DEF before
  <2>2. PICK p, q, l : IsRun(s, c, p, q, l) /\ v = TokenAt(s, p, q, l)
    BY <1>2, <2>1
  <2>3. p < caret
    BY <1>4, <2>2
  <2>4. /\ p \in Nat /\ q \in Nat /\ f \in Nat /\ t \in Nat /\ p < q
        /\ p \in 0..Len(s) /\ f \in 0..Len(s)
    BY <1>3, <2>0, <2>2 DEF IsRun
  <2>5. p <= f
    <3>1. SUFFICES ASSUME f < p PROVE FALSE
      BY <2>4
    <3>2. p + 1 \in Nat /\ f < p + 1 /\ p + 1 <= t /\ p < p + 1 /\ p + 1 <= q
      <4>1. caret \in Nat
        OBVIOUS
      <4> QED
        BY <2>0, <2>3, <2>4, <3>1, <4>1
    <3>3. f = p
      BY <2>0, <2>2, <3>2, RunsMeet
    <3> QED
      BY <2>4, <3>1, <3>3
  <2>6. NotAfter(CaretPosition(s, p), CaretPosition(s, f))
    BY <2>4, <2>5, CaretOrder
  <2>7. RangeOf(d, v).start = CaretPosition(s, p)
    BY <1>3, <2>2
  <2>8. RangeOf(d, TokenAt(s, f, t, k)).start = CaretPosition(s, f)
    BY <1>3, <2>0
  <2> QED
    BY <2>6, <2>7, <2>8
<1> HIDE DEF IsLast
<1>6. ASSUME NEW f, NEW t, NEW k, WordAt(s, c, caret, f, t, k), g = Span(s, f, t)
      PROVE  g \in WordRange(d, tokens, position)
  <2>0. IsRun(s, c, f, t, k) /\ f < caret /\ caret <= t /\ k # "literal"
    BY <1>6 DEF WordAt
  <2> DEFINE u == TokenAt(s, f, t, k)
  <2>1. u \in before /\ Reaches(u) /\ u.class # "literal" /\ IsLast(u) /\ g = RangeOf(d, u)
    BY <1>3, <1>4, <1>5, <1>6, <2>0
  <2> HIDE DEF u
  <2> QED
    BY <1>1, <2>1
<1>7. ASSUME g \in WordRange(d, tokens, position)
      PROVE  \E f, t, k : WordAt(s, c, caret, f, t, k) /\ g = Span(s, f, t)
  <2>1. PICK u \in before : u.class # "literal" /\ Reaches(u) /\ g = RangeOf(d, u)
    BY <1>1, <1>7
  <2>2. u \in tokens
    BY DEF before
  <2>3. PICK f, t, k : IsRun(s, c, f, t, k) /\ u = TokenAt(s, f, t, k)
    BY <1>2, <2>2
  <2>4. f < caret /\ caret <= t /\ k # "literal" /\ g = Span(s, f, t)
    BY <1>3, <1>4, <2>1, <2>3
  <2> QED
    BY <2>3, <2>4 DEF WordAt
<1> QED
  BY <1>6, <1>7 DEF d, c, tokens, position, IsWord

(* accept_edit, for the tokens of a text and a caret in it.                    *)
LEMMA AcceptEditFacts ==
  ASSUME NEW s \in Texts, NEW kd, None # "literal", NEW caret \in 0..Len(s)
  PROVE  IsEdit(s, Unbroken(s, ClassOf(kd, s)), caret,
                AcceptEdit(NewDocument(s), Parse(kd, s), CaretPosition(s, caret)))
<1> DEFINE c == ClassOf(kd, s)
           word == WordRange(NewDocument(s), Parse(kd, s), CaretPosition(s, caret))
           e == AcceptEdit(NewDocument(s), Parse(kd, s), CaretPosition(s, caret))
<1>1. ASSUME NEW g
      PROVE  g \in word <=> IsWord(s, c, caret, g)
  BY WordRangeFacts
<1>2. e = IF word = {} THEN Span(s, caret, caret) ELSE CHOOSE range \in word : TRUE
  BY DEF AcceptEdit, Span
<1>3. \A f, t, k : WordAt(s, c, caret, f, t, k) <=> WordAt(s, Unbroken(s, c), caret, f, t, k)
  BY WordsUnbroken DEF WordAt
<1> HIDE DEF word, e, c
<1>4. CASE word = {}
  <2>1. ~\E f, t, k : WordAt(s, c, caret, f, t, k)
    <3>1. \A f, t : ~IsWord(s, c, caret, Span(s, f, t))
      BY <1>1, <1>4
    <3> QED
      BY <3>1 DEF IsWord
  <2> QED
    BY <1>2, <1>3, <1>4, <2>1 DEF IsEdit, e, c
<1>5. CASE word # {}
  <2>1. e \in word
    BY <1>2, <1>5
  <2>2. PICK f, t, k : WordAt(s, c, caret, f, t, k) /\ e = Span(s, f, t)
    BY <1>1, <2>1 DEF IsWord
  <2>3. WordAt(s, Unbroken(s, c), caret, f, t, k)
    BY <1>3, <2>2
  <2> QED
    BY <2>2, <2>3 DEF IsEdit, e, c
<1> QED
  BY <1>4, <1>5

Touched(about, caret) ==
  {r \in Pieces(about) : r.from < caret /\ caret <= r.to /\ r.class # "literal"}

Spans(s, R) == {Span(s, r.from, r.to) : r \in R}

(* The edit is the one that the property asks for.                            *)
LEMMA EditIsTheWord ==
  ASSUME NEW about, NEW s \in Texts, about.text = s, NEW caret \in 0..Len(s),
         NEW e, IsEdit(s, ScreenOf(about), caret, e)
  PROVE  {e} = IF Touched(about, caret) = {} THEN {Span(s, caret, caret)}
               ELSE Spans(s, Touched(about, caret))
<1> DEFINE c == ScreenOf(about)
           touched == Touched(about, caret)
<1>0. touched = {r \in Pieces(about) : /\ r.from < caret /\ caret <= r.to
                                       /\ r.class # "literal"}
  BY DEF Touched
<1> HIDE DEF touched
<1>1. \A r \in touched : WordAt(s, c, caret, r.from, r.to, r.class)
  BY <1>0, PieceRuns DEF WordAt
<1>2. ASSUME NEW f, NEW t, NEW k, WordAt(s, c, caret, f, t, k)
      PROVE  [from |-> f, to |-> t, class |-> k] \in touched
  <2> DEFINE r == [from |-> f, to |-> t, class |-> k]
  <2>1. r.from = f /\ r.to = t /\ r.class = k
    OBVIOUS
  <2>2. r \in Pieces(about)
    BY <1>2, PieceRuns DEF WordAt
  <2> HIDE DEF r
  <2>3. r \in touched
    BY <1>0, <1>2, <2>1, <2>2 DEF WordAt
  <2> QED
    BY <2>3 DEF r
<1> HIDE DEF c
<1>3. CASE \E f, t, k : WordAt(s, c, caret, f, t, k) /\ e = Span(s, f, t)
  <2>1. PICK f, t, k : WordAt(s, c, caret, f, t, k) /\ e = Span(s, f, t)
    BY <1>3
  <2>2. \A r \in touched : r.from = f /\ r.to = t
    <3> TAKE r \in touched
    <3>1. WordAt(s, c, caret, r.from, r.to, r.class)
      BY <1>1
    <3>2. caret \in Nat
      OBVIOUS
    <3> QED
      BY <2>1, <3>1, <3>2, RunsMeet DEF WordAt
  <2>3. \E r \in touched : r.from = f /\ r.to = t
    <3> DEFINE r == [from |-> f, to |-> t, class |-> k]
    <3>1. r \in touched /\ r.from = f /\ r.to = t
      BY <1>2, <2>1
    <3> HIDE DEF r
    <3> QED
      BY <3>1
  <2>4. Spans(s, touched) = {e}
    BY <2>1, <2>2, <2>3 DEF Spans
  <2>5. touched # {}
    BY <2>3
  <2> QED
    BY <2>4, <2>5 DEF touched
<1>4. CASE ~\E f, t, k : WordAt(s, c, caret, f, t, k)
  <2>1. touched = {}
    BY <1>1, <1>4
  <2>2. e = Span(s, caret, caret)
    BY <1>4 DEF IsEdit, c
  <2> QED
    BY <2>1, <2>2 DEF touched
<1> QED
  BY <1>3, <1>4 DEF IsEdit, c

(* Positions in a region.                                                    *)
IsRegionOf(s, i, z, u, region) ==
  /\ i \in 0..Len(s) /\ z \in i..Len(s)
  /\ IsPart(s, i, z, u) /\ u \in Texts /\ Len(u) = z - i
  /\ region.start = CaretPosition(s, i)

LEMMA RegionPositions ==
  ASSUME NEW s \in Texts, NEW i, NEW z, NEW u, NEW region, IsRegionOf(s, i, z, u, region),
         NEW m \in 0..(z - i)
  PROVE  /\ ToEmbedded(region, CaretPosition(s, i + m)) = CaretPosition(u, m)
         /\ ToHost(region, CaretPosition(u, m)) = CaretPosition(s, i + m)
<1>1. /\ i \in Nat /\ z \in Nat /\ Len(s) \in Nat /\ m \in Nat
      /\ i + m \in 0..Len(s) /\ m \in 0..Len(u)
      /\ i \in 0..Len(s) /\ z \in i..Len(s) /\ u \in Texts /\ u = SubSeq(s, i + 1, z)
      /\ region.start = CaretPosition(s, i)
  BY DEF Texts, IsRegionOf, IsPart
<1>2. /\ LinesBefore(s, i + m) = LinesBefore(u, m) + LinesBefore(s, i)
      /\ Column(s, i + m, i + m) = Column(u, m, m) + (IF LinesBefore(u, m) = 0
                                                      THEN Column(s, i, i) ELSE 0)
  <2>1. i \in 0..Len(s) /\ z \in i..Len(s) /\ m \in 0..(z - i)
    BY <1>1
  <2>2. u = SubSeq(s, i + 1, z)
    BY <1>1
  <2> QED
    BY <2>1, <2>2, PartCarets
<1>3. /\ CaretPosition(s, i + m) = [line |-> LinesBefore(s, i + m),
                                    character |-> Column(s, i + m, i + m)]
      /\ CaretPosition(s, i) = [line |-> LinesBefore(s, i), character |-> Column(s, i, i)]
      /\ CaretPosition(u, m) = [line |-> LinesBefore(u, m), character |-> Column(u, m, m)]
  BY <1>1, CaretFacts
<1>4. /\ LinesBefore(s, i) \in Nat /\ Column(s, i, i) \in Nat
      /\ LinesBefore(u, m) \in Nat /\ Column(u, m, m) \in Nat
  BY <1>1, CaretFacts
<1> DEFINE L == LinesBefore(s, i)
           C == Column(s, i, i)
           l == LinesBefore(u, m)
           k == Column(u, m, m)
<1>5. /\ CaretPosition(s, i + m) = [line |-> l + L, character |-> k + (IF l = 0 THEN C ELSE 0)]
      /\ region.start = [line |-> L, character |-> C]
      /\ CaretPosition(u, m) = [line |-> l, character |-> k]
      /\ L \in Nat /\ C \in Nat /\ l \in Nat /\ k \in Nat
  BY <1>1, <1>2, <1>3, <1>4
<1> HIDE DEF L, C, l, k
<1>6. ToEmbedded(region, CaretPosition(s, i + m)) = CaretPosition(u, m)
  <2>1. (l + L) - L = l /\ (l + L = L <=> l = 0)
    BY <1>5
  <2>2. (k + (IF l = 0 THEN C ELSE 0)) - (IF l = 0 THEN C ELSE 0) = k
    BY <1>5
  <2> QED
    BY <1>5, <2>1, <2>2 DEF ToEmbedded, Position
<1>7. ToHost(region, CaretPosition(u, m)) = CaretPosition(s, i + m)
  BY <1>5 DEF ToHost, Position
<1> QED
  BY <1>6, <1>7

HostedEdit(region, e) == [start |-> ToHost(region, e.start), end |-> ToHost(region, e.end)]

LEMMA RegionEdit ==
  ASSUME NEW about, NEW s \in Texts, IsRust(about, s),
         NEW i, NEW j, IsLiteral(s, i, j), NEW caret \in i..(j - 1),
         NEW r, r = RegionAt(s, i, j)
  PROVE  IsEdit(s, ScreenOf(about), caret,
                HostedEdit(r, AcceptEdit(NewDocument(r.text), Parse(about.kind, r.text),
                                         ToEmbedded(r, CaretPosition(s, caret)))))
<1> DEFINE u == Region(s, i, j)
           kd == about.kind
           z == j - 1
           n == z - i
           m == caret - i
           cu == Unbroken(u, ClassOf(kd, u))
           c == ScreenOf(about)
           e == AcceptEdit(NewDocument(u), Parse(kd, u), CaretPosition(u, m))
<1>1. /\ i \in Nat /\ j \in Nat /\ i < j /\ j <= Len(s) /\ Len(s) \in Nat
      /\ i \in 0..Len(s) /\ z \in i..Len(s) /\ caret \in Nat /\ i <= caret /\ caret <= z
  BY LiteralFacts, RegionText DEF Texts
<1>2. u \in Texts /\ Len(u) = n /\ IsPart(s, i, z, u)
  BY RegionText DEF IsPart, Region
<1>3. /\ n \in Nat /\ m \in Nat /\ m \in 0..n /\ i + m = caret
      /\ i + n < Len(s) /\ i + n + 1 = j
  BY <1>1
<1>4. /\ c[i] = None /\ c[j] = None
      /\ \A x \in 1..n : cu[x] = c[i + x]
  BY RegionScreen
<1>5. r.text = u /\ r.start = CaretPosition(s, i)
  BY DEF RegionAt, Region
<1> HIDE DEF u, cu, c, z
<1>6. ASSUME NEW x \in 0..n
      PROVE  /\ ToEmbedded(r, CaretPosition(s, i + x)) = CaretPosition(u, x)
             /\ ToHost(r, CaretPosition(u, x)) = CaretPosition(s, i + x)
  <2> HIDE DEF e, kd, m
  <2>1. IsRegionOf(s, i, z, u, r) /\ x \in 0..(z - i)
    BY <1>1, <1>2, <1>5 DEF IsRegionOf
  <2> HIDE DEF n
  <2> QED
    BY <2>1, RegionPositions
<1> HIDE DEF n, m
<1>7. ToEmbedded(r, CaretPosition(s, caret)) = CaretPosition(u, m)
  BY <1>3, <1>6
<1>8. IsEdit(u, cu, m, e)
  <2>1. m \in 0..Len(u) /\ None # "literal"
    BY <1>2, <1>3 DEF IsRust
  <2> QED
    BY <1>2, <2>1, AcceptEditFacts DEF cu
<1>9. ASSUME NEW a \in 0..n, NEW b \in 0..n, NEW k
      PROVE  WordAt(u, cu, m, a, b, k) <=> WordAt(s, c, caret, i + a, i + b, k)
  <2>1. IsRun(u, cu, a, b, k) <=> IsRun(s, c, i + a, i + b, k)
    BY <1>1, <1>2, <1>3, <1>4, RegionRuns
  <2>2. (a < m <=> i + a < caret) /\ (m <= b <=> caret <= i + b)
    BY <1>1, <1>3
  <2> QED
    BY <2>1, <2>2 DEF WordAt
<1>10. ASSUME NEW f, NEW t, NEW k, WordAt(s, c, caret, f, t, k)
       PROVE  f - i \in 0..n /\ t - i \in 0..n /\ i + (f - i) = f /\ i + (t - i) = t
  <2>1. /\ f \in Nat /\ t \in Nat /\ f < caret /\ caret <= t /\ k # None
        /\ \A x \in (f + 1)..t : c[x] = k
    BY <1>10 DEF WordAt, IsRun
  <2>2. i <= f
    <3>1. ~(i <= f) => i \in (f + 1)..t
      BY <1>1, <2>1
    <3> QED
      BY <1>4, <2>1, <3>1
  <2>3. t < j
    <3>1. ~(t < j) => j \in (f + 1)..t
      BY <1>1, <2>1 DEF z
    <3> QED
      BY <1>4, <2>1, <3>1
  <2> QED
    BY <1>1, <2>1, <2>2, <2>3 DEF n, z
<1> HIDE DEF e
<1>11. ASSUME NEW a, NEW b, NEW k, WordAt(u, cu, m, a, b, k), e = Span(u, a, b)
       PROVE  IsEdit(s, c, caret, HostedEdit(r, e))
  <2>1. a \in 0..n /\ b \in 0..n
    BY <1>2, <1>11 DEF WordAt, IsRun
  <2>2. WordAt(s, c, caret, i + a, i + b, k)
    BY <1>9, <1>11, <2>1
  <2>3. HostedEdit(r, e) = Span(s, i + a, i + b)
    BY <1>6, <1>11, <2>1 DEF HostedEdit, Span
  <2> QED
    BY <2>2, <2>3 DEF IsEdit
<1>12. ASSUME ~\E a, b, k : WordAt(u, cu, m, a, b, k), e = Span(u, m, m)
       PROVE  IsEdit(s, c, caret, HostedEdit(r, e))
  <2>1. ~\E f, t, k : WordAt(s, c, caret, f, t, k)
    <3>1. SUFFICES ASSUME NEW f, NEW t, NEW k, WordAt(s, c, caret, f, t, k) PROVE FALSE
      OBVIOUS
    <3>2. f - i \in 0..n /\ t - i \in 0..n /\ i + (f - i) = f /\ i + (t - i) = t
      BY <1>10, <3>1
    <3>3. WordAt(u, cu, m, f - i, t - i, k)
      BY <1>9, <3>1, <3>2
    <3> QED
      BY <1>12, <3>3
  <2>2. HostedEdit(r, e) = Span(s, caret, caret)
    BY <1>3, <1>6, <1>12 DEF HostedEdit, Span
  <2> QED
    BY <2>1, <2>2 DEF IsEdit
<1>13. IsEdit(s, c, caret, HostedEdit(r, e))
  <2>1. \/ \E a, b, k : WordAt(u, cu, m, a, b, k) /\ e = Span(u, a, b)
        \/ (~\E a, b, k : WordAt(u, cu, m, a, b, k)) /\ e = Span(u, m, m)
    BY <1>8 DEF IsEdit
  <2> QED
    BY <1>11, <1>12, <2>1
<1>14. e = AcceptEdit(NewDocument(r.text), Parse(about.kind, r.text),
                     ToEmbedded(r, CaretPosition(s, caret)))
  BY <1>5, <1>7 DEF e
<1> QED
  BY <1>13, <1>14 DEF c

LEMMA LiteralsApart ==
  ASSUME NEW s \in Texts, NEW caret \in Nat,
         NEW i, NEW j, IsLiteral(s, i, j), i <= caret, caret < j,
         NEW p, NEW q, IsLiteral(s, p, q), p <= caret, caret < q
  PROVE  i = p /\ j = q
<1>1. i \in Nat /\ j \in Nat /\ p \in Nat /\ q \in Nat /\ i < j /\ p < q
  BY LiteralFacts
<1>2. /\ i \in Quotes(s) /\ j \in Quotes(s) /\ p \in Quotes(s) /\ q \in Quotes(s)
      /\ \A k \in Quotes(s) : k <= i \/ j <= k
      /\ \A k \in Quotes(s) : k <= p \/ q <= k
  BY DEF IsLiteral
<1>3. (p <= i \/ j <= p) /\ (i <= p \/ q <= i) /\ (q <= i \/ j <= q) /\ (j <= p \/ q <= j)
  BY <1>2
<1> QED
  BY <1>1, <1>3

Replacements(about, caret) ==
  IF ~InQuery(about, caret) THEN {}
  ELSE IF Touched(about, caret) = {} THEN {Span(about.text, caret, caret)}
  ELSE Spans(about.text, Touched(about, caret))

LEMMA InQueryFacts ==
  ASSUME NEW about, NEW s \in Texts, IsRust(about, s), NEW caret
  PROVE  InQuery(about, caret) <=>
           \E i, j : IsLiteral(s, i, j) /\ i <= caret /\ caret < j /\ i + 1 < j
<1>1. InQuery(about, caret) <=>
        \E l \in Literals(s) : l[1] <= caret /\ caret < l[2] /\ l[1] + 1 < l[2]
  BY DEF InQuery, IsRust
<1>2. ASSUME NEW l \in Literals(s), l[1] <= caret, caret < l[2], l[1] + 1 < l[2]
      PROVE  \E i, j : IsLiteral(s, i, j) /\ i <= caret /\ caret < j /\ i + 1 < j
  <2>1. PICK i, j : IsLiteral(s, i, j) /\ l = <<i, j>>
    BY LiteralsFacts
  <2>2. l[1] = i /\ l[2] = j
    BY <2>1
  <2> QED
    BY <1>2, <2>1, <2>2
<1>3. ASSUME NEW i, NEW j, IsLiteral(s, i, j), i <= caret, caret < j, i + 1 < j
      PROVE  \E l \in Literals(s) : l[1] <= caret /\ caret < l[2] /\ l[1] + 1 < l[2]
  <2>1. <<i, j>> \in Literals(s)
    BY <1>3, LiteralsFacts
  <2>2. <<i, j>>[1] = i /\ <<i, j>>[2] = j
    OBVIOUS
  <2> QED
    BY <1>3, <2>1, <2>2
<1> QED
  BY <1>1, <1>2, <1>3

(* The edits of the offers at a caret.                                        *)
LEMMA EditsAreReplacements ==
  ASSUME NEW o, NEW s, IsDocumentOf(o, s), IsFresh(o), kind \in Kinds,
         NEW about, about = [text |-> s, language |-> o.language, kind |-> kind],
         NEW caret \in 0..Len(s)
  PROVE  CompletionEdits(o, CaretPosition(s, caret)) = Replacements(about, caret)
<1> DEFINE position == CaretPosition(s, caret)
           screen == ScreenOf(about)
<1>1. /\ s \in Texts /\ o.document = NewDocument(s)
      /\ about.text = s /\ about.language = o.language /\ about.kind = kind
      /\ None # "literal" /\ kind # "literal" /\ caret \in Nat
  BY DocumentAssumption DEF IsDocumentOf, DocumentAssumption
<1>2. ASSUME NEW e, IsEdit(s, screen, caret, e), InQuery(about, caret)
      PROVE  {e} = Replacements(about, caret)
  <2> HIDE DEF position
  <2>1. {e} = IF Touched(about, caret) = {} THEN {Span(s, caret, caret)}
              ELSE Spans(s, Touched(about, caret))
    <3>1. s \in Texts /\ about.text = s /\ IsEdit(s, ScreenOf(about), caret, e)
      BY <1>1, <1>2
    <3> HIDE DEF screen
    <3> QED
      BY <3>1, EditIsTheWord, ZenonT(30)
  <2> QED
    BY <1>1, <1>2, <2>1 DEF Replacements
<1>3. CASE o.language = "sql"
  <2> DEFINE e == AcceptEdit(NewDocument(s), Parse(kind, s), position)
  <2>1. CompletionEdits(o, position) = {e}
    BY <1>1, <1>3, AnalysedIsFresh DEF CompletionEdits
  <2>2. screen = Unbroken(s, ClassOf(kind, s))
    BY <1>1, <1>3, SqlScreen
  <2>3. IsEdit(s, screen, caret, e)
    BY <1>1, <2>2, AcceptEditFacts
  <2>4. InQuery(about, caret)
    BY <1>1, <1>3 DEF InQuery
  <2> HIDE DEF e, screen, position
  <2> QED
    BY <1>2, <2>1, <2>3, <2>4 DEF position
<1>4. CASE o.language # "sql"
  <2> DEFINE regions == Extract(NewDocument(s), Nodes(NewDocument(s)))
             Change(r) == HostedEdit(r, AcceptEdit(NewDocument(r.text), Parse(kind, r.text),
                                                 ToEmbedded(r, position)))
             At(r) == InRegion(r, position)
  <2>1. CompletionEdits(o, position) = {Change(r) : r \in {q \in regions : At(q)}}
    BY <1>4, AnalysedIsFresh DEF CompletionEdits, HostedEdit
  <2>2. \A r : r \in regions <=> \E i, j : IsLiteral(s, i, j) /\ i + 1 < j /\ r = RegionAt(s, i, j)
    BY <1>1, Extracted
  <2>3. IsRust(about, s)
    BY <1>1, <1>4 DEF IsRust
  <2>4. ASSUME NEW i, NEW j, IsLiteral(s, i, j)
        PROVE  /\ At(RegionAt(s, i, j)) <=> i <= caret /\ caret < j
               /\ i <= caret /\ caret < j => caret \in i..(j - 1)
    <3>1. i \in Nat /\ j \in Nat /\ i < j /\ i \in 0..Len(s) /\ j - 1 \in i..Len(s)
      BY <1>1, <2>4, LiteralFacts, RegionText
    <3>2. Len(s) \in Nat
      BY <1>1 DEF Texts
    <3>3. j - 1 \in 0..Len(s) /\ (caret <= j - 1 <=> caret < j)
      BY <1>1, <3>1, <3>2
    <3>4. NotAfter(CaretPosition(s, i), position) <=> i <= caret
      BY <1>1, <3>1, CaretOrder
    <3>5. NotAfter(position, CaretPosition(s, j - 1)) <=> caret <= j - 1
      BY <1>1, <3>3, CaretOrder
    <3>6. At(RegionAt(s, i, j)) <=> /\ NotAfter(CaretPosition(s, i), position)
                                    /\ NotAfter(position, CaretPosition(s, j - 1))
      <4> HIDE DEF position
      <4> QED
        BY DEF InRegion, RegionAt
    <3>7. i <= caret /\ caret < j => caret \in i..(j - 1)
      BY <1>1, <3>1
    <3> QED
      BY <3>3, <3>4, <3>5, <3>6, <3>7
  <2>5. ASSUME NEW i, NEW j, IsLiteral(s, i, j), i <= caret, caret < j
        PROVE  IsEdit(s, screen, caret, Change(RegionAt(s, i, j)))
    <3> DEFINE r == RegionAt(s, i, j)
    <3>1. caret \in i..(j - 1)
      BY <2>4, <2>5
    <3> HIDE DEF r
    <3>2. IsEdit(s, screen, caret, Change(r))
      BY <1>1, <2>3, <2>5, <3>1, RegionEdit DEF r
    <3> QED
      BY <3>2 DEF r
  <2> HIDE DEF regions, Change, At, screen
  <2>6. InQuery(about, caret) <=>
          \E i, j : IsLiteral(s, i, j) /\ i <= caret /\ caret < j /\ i + 1 < j
    BY <1>1, <2>3, InQueryFacts
  <2>7. CASE InQuery(about, caret)
    <3>1. PICK i, j : IsLiteral(s, i, j) /\ i <= caret /\ caret < j /\ i + 1 < j
      BY <2>6, <2>7
    <3> DEFINE r == RegionAt(s, i, j)
    <3>2. r \in regions /\ At(r)
      BY <2>2, <2>4, <3>1
    <3>3. ASSUME NEW q \in regions, At(q) PROVE q = r
      <4>1. PICK f, t : IsLiteral(s, f, t) /\ q = RegionAt(s, f, t)
        BY <2>2
      <4>2. f <= caret /\ caret < t
        BY <2>4, <3>3, <4>1
      <4>3. i = f /\ j = t
        BY <1>1, <3>1, <4>1, <4>2, LiteralsApart
      <4> QED
        BY <4>1, <4>3
    <3>4. IsEdit(s, screen, caret, Change(r))
      BY <2>5, <3>1
    <3> HIDE DEF r
    <3>5. {q \in regions : At(q)} = {r}
      BY <3>2, <3>3
    <3>6. CompletionEdits(o, position) = {Change(r)}
      BY <2>1, <3>5
    <3> HIDE DEF position
    <3> QED
      BY <1>2, <2>7, <3>4, <3>6 DEF position
  <2>8. CASE ~InQuery(about, caret)
    <3>1. ASSUME NEW q \in regions, At(q) PROVE FALSE
      <4>1. PICK f, t : IsLiteral(s, f, t) /\ f + 1 < t /\ q = RegionAt(s, f, t)
        BY <2>2
      <4>2. f <= caret /\ caret < t
        BY <2>4, <3>1, <4>1
      <4> QED
        BY <2>6, <2>8, <4>1, <4>2
    <3>2. {q \in regions : At(q)} = {}
      BY <3>1
    <3>3. CompletionEdits(o, position) = {}
      BY <2>1, <3>2
    <3> QED
      BY <2>8, <3>3 DEF Replacements
  <2> QED
    BY <2>7, <2>8
<1> QED
  BY <1>3, <1>4
-----------------------------------------------------------------------------
(* A request that is answered asks for the text as the server has it.          *)
LEMMA RequestAsks ==
  ASSUME NEW e, NEW s, NEW c, NEW t, Follows(e, s, c, t), Len(c) \in Nat, NEW i \in 1..Len(c),
         \A j \in 1..i : c[j].type \in Requests
  PROVE  Asks(e, s, c[i])
<1>1. PICK f : f[0] = s /\ FollowsBy(e, f, c)
  BY DEF Follows
<1>2. ASSUME NEW j \in 1..i PROVE f[j] = f[j - 1] /\ Asks(e, f[j - 1], c[j])
  <2>1. j \in 1..Len(c) /\ c[j].type \in Requests
    OBVIOUS
  <2> QED
    BY <1>1, <2>1 DEF FollowsBy, MessageLeads, Requests
<1> DEFINE N == {n \in Nat : n <= i => f[n] = s}
<1>3. 0 \in N
  BY <1>1
<1>4. ASSUME NEW n \in Nat, n \in N PROVE n + 1 \in N
  <2> SUFFICES ASSUME n + 1 <= i PROVE f[n + 1] = s
    OBVIOUS
  <2>1. n + 1 \in 1..i /\ (n + 1) - 1 = n /\ n <= i
    OBVIOUS
  <2> QED
    BY <1>2, <1>4, <2>1
<1> HIDE DEF N
<1>5. i - 1 \in Nat /\ i \in 1..i
  OBVIOUS
<1>6. i - 1 \in N
  BY <1>3, <1>4, <1>5, CountUp
<1>7. f[i - 1] = s
  BY <1>5, <1>6 DEF N
<1> QED
  BY <1>2, <1>5, <1>7

LEMMA AnsweredAsks ==
  ASSUME InSync, open # None, NEW i \in DOMAIN channel, NEW type, Answers(i, type)
  PROVE  IsDocumentOf(open, meant) /\ Asks(encoding, meant, channel[i])
<1>1. IsDocumentOf(open, meant)
  BY DEF InSync, OpenIsMeant
<1>2. PICK S : channel \in Seq(S)
  BY DEF InSync
<1>3. PICK t \in Texts \cup {None} : Follows(encoding, meant, channel, t)
  BY DEF InSync, OnTheWay
<1>4. Len(channel) \in Nat /\ i \in 1..Len(channel)
  BY <1>2
<1>5. \A j \in 1..i : channel[j].type \in Requests
  BY DEF Answers
<1> QED
  BY <1>1, <1>3, <1>4, <1>5, RequestAsks

PartFits(p) ==
  p # None => IF "range" \in DOMAIN p THEN Decode(p.data) = Reaching(p.about, p.range)
              ELSE p.edits = Replacements(p.about, p.caret)

LEMMA PartIsTheAnswer ==
  ASSUME encoding' = encoding
  PROVE  AnswersFitTheText' <=> PartFits(part')
<1>1. RangeTokensAreTheRanges' <=> Decode(part'.data) = Reaching(part'.about, part'.range)
  BY DEF RangeTokensAreTheRanges, Reaching, OnScreen, CaretPosition, Units
<1>2. WordsAreReplaced' <=> part'.edits = Replacements(part'.about, part'.caret)
  BY DEF WordsAreReplaced, Replacements, Touched, Spans, Span, CaretPosition, Units
<1> QED
  BY <1>1, <1>2 DEF AnswersFitTheText, PartFits

LEMMA RangeAnswered ==
  ASSUME InSync, Prepared, open # None, NEW i \in DOMAIN channel, SemanticTokensRange(i)
  PROVE  PartFits(part')
<1> DEFINE about == Described
           range == channel[i].range
           G == SegmentsOf(open)
           p == [range |-> range, data |-> Encode(Kept(G, range)), about |-> about]
<1>1. Answers(i, "range") /\ part' = p
  BY DEF SemanticTokensRange, Kept
<1>2. IsDocumentOf(open, meant) /\ Asks(encoding, meant, channel[i]) /\ channel[i].type = "range"
  BY <1>1, AnsweredAsks DEF Answers
<1>3. meant \in Texts /\ about.text = meant
      /\ about = [text |-> meant, language |-> open.language, kind |-> kind]
  BY <1>2 DEF IsDocumentOf, Described
<1>4. PICK a, b : IsBetween(meant, range, a, b)
  <2>1. PICK a, b \in 0..Len(meant) :
          /\ a < b
          /\ range = [start |-> CaretOf(encoding, meant, a), end |-> CaretOf(encoding, meant, b)]
    BY <1>2 DEF Asks
  <2> QED
    BY <2>1, CaretIsCaret DEF IsBetween
<1>5. ArePlaced(G) /\ G = {OnScreen(about, piece) : piece \in Pieces(about)}
  BY <1>2, <1>3, SegmentsAreShown DEF Prepared
<1> HIDE DEF about, range, G
<1>6. Kept(G, range) = Reaching(about, range)
  BY <1>3, <1>4, <1>5, RangeSegments
<1>7. Decode(Encode(Kept(G, range))) = Kept(G, range)
  <2>1. Kept(G, range) \subseteq G
    BY DEF Kept
  <2>2. ArePlaced(Kept(G, range))
    BY <1>5, <2>1, PartIsPlaced
  <2> QED
    BY <2>2, DecodeEncode
<1>8. "range" \in DOMAIN p /\ p.data = Encode(Kept(G, range)) /\ p.about = about /\ p.range = range
  OBVIOUS
<1> HIDE DEF p
<1> QED
  BY <1>1, <1>6, <1>7, <1>8 DEF PartFits

LEMMA WordsAnswered ==
  ASSUME InSync, Prepared, open # None, NEW i \in DOMAIN channel, Completion(i)
  PROVE  PartFits(part')
<1> DEFINE about == Described
           caret == channel[i].caret
           edits == CompletionEdits(open, channel[i].position)
           p == [caret |-> caret, edits |-> edits, about |-> about]
<1>1. Answers(i, "completion") /\ part' = p
  BY DEF Completion
<1>2. IsDocumentOf(open, meant) /\ Asks(encoding, meant, channel[i])
      /\ channel[i].type = "completion"
  BY <1>1, AnsweredAsks DEF Answers
<1>3. about = [text |-> meant, language |-> open.language, kind |-> kind]
  BY DEF Described
<1>4. caret \in 0..Len(meant) /\ channel[i].position = CaretPosition(meant, caret)
  BY <1>2, CaretIsCaret DEF Asks
<1> HIDE DEF about, caret
<1>5. edits = Replacements(about, caret)
  BY <1>2, <1>3, <1>4, EditsAreReplacements DEF Prepared
<1>6. "range" \notin DOMAIN p /\ p.edits = edits /\ p.about = about /\ p.caret = caret
  OBVIOUS
<1> HIDE DEF p, edits
<1> QED
  BY <1>1, <1>5, <1>6 DEF PartFits

LEMMA NextAnswers ==
  ASSUME InSync, Prepared, Next
  PROVE  encoding' = encoding /\ PartFits(part')
<1>1. ASSUME part' = None PROVE PartFits(part')
  BY <1>1 DEF PartFits
<1>2. ASSUME \/ \E s \in Contents : ReplaceWhole(s) \/ \E l \in Languages : OpenBuffer(s, l)
             \/ \E from \in Carets :
                  \/ RequestCompletion(from)
                  \/ \E to \in from..Len(buffer) :
                       RequestRange(from, to) \/ \E new \in Inserts : Replace(from, to, new)
             \/ SendChanges \/ CloseBuffer
             \/ RequestFull \/ RequestDelta
      PROVE  encoding' = encoding /\ part' = None
  BY <1>2 DEF ReplaceWhole, OpenBuffer, RequestCompletion, RequestRange, Replace, SendChanges,
              CloseBuffer, RequestFull, RequestDelta, Edit, Request, Client
<1>3. ASSUME DidOpen \/ DidChange \/ DidClose \/ Analyse \/ \E k \in Kinds : Reload(k)
      PROVE  encoding' = encoding /\ part' = None
  BY <1>3 DEF DidOpen, DidChange, DidClose, Handles, Analyse, Reload
<1>4. ASSUME NEW i \in DOMAIN channel,
             \/ SemanticTokensFull(i) \/ SemanticTokensFullDelta(i)
             \/ SemanticTokensRange(i) \/ Completion(i)
      PROVE  encoding' = encoding /\ PartFits(part')
  <2>1. encoding' = encoding
    BY <1>4 DEF SemanticTokensFull, SemanticTokensFullDelta, SemanticTokensRange, Completion,
                Answers
  <2>2. ASSUME SemanticTokensFull(i) \/ SemanticTokensFullDelta(i) \/ open = None
        PROVE  part' = None
    BY <1>4, <2>2 DEF SemanticTokensFull, SemanticTokensFullDelta, SemanticTokensRange,
                      Completion, Nothing, Show
  <2> QED
    BY <1>1, <1>4, <2>1, <2>2, RangeAnswered, WordsAnswered
<1> QED
  BY <1>1, <1>2, <1>3, <1>4 DEF Next

(* A range is answered with just the tokens that reach into it, and an offer    *)
(* replaces the word at the caret, in the positions of the file: of every text, *)
(* in both languages, for every range and caret, whatever the client edited     *)
(* and whichever requests passed the request.                               *)
THEOREM AnswersAgree ==
  ASSUME ~Unannounced, DOMAIN None # Fields
  PROVE  Spec => []AnswersFitTheText
<1>1. Init => AnswersFitTheText
  BY DEF Init, AnswersFitTheText
<1>2. InSync /\ Prepared /\ AnswersFitTheText /\ [Next]_vars => AnswersFitTheText'
  <2>1. ASSUME InSync, Prepared, Next PROVE AnswersFitTheText'
    BY <2>1, NextAnswers, PartIsTheAnswer
  <2>2. ASSUME AnswersFitTheText, UNCHANGED vars PROVE AnswersFitTheText'
    <3>1. UNCHANGED <<encoding, part>>
      BY <2>2 DEF vars
    <3>2. PartFits(part)
      BY <2>2 DEF AnswersFitTheText, PartFits, RangeTokensAreTheRanges, Reaching,
                  WordsAreReplaced, Replacements, Touched, Spans, Span
    <3> QED
      BY <3>1, <3>2, PartIsTheAnswer
  <2> QED
    BY <2>1, <2>2
<1> QED
  BY <1>1, <1>2, InitSyncs, StepSyncs, InitPrepares, StepPrepares, PTL DEF Spec
-----------------------------------------------------------------------------
(* Types.                                                                    *)
Sized(G) == \A g \in G : g.length \in Nat /\ g.class \in TokenClasses

LEMMA EncodeType ==
  ASSUME NEW G, ArePlaced(G), Sized(G)
  PROVE  Encode(G) \in Seq(Tokens)
<1> DEFINE n == Cardinality(G)
           data == Encode(G)
<1>1. n \in Nat
  BY RankFacts
<1>2. PICK S : data \in Seq(S)
  BY EncodeFacts
<1>3. Len(data) = n
  BY EncodeFacts
<1>4. ASSUME NEW i \in 1..n PROVE data[i] \in Tokens
  <2>1. /\ data[i].deltaLine = LineOfNth(G, i) - LineOfNth(G, i - 1)
        /\ data[i].deltaStart = IF LineOfNth(G, i) = LineOfNth(G, i - 1)
                                THEN StartOfNth(G, i) - StartOfNth(G, i - 1)
                                ELSE StartOfNth(G, i)
        /\ data[i].length = Nth(G, i).length /\ data[i].class = Nth(G, i).class
        /\ IsToken(data[i])
    BY EncodeFacts
  <2>2. Nth(G, i) \in G
    BY NthFacts
  <2>3. i \in 0..n /\ i - 1 \in 0..n
    BY <1>1
  <2>4. /\ LineOfNth(G, i) \in Nat /\ StartOfNth(G, i) \in Nat
        /\ LineOfNth(G, i - 1) \in Nat /\ StartOfNth(G, i - 1) \in Nat
    BY <2>3, NthFacts
  <2>5. /\ LineOfNth(G, i - 1) <= LineOfNth(G, i)
        /\ LineOfNth(G, i - 1) = LineOfNth(G, i) => StartOfNth(G, i - 1) <= StartOfNth(G, i)
    BY NthOrder
  <2> HIDE DEF data, n
  <2>6. data[i].deltaLine \in Nat /\ data[i].deltaStart \in Nat
    BY <2>1, <2>4, <2>5
  <2>7. data[i].length \in Nat /\ data[i].class \in TokenClasses
    BY <2>1, <2>2 DEF Sized
  <2> QED
    BY <2>1, <2>6, <2>7 DEF IsToken, Tokens
<1> HIDE DEF data, n
<1>5. data = [i \in 1..n |-> data[i]]
  BY <1>2, <1>3
<1> QED
  BY <1>1, <1>4, <1>5 DEF data

LEMMA ClassAtType ==
  ASSUME NEW s, NEW k, NEW i
  PROVE  ClassAt(s, k, i) \in {"literal", k, None}
BY DEF ClassAt

LEMMA ScreenType ==
  ASSUME NEW about, about.kind \in Kinds, NEW i, ScreenAt(about, i) # None
  PROVE  ScreenAt(about, i) \in TokenClasses
BY ClassAtType DEF ScreenAt, TokenClasses

LEMMA SegmentsSized ==
  ASSUME NEW o, NEW s, IsDocumentOf(o, s), IsFresh(o), kind \in Kinds
  PROVE  Sized(SegmentsOf(o))
<1> DEFINE about == [text |-> s, language |-> o.language, kind |-> kind]
<1>1. about.text = s /\ about.kind \in Kinds /\ s \in Texts
  BY DEF IsDocumentOf
<1>2. SegmentsOf(o) = {OnScreen(about, piece) : piece \in Pieces(about)}
  BY SegmentsAreShown
<1> HIDE DEF about
<1>3. ASSUME NEW r \in Pieces(about)
      PROVE  OnScreen(about, r).length \in Nat /\ OnScreen(about, r).class \in TokenClasses
  <2> DEFINE a == r.from
             b == r.to
  <2>1. IsRun(s, ScreenOf(about), a, b, r.class) /\ OnScreen(about, r) = Seg(s, a, b, r.class)
    BY <1>1, PieceRuns
  <2>2. a \in 0..Len(s) /\ b \in 0..Len(s) /\ a < b /\ LinesBefore(s, a) = LinesBefore(s, b)
    BY <1>1, <2>1, ScreenUnbroken, ZenonT(30)
  <2>3. b \in a..Len(s) /\ Len(s) \in Nat /\ a + 1 \in (a + 1)..b /\ a + 1 \in 1..Len(s)
    BY <1>1, <2>2 DEF Texts
  <2>4. Column(s, a, a) < Column(s, b, b)
    BY <1>1, <2>2, <2>3, OnALine
  <2>5. Column(s, a, a) \in Nat /\ Column(s, b, b) \in Nat
    BY <1>1, <2>2, CaretFacts
  <2>6. r.class # None /\ ScreenOf(about)[a + 1] = r.class
    BY <2>1, <2>3 DEF IsRun
  <2>7. r.class \in TokenClasses
    BY <1>1, <2>3, <2>6, ScreenType DEF ScreenOf
  <2>8. /\ Seg(s, a, b, r.class).length = Column(s, b, b) - Column(s, a, a)
        /\ Seg(s, a, b, r.class).class = r.class
    BY DEF Seg
  <2> HIDE DEF a, b
  <2> QED
    BY <2>1, <2>4, <2>5, <2>7, <2>8
<1> QED
  BY <1>2, <1>3 DEF Sized

LEMMA StreamType ==
  ASSUME NEW o, NEW s, IsDocumentOf(o, s), IsFresh(o), kind \in Kinds
  PROVE  /\ ComputeTokens(o) \in Seq(Tokens)
         /\ \A range : Encode(Kept(SegmentsOf(o), range)) \in Seq(Tokens)
<1> DEFINE G == SegmentsOf(o)
<1>1. ArePlaced(G) /\ Sized(G)
  BY SegmentsAreShown, SegmentsSized
<1> HIDE DEF G
<1>2. ASSUME NEW range PROVE Encode(Kept(G, range)) \in Seq(Tokens)
  <2>1. Kept(G, range) \subseteq G
    BY DEF Kept
  <2>2. ArePlaced(Kept(G, range)) /\ Sized(Kept(G, range))
    BY <1>1, <2>1, PartIsPlaced DEF Sized
  <2> QED
    BY <2>2, EncodeType
<1>3. Encode(G) \in Seq(Tokens)
  BY <1>1, EncodeType
<1> QED
  BY <1>2, <1>3 DEF ComputeTokens, G

LEMMA LocationType ==
  ASSUME NEW s \in Texts, NEW i \in 0..Len(s)
  PROVE  Location(s, i) \in Locations
<1>1. LinesBefore(s, i) \in Nat /\ LineStart(s, i) \in 0..i /\ i \in Nat
  BY CaretFacts
<1> QED
  BY <1>1 DEF Location, Locations

LEMMA ParseType ==
  ASSUME NEW s \in Texts, NEW kd \in Kinds
  PROVE  Parse(kd, s) \subseteq [start : Locations, end : Locations, class : TokenClasses]
<1> SUFFICES ASSUME NEW tok \in Parse(kd, s)
             PROVE  tok \in [start : Locations, end : Locations, class : TokenClasses]
  OBVIOUS
<1>1. PICK f, t, k : IsRun(s, ClassOf(kd, s), f, t, k) /\ tok = TokenAt(s, f, t, k)
  BY ParseFacts
<1>2. f \in 0..Len(s) /\ t \in 0..Len(s) /\ f < t /\ k # None /\ Len(s) \in Nat
  BY <1>1 DEF IsRun, Texts
<1>3. f + 1 \in 1..Len(s) /\ f + 1 \in (f + 1)..t
  BY <1>2
<1>4. ClassAt(s, kd, f + 1) = k
  BY <1>1, <1>3 DEF IsRun, ClassOf
<1>5. k \in TokenClasses
  BY <1>2, <1>4, ClassAtType DEF TokenClasses
<1> QED
  BY <1>1, <1>2, <1>5, LocationType DEF TokenAt

LEMMA CaretType ==
  ASSUME NEW s \in Texts, NEW i \in 0..Len(s)
  PROVE  CaretPosition(s, i) \in Positions
BY CaretFacts DEF Positions

LEMMA ExtractType ==
  ASSUME NEW s \in Texts
  PROVE  Extract(NewDocument(s), Nodes(NewDocument(s)))
           \subseteq [text : Seq(Chars), start : Positions, end : Positions]
<1> SUFFICES ASSUME NEW r \in Extract(NewDocument(s), Nodes(NewDocument(s)))
             PROVE  r \in [text : Seq(Chars), start : Positions, end : Positions]
  OBVIOUS
<1>1. PICK i, j : IsLiteral(s, i, j) /\ r = RegionAt(s, i, j)
  BY Extracted
<1>2. i \in 0..Len(s) /\ j - 1 \in i..Len(s) /\ Region(s, i, j) \in Texts
  BY <1>1, RegionText
<1>3. j - 1 \in 0..Len(s)
  BY <1>2
<1> QED
  BY <1>1, <1>2, <1>3, CaretType DEF RegionAt, Region, Texts

LEMMA NodesType ==
  ASSUME NEW s \in Texts
  PROVE  Nodes(NewDocument(s)) \subseteq [byte : Nat, point : Points, char : Chars]
<1>1. ASSUME NEW i \in 0..Len(s), i < Len(s)
      PROVE  NodeAt(s, i) \in [byte : Nat, point : Points, char : Chars]
  <2>1. i + 1 \in 1..Len(s) /\ i \in Nat
    BY <1>1 DEF Texts
  <2>2. s[i + 1] \in Chars
    BY <2>1 DEF Texts
  <2>3. LinesBefore(s, i) \in Nat /\ LineStart(s, i) \in 0..Len(s)
    <3>1. LinesBefore(s, i) \in Nat /\ LineStart(s, i) \in 0..i /\ Len(s) \in Nat
      BY CaretFacts
    <3> QED
      BY <3>1
  <2>4. Offset(s, i) \in Nat /\ Offset(s, LineStart(s, i)) \in Nat
    BY <2>3, OffsetFacts
  <2> QED
    BY <2>2, <2>3, <2>4 DEF NodeAt, PointAt, Points
<1> QED
  BY <1>1, NodesAt

(* What an open document has besides the text and what is computed from it.    *)
OpenTyped(o) ==
  /\ o.language \in Languages
  /\ o.parsedSql # None => o.parsedSql.kind \in Kinds
  /\ o.lastTokens \in Streams \cup {None}

LEMMA DocumentType ==
  ASSUME NEW o, NEW s, IsDocumentOf(o, s), IsFresh(o), OpenTyped(o)
  PROVE  IsOpenDocument(o)
<1>1. s \in Texts /\ o.document = NewDocument(s) /\ DOMAIN o = Fields
  BY DEF IsDocumentOf
<1>2. o.document.text = s /\ o.document.lineStarts = ComputeLineStarts(s)
  BY <1>1 DEF NewDocument
<1> DEFINE starts == ComputeLineStarts(s)
<1>3. starts \in Seq(Nat) /\ starts # <<>> /\ Head(starts) = 0
  <2>1. /\ starts \in Seq(Nat) /\ Len(starts) = LinesBefore(s, Len(s)) + 1
        /\ \A k \in 0..Len(s) : starts[LinesBefore(s, k) + 1] = Offset(s, LineStart(s, k))
    BY <1>1, LineStartsFacts DEF AreLineStarts
  <2>2. Len(s) \in Nat /\ 0 \in 0..Len(s) /\ Len(s) \in 0..Len(s)
    BY <1>1 DEF Texts
  <2>3. LinesBefore(s, Len(s)) \in Nat
    BY <1>1, <2>2, CaretFacts
  <2>4. LinesBefore(s, 0) = 0 /\ LineStart(s, 0) = 0
    <3>1. LineStart(s, 0) \in 0..0
      BY <1>1, <2>2, CaretFacts
    <3>2. {j \in 1..0 : s[j] = "n"} = {}
      OBVIOUS
    <3>3. LinesBefore(s, 0) = 0
      BY <3>2, FS_EmptySet DEF LinesBefore
    <3> QED
      BY <3>1, <3>3
  <2> HIDE DEF starts
  <2>5. starts[1] = 0
    <3>1. starts[LinesBefore(s, 0) + 1] = Offset(s, LineStart(s, 0))
      BY <2>1, <2>2
    <3>2. Offset(s, 0) = 0
      BY <1>1, <2>2, OffsetFacts
    <3> QED
      BY <2>4, <3>1, <3>2
  <2> QED
    BY <2>1, <2>3, <2>5
<1>4. o.parsedSql # None =>
        /\ o.parsedSql.kind \in Kinds
        /\ o.parsedSql.tokens \subseteq [start : Locations, end : Locations,
                                        class : TokenClasses]
  BY <1>1, <1>2, ParseType DEF IsFresh, OpenTyped
<1>5. o.extracted # None => o.extracted \subseteq [text : Seq(Chars), start : Positions,
                                                 end : Positions]
  BY <1>1, ExtractType DEF IsFresh
<1>6. o.tree # None => o.tree \subseteq [byte : Nat, point : Points, char : Chars]
  <2>1. o.tree # None => o.tree \subseteq Nodes(NewDocument(s))
    BY <1>1 DEF IsDocumentOf
  <2> QED
    BY <1>1, <2>1, NodesType
<1> QED
  BY <1>1, <1>2, <1>3, <1>4, <1>5, <1>6 DEF IsOpenDocument, OpenTyped, Texts

LEMMA AnalysedTyped ==
  ASSUME NEW o, NEW s, IsDocumentOf(o, s), IsFresh(o), OpenTyped(o), kind \in Kinds
  PROVE  OpenTyped(Analysed(o))
<1>1. Analysed(o).language = o.language /\ Analysed(o).lastTokens = o.lastTokens
  BY AnalysedIsFresh
<1>2. Analysed(o).parsedSql # None => Analysed(o).parsedSql.kind \in Kinds
  <2>1. DOMAIN o = Fields
    BY DEF IsDocumentOf
  <2> DEFINE parsed == [kind |-> kind, tokens |-> Parse(kind, o.document.text)]
             tree == ParseRust(o.document, o.tree)
             regions == Extract(o.document, tree)
  <2>2. Analysed(o) = IF o.language = "sql"
                      THEN IF o.parsedSql # None /\ o.parsedSql.kind = kind THEN o
                           ELSE [o EXCEPT !.parsedSql = parsed]
                      ELSE IF o.extracted # None THEN o
                           ELSE [o EXCEPT !.tree = tree, !.extracted = regions]
    BY DEF Analysed
  <2>3. parsed.kind = kind
    OBVIOUS
  <2> HIDE DEF parsed, tree, regions
  <2> QED
    BY <2>1, <2>2, <2>3 DEF OpenTyped, Fields
<1> QED
  BY <1>1, <1>2 DEF OpenTyped

PartTyped(p) ==
  p # None =>
    /\ p.about \in About
    /\ \/ "range" \in DOMAIN p /\ p.range \in Ranges /\ p.data \in Seq(Tokens)
       \/ "caret" \in DOMAIN p /\ p.caret \in Nat /\ p.edits \subseteq Ranges

ShownTyped(stream) == stream \in [id : Nat, data : Seq(Tokens), about : About] \cup {None}

(* What the types of the variables need besides InSync and Prepared.          *)
Typed ==
  /\ budget \in [Bounded -> Nat]
  /\ encoding \in Encodings
  /\ opens \in Nat
  /\ ShownTyped(shown)
  /\ PartTyped(part)
  /\ open # None => OpenTyped(open)

LEMMA SpendTyped ==
  ASSUME budget \in [Bounded -> Nat], NEW what \in Bounded, Spend(what)
  PROVE  budget' \in [Bounded -> Nat]
<1>1. budget[what] \in Nat /\ budget[what] > 0 /\ budget' = [budget EXCEPT ![what] = @ - 1]
  BY DEF Spend
<1>2. budget[what] - 1 \in Nat
  BY <1>1
<1> QED
  BY <1>1, <1>2

LEMMA DescribedType ==
  ASSUME InSync, Prepared, Typed, open # None
  PROVE  Described \in About
<1>1. meant \in Seq(Chars) /\ kind \in Kinds /\ open.language \in Languages
  BY DEF InSync, OpenIsMeant, IsDocumentOf, Texts, Prepared, Typed, OpenTyped
<1> QED
  BY <1>1 DEF Described, About

LEMMA ReplacementsType ==
  ASSUME NEW about, about.text \in Texts, NEW caret \in 0..Len(about.text)
  PROVE  Replacements(about, caret) \subseteq Ranges
<1> DEFINE s == about.text
<1>1. ASSUME NEW f \in 0..Len(s), NEW t \in 0..Len(s) PROVE Span(s, f, t) \in Ranges
  <2>1. CaretPosition(s, f) \in Positions /\ CaretPosition(s, t) \in Positions
    BY CaretType
  <2> QED
    BY <2>1 DEF Span, Ranges
<1>2. ASSUME NEW r \in Touched(about, caret) PROVE Span(s, r.from, r.to) \in Ranges
  <2>1. r \in Pieces(about)
    BY DEF Touched
  <2>2. IsRun(s, ScreenOf(about), r.from, r.to, r.class)
    BY <2>1, PieceRuns
  <2>3. r.from \in 0..Len(s) /\ r.to \in 0..Len(s)
    BY <2>2, ScreenUnbroken
  <2> QED
    BY <1>1, <2>3
<1>3. Spans(s, Touched(about, caret)) \subseteq Ranges
  BY <1>2 DEF Spans
<1> QED
  BY <1>1, <1>3 DEF Replacements

(* The client.                                                               *)
LEMMA ClientTyped ==
  ASSUME Typed,
         \/ \E s \in Contents : ReplaceWhole(s) \/ \E l \in Languages : OpenBuffer(s, l)
         \/ \E from \in Carets :
              \/ RequestCompletion(from)
              \/ \E to \in from..Len(buffer) :
                   RequestRange(from, to) \/ \E new \in Inserts : Replace(from, to, new)
         \/ SendChanges \/ CloseBuffer
         \/ RequestFull \/ RequestDelta
  PROVE  Typed'
<1> DEFINE Keeps == /\ budget' = budget \/ \E what \in Bounded : Spend(what)
                    /\ opens' = opens \/ opens' = opens + 1
                    /\ shown' = shown \/ shown' = None
                    /\ part' = None /\ UNCHANGED <<encoding, open>>
<1>1. ASSUME NEW c, NEW s, Edit(c, s) PROVE Keeps
  BY <1>1 DEF Edit, Client, server, Bounded
<1>2. ASSUME NEW m, NEW what \in Bounded, Request(m, what) PROVE Keeps
  BY <1>2 DEF Request, Client, client, server
<1>3. ASSUME NEW s, NEW l, OpenBuffer(s, l) PROVE Keeps
  BY <1>3 DEF OpenBuffer, Client, server, Bounded
<1>4. ASSUME SendChanges \/ CloseBuffer PROVE Keeps
  BY <1>4 DEF SendChanges, CloseBuffer, Client, server
<1>5. {"streams", "ranges", "words"} \subseteq Bounded
  BY DEF Bounded
<1> HIDE DEF Keeps
<1>6. ASSUME NEW s, ReplaceWhole(s) PROVE Keeps
  BY <1>1, <1>6 DEF ReplaceWhole
<1>7. ASSUME NEW from, NEW to, NEW new, Replace(from, to, new) PROVE Keeps
  BY <1>1, <1>7 DEF Replace
<1>8. ASSUME NEW from, RequestCompletion(from) PROVE Keeps
  BY <1>2, <1>5, <1>8 DEF RequestCompletion
<1>9. ASSUME NEW from, NEW to, RequestRange(from, to) PROVE Keeps
  BY <1>2, <1>5, <1>9 DEF RequestRange
<1>10. ASSUME RequestFull \/ RequestDelta PROVE Keeps
  BY <1>2, <1>5, <1>10 DEF RequestFull, RequestDelta
<1>11. Keeps
  BY <1>3, <1>4, <1>6, <1>7, <1>8, <1>9, <1>10
<1>12. budget' \in [Bounded -> Nat]
  BY <1>11, SpendTyped DEF Keeps, Typed
<1> QED
  BY <1>11, <1>12 DEF Keeps, Typed, ShownTyped, PartTyped

(* The notifications.                                                        *)
LEMMA NotificationTyped ==
  ASSUME InSync, Typed, DidOpen \/ DidChange \/ DidClose
  PROVE  Typed'
<1> DEFINE m == Head(channel)
<1>1. /\ channel # <<>> /\ part' = None
      /\ UNCHANGED <<budget, encoding, opens, shown>>
  BY DEF DidOpen, DidChange, DidClose, Handles, client
<1>2. PICK t : MessageLeads(encoding, meant, m, t)
  <2>1. PICK S : channel \in Seq(S)
    BY DEF InSync
  <2>2. PICK s \in Texts \cup {None} : Follows(encoding, meant, channel, s)
    BY DEF InSync, OnTheWay
  <2> QED
    BY <1>1, <2>1, <2>2, FirstMessage
<1>3. ASSUME NEW s, NEW l \in Languages PROVE OpenTyped(NewOpenDocument(s, l))
  BY DEF OpenTyped, NewOpenDocument
<1>4. ASSUME DidOpen PROVE open' # None => OpenTyped(open')
  <2>1. m.type = "open" /\ open' = NewOpenDocument(m.text, m.language)
    BY <1>4 DEF DidOpen, Handles
  <2>2. m.language \in Languages
    BY <1>2, <2>1 DEF MessageLeads, Requests
  <2> QED
    BY <1>3, <2>1, <2>2
<1>5. ASSUME DidChange PROVE open' # None => OpenTyped(open')
  <2> DEFINE changes == m.changes
  <2>1. m.type = "change" /\ open' = IF open = None THEN FromFullText(changes)
                                     ELSE Invalidate(ApplyContentChanges(open, changes))
    BY <1>5 DEF DidChange, Handles
  <2>2. changes \in Seq(Changes)
    BY <1>2, <2>1 DEF MessageLeads, Requests
  <2> HIDE DEF changes
  <2>3. CASE open # None
    <3>1. IsDocumentOf(open, meant)
      BY <2>3 DEF InSync, OpenIsMeant
    <3>2. open'.parsedSql = None /\ open'.lastTokens = open.lastTokens
          /\ open'.language = open.language
      BY <2>1, <2>2, <2>3, <3>1, ChangesKeepSent
    <3> QED
      BY <2>3, <3>2 DEF Typed, OpenTyped
  <2>4. CASE open = None
    <3>1. FromFullText(changes) = None
          \/ \E s : FromFullText(changes) = NewOpenDocument(s, Extension)
      BY DEF FromFullText
    <3>2. Extension \in Languages
      BY DocumentAssumption DEF DocumentAssumption
    <3> QED
      BY <1>3, <2>1, <2>4, <3>1, <3>2
  <2> QED
    BY <2>3, <2>4
<1>6. ASSUME DidClose PROVE open' # None => OpenTyped(open')
  BY <1>6 DEF DidClose
<1>7. open' # None => OpenTyped(open')
  BY <1>4, <1>5, <1>6
<1> QED
  BY <1>1, <1>7 DEF Typed, PartTyped

(* The answers.                                                              *)
LEMMA RangeTyped ==
  ASSUME InSync, Prepared, Typed, open # None, NEW i \in DOMAIN channel, SemanticTokensRange(i)
  PROVE  PartTyped(part')
<1> DEFINE range == channel[i].range
           data == Encode(Kept(SegmentsOf(open), range))
           about == Described
           p == [range |-> range, data |-> data, about |-> about]
<1>1. Answers(i, "range") /\ part' = p
  BY DEF SemanticTokensRange, Kept
<1>2. IsDocumentOf(open, meant) /\ Asks(encoding, meant, channel[i]) /\ channel[i].type = "range"
  BY <1>1, AnsweredAsks DEF Answers
<1>3. meant \in Texts /\ IsFresh(open) /\ kind \in Kinds
  BY <1>2 DEF IsDocumentOf, Prepared
<1>4. data \in Seq(Tokens)
  BY <1>2, <1>3, StreamType
<1>5. about \in About
  BY DescribedType
<1>6. range \in Ranges
  <2>1. PICK a, b \in 0..Len(meant) :
          range = [start |-> CaretOf(encoding, meant, a), end |-> CaretOf(encoding, meant, b)]
    BY <1>2 DEF Asks
  <2>2. CaretOf(encoding, meant, a) \in Positions /\ CaretOf(encoding, meant, b) \in Positions
    BY <1>3, CaretIsCaret, CaretType
  <2> HIDE DEF range
  <2> QED
    BY <2>1, <2>2 DEF Ranges
<1> HIDE DEF range, data, about
<1>7. "range" \in DOMAIN p /\ p.range = range /\ p.data = data /\ p.about = about
  OBVIOUS
<1> HIDE DEF p
<1> QED
  BY <1>1, <1>4, <1>5, <1>6, <1>7 DEF PartTyped

LEMMA WordsTyped ==
  ASSUME InSync, Prepared, Typed, open # None, NEW i \in DOMAIN channel, Completion(i)
  PROVE  PartTyped(part')
<1> DEFINE caret == channel[i].caret
           edits == CompletionEdits(open, channel[i].position)
           about == Described
           p == [caret |-> caret, edits |-> edits, about |-> about]
<1>1. Answers(i, "completion") /\ part' = p
  BY DEF Completion
<1>2. IsDocumentOf(open, meant) /\ Asks(encoding, meant, channel[i])
      /\ channel[i].type = "completion"
  BY <1>1, AnsweredAsks DEF Answers
<1>3. meant \in Texts /\ IsFresh(open) /\ kind \in Kinds
  BY <1>2 DEF IsDocumentOf, Prepared
<1>4. about = [text |-> meant, language |-> open.language, kind |-> kind]
  BY DEF Described
<1>5. caret \in 0..Len(meant) /\ channel[i].position = CaretPosition(meant, caret)
  BY <1>2, CaretIsCaret DEF Asks
<1>6. about \in About
  BY DescribedType
<1>7. about.text = meant
  BY <1>4
<1> HIDE DEF about, caret
<1>8. edits = Replacements(about, caret)
  BY <1>2, <1>3, <1>4, <1>5, EditsAreReplacements
<1>9. edits \subseteq Ranges
  BY <1>3, <1>5, <1>7, <1>8, ReplacementsType
<1>10. caret \in Nat
  BY <1>5
<1> HIDE DEF edits
<1>11. "caret" \in DOMAIN p /\ p.caret = caret /\ p.edits = edits /\ p.about = about
  OBVIOUS
<1> HIDE DEF p
<1> QED
  BY <1>1, <1>6, <1>9, <1>10, <1>11 DEF PartTyped

LEMMA StreamTyped ==
  ASSUME InSync, Prepared, Typed, open # None, RememberTokens(open, ComputeTokens(open)),
         \/ shown' = shown
         \/ shown' = [id |-> nextTokensId, data |-> ComputeTokens(open), about |-> Described]
  PROVE  ShownTyped(shown') /\ OpenTyped(open')
<1> DEFINE data == ComputeTokens(open)
           stream == [id |-> nextTokensId, data |-> data]
<1>1. IsDocumentOf(open, meant) /\ IsFresh(open) /\ kind \in Kinds /\ OpenTyped(open)
      /\ nextTokensId \in Nat
  BY DEF InSync, OpenIsMeant, Prepared, StreamsFit, Typed
<1>2. data \in Seq(Tokens)
  BY <1>1, StreamType
<1>3. Described \in About
  BY DescribedType
<1>4. OpenTyped(Analysed(open)) /\ DOMAIN Analysed(open) = Fields
  BY <1>1, AnalysedTyped, AnalysedKeeps DEF IsDocumentOf
<1>5. open' = [Analysed(open) EXCEPT !.lastTokens = stream]
  BY DEF RememberTokens
<1> HIDE DEF data
<1>6. stream \in Streams
  BY <1>1, <1>2 DEF Streams
<1> HIDE DEF stream
<1>7. OpenTyped(open')
  BY <1>4, <1>5, <1>6 DEF OpenTyped, Fields
<1>8. ShownTyped(shown')
  BY <1>1, <1>2, <1>3 DEF ShownTyped, Typed, data
<1> QED
  BY <1>7, <1>8

LEMMA AnswerTyped ==
  ASSUME InSync, Prepared, Typed, NEW i \in DOMAIN channel,
         \/ SemanticTokensFull(i) \/ SemanticTokensFullDelta(i)
         \/ SemanticTokensRange(i) \/ Completion(i)
  PROVE  Typed'
<1> DEFINE current == ComputeTokens(open)
           new == [id |-> nextTokensId, data |-> current, about |-> Described]
<1>1. UNCHANGED <<budget, encoding, opens>>
  BY DEF SemanticTokensFull, SemanticTokensFullDelta, SemanticTokensRange, Completion, Answers,
         client
<1>2. i \in 1..Len(channel)
  BY DEF InSync
<1>3. ASSUME Nothing PROVE Typed'
  BY <1>1, <1>3 DEF Nothing, Typed, PartTyped
<1>4. ASSUME open # None, open' = Analysed(open) PROVE OpenTyped(open')
  BY <1>4, AnalysedTyped DEF InSync, OpenIsMeant, Prepared, Typed
<1>5. ASSUME open # None, SemanticTokensRange(i) \/ Completion(i) PROVE Typed'
  <2>1. open' = Analysed(open) /\ shown' = shown
    BY <1>5 DEF SemanticTokensRange, Completion
  <2>2. PartTyped(part')
    BY <1>5, RangeTyped, WordsTyped
  <2> QED
    BY <1>1, <1>4, <1>5, <2>1, <2>2 DEF Typed
<1>6. ASSUME open # None, RememberTokens(open, current), shown' = shown \/ shown' = new,
             part' = None
      PROVE  Typed'
  BY <1>1, <1>6, StreamTyped DEF Typed, PartTyped
<1> HIDE DEF new
<1>7. ASSUME SemanticTokensFull(i), open # None PROVE Typed'
  <2>1. RememberTokens(open, current) /\ Show(channel[i], current)
    BY <1>7 DEF SemanticTokensFull
  <2> HIDE DEF current
  <2>2. (shown' = shown \/ shown' = new) /\ part' = None
    BY <2>1 DEF Show, new, current
  <2> QED
    BY <1>6, <1>7, <2>1, <2>2
<1>8. ASSUME SemanticTokensFullDelta(i), open # None PROVE Typed'
  <2> DEFINE previous == open.lastTokens
             data == IF previous # None /\ previous.id = channel[i].base.id
                     THEN ApplyEdits(channel[i].base.data, TokenEdit(previous.data, current))
                     ELSE current
  <2>1. /\ RememberTokens(open, current) /\ Show(channel[i], data)
        /\ channel[i].type = "delta"
    BY <1>8 DEF SemanticTokensFullDelta, Answers
  <2>2. data = current
    BY <1>2, <1>8, <2>1, DeltaIsWhole
  <2> HIDE DEF data, current
  <2>3. (shown' = shown \/ shown' = new) /\ part' = None
    BY <2>1, <2>2 DEF Show, new, current
  <2> QED
    BY <1>6, <1>8, <2>1, <2>3
<1>9. ASSUME open = None PROVE Nothing
  BY <1>9 DEF SemanticTokensFull, SemanticTokensFullDelta, SemanticTokensRange, Completion
<1> QED
  BY <1>3, <1>5, <1>7, <1>8, <1>9

LEMMA StepTyped ==
  ASSUME InSync, Prepared, Typed, [Next]_vars
  PROVE  Typed'
<1>1. CASE UNCHANGED vars
  BY <1>1 DEF vars, client, server, Typed
<1>2. ASSUME \/ \E s \in Contents : ReplaceWhole(s) \/ \E l \in Languages : OpenBuffer(s, l)
             \/ \E from \in Carets :
                  \/ RequestCompletion(from)
                  \/ \E to \in from..Len(buffer) :
                       RequestRange(from, to) \/ \E new \in Inserts : Replace(from, to, new)
             \/ SendChanges \/ CloseBuffer
             \/ RequestFull \/ RequestDelta
      PROVE  Typed'
  BY <1>2, ClientTyped
<1>3. ASSUME DidOpen \/ DidChange \/ DidClose PROVE Typed'
  BY <1>3, NotificationTyped
<1>4. ASSUME NEW i \in DOMAIN channel,
             \/ SemanticTokensFull(i) \/ SemanticTokensFullDelta(i)
             \/ SemanticTokensRange(i) \/ Completion(i)
      PROVE  Typed'
  BY <1>4, AnswerTyped
<1>5. CASE Analyse
  <2>1. /\ open # None /\ open' = Analysed(open) /\ part' = None
        /\ UNCHANGED <<budget, encoding, opens, shown>>
    BY <1>5 DEF Analyse, client
  <2>2. OpenTyped(open')
    BY <2>1, AnalysedTyped DEF InSync, OpenIsMeant, Prepared, Typed
  <2> QED
    BY <2>1, <2>2 DEF Typed, PartTyped
<1>6. ASSUME NEW k \in Kinds, Reload(k) PROVE Typed'
  <2>1. Spend("reloads") /\ part' = None /\ UNCHANGED <<encoding, opens, shown, open>>
    BY <1>6 DEF Reload, client, server
  <2>2. budget' \in [Bounded -> Nat]
    BY <2>1, SpendTyped DEF Typed, Bounded
  <2> QED
    BY <2>1, <2>2 DEF Typed, PartTyped
<1> QED
  BY <1>1, <1>2, <1>3, <1>4, <1>5, <1>6 DEF Next

LEMMA InvariantsType ==
  ASSUME InSync, Prepared, Typed
  PROVE  TypeOK
<1>1. kind \in Kinds /\ nextTokensId \in Nat /\ opens \in Nat
  BY DEF Prepared, StreamsFit, Typed
<1>2. buffer \in Seq(Chars) \cup {None} /\ batch \in Seq(Changes)
  BY DEF InSync, ClientFits, Texts
<1>3. meant \in Seq(Chars) \cup {None}
  BY DEF InSync, OpenIsMeant, IsDocumentOf, Texts
<1>4. open # None => IsOpenDocument(open)
  BY DocumentType DEF InSync, OpenIsMeant, Prepared, Typed
<1>5. \A i \in DOMAIN channel : channel[i].type \in {"open", "change", "close"} \cup Requests
  <2>1. PICK S : channel \in Seq(S)
    BY DEF InSync
  <2>2. PICK s \in Texts \cup {None} : Follows(encoding, meant, channel, s)
    BY DEF InSync, OnTheWay
  <2>3. PICK f : FollowsBy(encoding, f, channel)
    BY <2>2 DEF Follows
  <2> QED
    BY <2>1, <2>3 DEF FollowsBy, MessageLeads
<1> QED
  BY <1>1, <1>2, <1>3, <1>4, <1>5 DEF TypeOK, Typed, ShownTyped, PartTyped

(* Whatever is typed, sent, asked and answered in whatever order, what client   *)
(* and server keep is of its kind: a document has a first line at 0, no token   *)
(* sent has a negative distance or length, no range and no position computed is *)
(* before the start of the text or of a line, and every message is of a kind.  *)
THEOREM TypeCorrect ==
  ASSUME ~Unannounced, DOMAIN None # Fields
  PROVE  Spec => []TypeOK
<1>1. Init => Typed
  <2>1. budget \in Budgets => budget \in [Bounded -> Nat]
    BY DocumentAssumption DEF DocumentAssumption
  <2> QED
    BY <2>1 DEF Init, Typed, ShownTyped, PartTyped
<1>2. InSync /\ Prepared /\ Typed /\ [Next]_vars => Typed'
  BY StepTyped
<1>3. InSync /\ Prepared /\ Typed => TypeOK
  BY InvariantsType
<1> QED
  BY <1>1, <1>2, <1>3, InitSyncs, StepSyncs, InitPrepares, StepPrepares, PTL DEF Spec
=============================================================================
