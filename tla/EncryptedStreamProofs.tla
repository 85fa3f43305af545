------------------------ MODULE EncryptedStreamProofs ------------------------
(***************************************************************************)
(* The encrypted reply for texts, widths, pieces and channels of any size: *)
(* no chunk is too long, and the reply implements ByteStream.  The reason  *)
(* is a fact about the cuts: there is one increasing sequence of positions *)
(* at which the text was cut, every chunk that is still under way or held  *)
(* back lies between two neighbours of it, and what was handed over ends   *)
(* at the cut numbered nextSeq.                                            *)
(***************************************************************************)
EXTENDS EncryptedStream, TLAPS, FiniteSetTheorems, FunctionTheorems,
        SequenceTheorems, NaturalsInduction, WellFoundedInduction

USE DEF textVars

-----------------------------------------------------------------------------
(* Natural numbers and recursive functions *)

\* A set of natural numbers that is not empty has a least one.
LEMMA Least ==
    ASSUME NEW T \in SUBSET Nat, T # {}
    PROVE  \E x \in T : \A y \in T : x <= y
  <1> DEFINE R == {ss \in Nat \X Nat : ss[1] < ss[2]}
  <1>1. IsWellFoundedOn(R, Nat)
    BY NatLessThanWellFounded DEF OpToRel
  <1> HIDE DEF R
  <1>2. PICK x \in T : \A y \in T : ~ (<<y, x>> \in R)
    BY <1>1, WFMin
  <1>3. \A y \in T : ~(y < x)
    BY <1>2 DEF R
  <1> QED BY <1>2, <1>3

\* A bounded set of natural numbers that is not empty has a greatest one.
LEMMA Greatest ==
    ASSUME NEW N \in Nat, NEW T \in SUBSET (0..N), T # {}
    PROVE  \E x \in T : \A y \in T : y <= x
  <1> DEFINE U == {N - y : y \in T}
  <1>1. U \in SUBSET Nat /\ U # {}
    <2>1. \A y \in T : y \in 0..N /\ N - y \in Nat
      OBVIOUS
    <2> QED BY <2>1
  <1> HIDE DEF U
  <1>2. PICK u \in U : \A v \in U : u <= v
    BY <1>1, Least
  <1>3. PICK x \in T : u = N - x
    BY <1>2 DEF U
  <1>4. \A y \in T : N - x <= N - y
    BY <1>2, <1>3 DEF U
  <1> QED BY <1>4

\* The sums of the first elements of a function on 1..N exist.
LEMMA SumsExist ==
    ASSUME NEW N \in Nat, NEW w
    PROVE  \E f : f = [n \in 0..N |-> IF n = 0 THEN 0 ELSE f[n-1] + w[n]]
  <1> DEFINE Has(n) == \E f : f = [k \in 0..n |-> IF k = 0 THEN 0 ELSE f[k-1] + w[k]]
             T == {n \in 0..N : ~Has(n)}
  <1> SUFFICES ASSUME T # {} PROVE FALSE
    BY DEF Has
  <1>1. PICK m \in T : \A y \in T : m <= y
    <2>1. T \in SUBSET Nat /\ T # {}
      OBVIOUS
    <2> HIDE DEF T
    <2> QED BY <2>1, Least
  <1>2. m # 0
    <2>1. [k \in 0..0 |-> 0] = [k \in 0..0 |-> IF k = 0 THEN 0 ELSE [j \in 0..0 |-> 0][k-1] + w[k]]
      OBVIOUS
    <2> QED BY <2>1
  <1>3. Has(m-1)
    BY <1>1, <1>2
  <1>4. PICK f : f = [k \in 0..(m-1) |-> IF k = 0 THEN 0 ELSE f[k-1] + w[k]]
    BY <1>3
  <1> DEFINE g == [k \in 0..m |-> IF k = m THEN f[m-1] + w[m] ELSE f[k]]
  <1>5. ASSUME NEW k \in 0..m
        PROVE  g[k] = IF k = 0 THEN 0 ELSE g[k-1] + w[k]
    <2>1. CASE k = m
      BY <2>1, <1>2, <1>1
    <2>2. CASE k # m /\ k = 0
      BY <2>2, <1>4
    <2>3. CASE k # m /\ k # 0
      <3>1. f[k] = f[k-1] + w[k]
        BY <2>3, <1>4
      <3>2. g[k] = f[k] /\ g[k-1] = f[k-1]
        BY <2>3, <1>1
      <3> QED BY <3>1, <3>2, <2>3
    <2> QED BY <2>1, <2>2, <2>3
  <1>6. g = [k \in 0..m |-> IF k = 0 THEN 0 ELSE g[k-1] + w[k]]
    BY <1>5
  <1>7. Has(m)
    BY <1>6
  <1> QED BY <1>1, <1>7

\* So do the concatenations FlattenSeq is made of.
LEMMA FlattensExist ==
    ASSUME NEW N \in Nat \ {0}, NEW s
    PROVE  \E f : f = [i \in 1..N |-> IF i = 1 THEN s[i] ELSE f[i-1] \o s[i]]
  <1> DEFINE Has(n) == \E f : f = [i \in 1..n |-> IF i = 1 THEN s[i] ELSE f[i-1] \o s[i]]
             T == {n \in 1..N : ~Has(n)}
  <1>0. ASSUME Has(N) PROVE \E f : f = [i \in 1..N |-> IF i = 1 THEN s[i] ELSE f[i-1] \o s[i]]
    BY <1>0
  <1> HIDE DEF Has
  <1>8. ASSUME T = {} PROVE Has(N)
    <2>1. N \in 1..N
      OBVIOUS
    <2> QED BY <2>1, <1>8
  <1> SUFFICES ASSUME T # {} PROVE FALSE
    BY <1>0, <1>8
  <1>1. PICK m \in T : \A y \in T : m <= y
    <2>1. T \in SUBSET Nat /\ T # {}
      OBVIOUS
    <2> HIDE DEF T
    <2> QED BY <2>1, Least
  <1>2. m # 1
    <2>1. [i \in 1..1 |-> s[1]]
            = [i \in 1..1 |-> IF i = 1 THEN s[i] ELSE [j \in 1..1 |-> s[1]][i-1] \o s[i]]
      OBVIOUS
    <2> QED BY <2>1 DEF Has
  <1>3. Has(m-1)
    BY <1>1, <1>2
  <1>4. PICK f : f = [i \in 1..(m-1) |-> IF i = 1 THEN s[i] ELSE f[i-1] \o s[i]]
    BY <1>3 DEF Has
  <1> DEFINE g == [i \in 1..m |-> IF i = m THEN f[m-1] \o s[m] ELSE f[i]]
  <1>5. ASSUME NEW i \in 1..m
        PROVE  g[i] = IF i = 1 THEN s[i] ELSE g[i-1] \o s[i]
    <2>1. CASE i = m
      <3>1. m \in 1..m /\ m-1 \in 1..m /\ m-1 # m
        BY <1>2, <1>1
      <3>2. g[m] = f[m-1] \o s[m]
        BY <3>1
      <3>3. g[m-1] = f[m-1]
        BY <3>1
      <3> QED BY <3>2, <3>3, <2>1, <1>2
    <2>2. CASE i # m /\ i = 1
      BY <2>2, <1>4
    <2>3. CASE i # m /\ i # 1
      <3>1. i \in 1..(m-1)
        BY <2>3, <1>1
      <3>2. f[i] = IF i = 1 THEN s[i] ELSE f[i-1] \o s[i]
        BY <3>1, <1>4
      <3>3. g[i] = f[i] /\ g[i-1] = f[i-1]
        BY <2>3, <1>1
      <3> QED BY <3>2, <3>3, <2>3
    <2> QED BY <2>1, <2>2, <2>3
  <1>6. g = [i \in 1..m |-> IF i = 1 THEN s[i] ELSE g[i-1] \o s[i]]
    BY <1>5
  <1>7. Has(m)
    BY <1>6 DEF Has
  <1> QED BY <1>1, <1>7

-----------------------------------------------------------------------------
(* Widths *)

\* The widths of the run's text.
Widths == width \in [1..MaxChars -> 1..MaxWidth]

\* The offset of a character is the offset of the one before it and its width.
LEMMA OffsetStep ==
    /\ Offset[0] = 0
    /\ \A n \in 1..MaxChars : Offset[n] = Offset[n-1] + width[n]
  <1>1. \E f : f = [n \in 0..MaxChars |-> IF n = 0 THEN 0 ELSE f[n-1] + width[n]]
    BY SumsExist, EncryptedStreamAssumption
  <1>2. Offset = [n \in 0..MaxChars |-> IF n = 0 THEN 0 ELSE Offset[n-1] + width[n]]
    BY <1>1 DEF Offset
  <1> HIDE DEF Offset
  <1> QED BY <1>2, EncryptedStreamAssumption

\* Offsets are numbers.
LEMMA OffsetType ==
    ASSUME Widths
    PROVE  \A n \in 0..MaxChars : Offset[n] \in Nat
  <1> DEFINE T == {n \in 0..MaxChars : Offset[n] \notin Nat}
  <1> SUFFICES ASSUME T # {} PROVE FALSE
    OBVIOUS
  <1>1. PICK m \in T : \A y \in T : m <= y
    <2>1. T \in SUBSET Nat /\ T # {}
      OBVIOUS
    <2> HIDE DEF T
    <2> QED BY <2>1, Least
  <1>2. m # 0 /\ m \in 1..MaxChars /\ m-1 \in 0..MaxChars
    BY <1>1, OffsetStep, EncryptedStreamAssumption
  <1>3. Offset[m-1] \in Nat
    BY <1>1, <1>2
  <1>4. width[m] \in Nat /\ Offset[m] = Offset[m-1] + width[m]
    BY <1>2, OffsetStep, EncryptedStreamAssumption DEF Widths
  <1> QED BY <1>1, <1>3, <1>4

\* A text that is not empty has bytes.
LEMMA BytesGrow ==
    ASSUME Widths, NEW a \in 0..MaxChars, NEW b \in 0..MaxChars, a < b
    PROVE  Bytes(a, b) \in Nat \ {0}
  <1> DEFINE T == {n \in 0..MaxChars : a < n /\ ~(Offset[a] < Offset[n])}
  <1>1. ASSUME T # {} PROVE FALSE
    <2>1. PICK m \in T : \A y \in T : m <= y
      <3>1. T \in SUBSET Nat /\ T # {}
        BY <1>1
      <3> HIDE DEF T
      <3> QED BY <3>1, Least
    <2>2. m \in 1..MaxChars /\ m-1 \in 0..MaxChars /\ (a < m-1 \/ a = m-1)
      BY <2>1, EncryptedStreamAssumption
    <2>3. Offset[m] = Offset[m-1] + width[m] /\ width[m] \in Nat \ {0}
      BY <2>2, OffsetStep, EncryptedStreamAssumption DEF Widths
    <2>4. Offset[m-1] \in Nat /\ Offset[m] \in Nat /\ Offset[a] \in Nat
      BY <2>2, OffsetType
    <2>5. a = m-1 \/ Offset[a] < Offset[m-1]
      BY <2>1, <2>2
    <2> QED BY <2>1, <2>3, <2>4, <2>5
  <1>2. Offset[a] < Offset[b] /\ Offset[a] \in Nat /\ Offset[b] \in Nat
    BY <1>1, OffsetType
  <1> QED BY <1>2 DEF Bytes

\* The next chunk takes a character at least, and not more than STREAM_CHUNK_BYTES.
LEMMA CutFits ==
    ASSUME Widths, kept \in 0..MaxChars, taken \in 0..kept, taken < kept
    PROVE  /\ Cut \in (taken + 1)..kept
           /\ Bytes(taken, Cut) \in 1..ChunkBytes
  <1> DEFINE Fits == {e \in taken..kept : Bytes(taken, e) <= ChunkBytes}
  <1>1. /\ taken \in Nat /\ kept \in Nat /\ taken + 1 \in 1..MaxChars
        /\ taken + 1 \in taken..kept
    BY EncryptedStreamAssumption
  <1>2. Bytes(taken, taken + 1) = width[taken + 1]
    <2>1. Offset[taken + 1] = Offset[taken] + width[taken + 1]
      BY <1>1, OffsetStep
    <2>2. Offset[taken] \in Nat /\ width[taken + 1] \in Nat
      BY <1>1, OffsetType, EncryptedStreamAssumption DEF Widths
    <2> QED BY <2>1, <2>2 DEF Bytes
  <1>3. taken + 1 \in Fits
    BY <1>1, <1>2, EncryptedStreamAssumption DEF Widths
  <1>4. PICK e \in Fits : \A f \in Fits : f <= e
    <2>1. Fits \in SUBSET (0..kept) /\ Fits # {}
      BY <1>1, <1>3
    <2> HIDE DEF Fits
    <2> QED BY <1>1, <2>1, Greatest
  <1>5. \E c \in taken..kept : /\ Bytes(taken, c) <= ChunkBytes
                                   /\ \A f \in taken..kept : Bytes(taken, f) <= ChunkBytes => f <= c
    BY <1>4
  <1>6. /\ Cut \in taken..kept /\ Bytes(taken, Cut) <= ChunkBytes
        /\ \A f \in taken..kept : Bytes(taken, f) <= ChunkBytes => f <= Cut
    BY <1>5 DEF Cut
  <1>7. Cut >= taken + 1
    BY <1>3, <1>6
  <1>8. Cut \in (taken + 1)..kept /\ Cut \in 0..MaxChars /\ taken \in 0..MaxChars /\ taken < Cut
    BY <1>1, <1>6, <1>7, EncryptedStreamAssumption
  <1>9. Bytes(taken, Cut) \in Nat \ {0}
    BY <1>8, BytesGrow
  <1> QED BY <1>6, <1>8, <1>9, EncryptedStreamAssumption

-----------------------------------------------------------------------------
(* Text *)

\* The characters between two positions.
Segment(a, b) == [i \in 1..(b - a) |-> a + i]

\* Two segments that meet make one.
LEMMA SegmentsMeet ==
    ASSUME NEW a \in Nat, NEW b \in Nat, NEW c \in Nat, a <= b, b <= c
    PROVE  /\ Segment(a, b) \in Seq(Nat) /\ Len(Segment(a, b)) = b - a
           /\ Segment(a, b) \o Segment(b, c) = Segment(a, c)
  <1>1. Segment(a, b) \in Seq(Nat) /\ Len(Segment(a, b)) = b - a
    BY DEF Segment
  <1>2. Segment(b, c) \in Seq(Nat) /\ Len(Segment(b, c)) = c - b
    BY DEF Segment
  <1> DEFINE ab == Segment(a, b)
             bc == Segment(b, c)
  <1>3. /\ ab \o bc \in Seq(Nat) /\ Len(ab \o bc) = Len(ab) + Len(bc)
        /\ \A i \in 1..Len(ab) + Len(bc) :
             (ab \o bc)[i] = IF i <= Len(ab) THEN ab[i] ELSE bc[i - Len(ab)]
    <2> HIDE DEF ab, bc
    <2> QED BY <1>1, <1>2, ConcatProperties DEF ab, bc
  <1>4. Segment(a, c) \in Seq(Nat) /\ Len(Segment(a, c)) = c - a
    BY DEF Segment
  <1>5. Len(ab) + Len(bc) = c - a
    BY <1>1, <1>2
  <1>6. ASSUME NEW i \in 1..(c - a)
        PROVE  (ab \o bc)[i] = Segment(a, c)[i]
    <2>1. (ab \o bc)[i] = IF i <= b - a THEN ab[i] ELSE bc[i - (b - a)]
      <3> HIDE DEF ab, bc
      <3> QED BY <1>1, <1>3, <1>5 DEF ab, bc
    <2>2. Segment(a, c)[i] = a + i
      BY DEF Segment
    <2>3. i <= b - a => ab[i] = a + i
      BY DEF Segment
    <2>4. ~(i <= b - a) => bc[i - (b - a)] = a + i
      BY DEF Segment
    <2> QED BY <2>1, <2>2, <2>3, <2>4
  <1>7. ab \o bc = Segment(a, c)
    <2> HIDE DEF ab, bc
    <2> QED BY <1>3, <1>4, <1>5, <1>6, SeqEqual
  <1> QED BY <1>1, <1>7

\* The segments between consecutive cuts make the segment from the first to the last.
LEMMA SegmentsFlattened ==
    ASSUME NEW k \in Nat, NEW q \in [0..k -> Nat],
           \A i \in 1..k : q[i-1] <= q[i],
           NEW s \in Seq(Seq(Nat)), Len(s) = k,
           \A i \in 1..k : s[i] = Segment(q[i-1], q[i])
    PROVE  FlattenSeq(s) = Segment(q[0], q[k])
  <1>1. Len(s) = k
    OBVIOUS
  <1>2. CASE k = 0
    <2>1. FlattenSeq(s) = s
      BY <1>1, <1>2 DEF FlattenSeq
    <2>2. q[0] \in Nat /\ q[k] = q[0]
      BY <1>2
    <2>3. Segment(q[0], q[0]) = <<>>
      BY <2>2 DEF Segment
    <2>4. s = <<>>
      BY <1>2, EmptySeq
    <2> QED BY <2>1, <2>2, <2>3, <2>4
  <1>3. CASE k # 0
    <2>1. PICK f : /\ f = [i \in 1..k |-> IF i = 1 THEN s[i] ELSE f[i-1] \o s[i]]
                   /\ FlattenSeq(s) = f[k]
      <3>1. \E f : f = [i \in 1..k |-> IF i = 1 THEN s[i] ELSE f[i-1] \o s[i]]
        <4>1. k \in Nat \ {0}
          BY <1>3
        <4> QED BY <4>1, FlattensExist
      <3> QED BY <3>1, <1>1, <1>3 DEF FlattenSeq
    <2>2. \A i \in 1..k : f[i] = IF i = 1 THEN s[i] ELSE f[i-1] \o s[i]
      BY <2>1
    <2> DEFINE Good(i) == q[0] <= q[i] /\ f[i] = Segment(q[0], q[i])
               T == {i \in 1..k : ~Good(i)}
    <2>3. Good(1)
      <3>1. 1 \in 1..k /\ f[1] = s[1]
        BY <1>3, <2>2
      <3>2. s[1] = Segment(q[0], q[1])
        BY <3>1
      <3> QED BY <3>1, <3>2
    <2>4. ASSUME T # {} PROVE FALSE
      <3>1. PICK m \in T : \A y \in T : m <= y
        <4>1. T \in SUBSET Nat /\ T # {}
          BY <2>4
        <4> HIDE DEF T
        <4> QED BY <4>1, Least
      <3>2. m \in 1..k /\ m # 1 /\ m-1 \in 1..k /\ m-1 \in 0..k /\ m \in 0..k
        BY <3>1, <2>3
      <3>3. Good(m-1)
        BY <3>1, <3>2
      <3>4. f[m] = f[m-1] \o s[m]
        BY <2>2, <3>2
      <3>5. s[m] = Segment(q[m-1], q[m]) /\ q[m-1] <= q[m]
        BY <3>2
      <3>6. q[0] \in Nat /\ q[m-1] \in Nat /\ q[m] \in Nat
        BY <3>2
      <3>7. Segment(q[0], q[m-1]) \o Segment(q[m-1], q[m]) = Segment(q[0], q[m])
        BY <3>3, <3>5, <3>6, SegmentsMeet
      <3>8. Good(m)
        BY <3>3, <3>4, <3>5, <3>6, <3>7
      <3> QED BY <3>1, <3>8
    <2>5. Good(k)
      <3>1. k \in 1..k /\ T = {}
        BY <2>4, <1>3
      <3> HIDE DEF Good
      <3> QED BY <3>1
    <2> QED BY <2>1, <2>5
  <1> QED BY <1>2, <1>3

\* The positions of a text are cut in the order of their numbers.
Cuts(n, top) ==
    {q \in [0..n -> 0..top] :
        q[0] = 0 /\ q[n] = top /\ \A i, j \in 0..n : i < j => q[i] < q[j]}

\* A chunk lies between the cut of its number and the next.
Between(c, q) == c.from = q[c.seq] /\ c.to = q[c.seq + 1]

\* Chunks that have the numbers from nextSeq to n - 1, one each, are the text between
\* those cuts, and are handed over in that order.
LEMMA LineText ==
    ASSUME nextSeq \in Nat, NEW N \in Nat, NEW n \in nextSeq..N, NEW top \in Nat,
           NEW q \in Cuts(N, top), NEW line,
           \A c \in line : c.seq \in nextSeq..(n-1) /\ Between(c, q),
           \A k \in nextSeq..(n-1) : \E c \in line : c.seq = k,
           \A c, d \in line : c.seq = d.seq => c = d
    PROVE  /\ IsFiniteSet(line) /\ Cardinality(line) = n - nextSeq
           /\ Len(Ready(line)) = n - nextSeq
           /\ FlattenSeq([i \in DOMAIN Ready(line) |-> Characters(Ready(line)[i])])
                = Segment(q[nextSeq], q[n])
  <1> DEFINE k == n - nextSeq
             at == [i \in 1..k |-> CHOOSE c \in line : c.seq = nextSeq + i - 1]
  <1>0. k \in Nat /\ n \in Nat /\ \A i \in 1..k : nextSeq + i - 1 \in nextSeq..(n-1)
    OBVIOUS
  <1>1. ASSUME NEW i \in 1..k
        PROVE  at[i] \in line /\ at[i].seq = nextSeq + i - 1
    <2>1. \E c \in line : c.seq = nextSeq + i - 1
      BY <1>0
    <2> QED BY <2>1
  <1>2. at \in Bijection(1..k, line)
    <2>1. at \in [1..k -> line]
      BY <1>1
    <2>2. \A i, j \in 1..k : at[i] = at[j] => i = j
      <3>1. SUFFICES ASSUME NEW i \in 1..k, NEW j \in 1..k, at[i] = at[j] PROVE i = j
        OBVIOUS
      <3>2. at[i].seq = nextSeq + i - 1 /\ at[j].seq = nextSeq + j - 1
        BY <1>1
      <3> HIDE DEF at
      <3>3. nextSeq + i - 1 = nextSeq + j - 1
        BY <3>1, <3>2
      <3> QED BY <3>3
    <2>3. \A c \in line : \E i \in 1..k : at[i] = c
      <3> SUFFICES ASSUME NEW c \in line PROVE \E i \in 1..k : at[i] = c
        OBVIOUS
      <3>1. c.seq - nextSeq + 1 \in 1..k /\ nextSeq + (c.seq - nextSeq + 1) - 1 = c.seq
        OBVIOUS
      <3>2. at[c.seq - nextSeq + 1] \in line /\ at[c.seq - nextSeq + 1].seq = c.seq
        BY <1>1, <3>1
      <3>3. at[c.seq - nextSeq + 1] = c
        BY <3>2
      <3> QED BY <3>1, <3>3
    <2> HIDE DEF at, k
    <2> QED BY <2>1, <2>2, <2>3, Fun_IsBij
  <1>3. IsFiniteSet(line) /\ Cardinality(line) = k
    <2>1. ExistsBijection(1..k, line)
      BY <1>2 DEF ExistsBijection
    <2>2. IsFiniteSet(1..k) /\ Cardinality(1..k) = k
      <3>1. 1 \in Int /\ k \in Int
        BY <1>0
      <3> HIDE DEF k
      <3>2. IsFiniteSet(1..k) /\ Cardinality(1..k) = IF 1 > k THEN 0 ELSE k - 1 + 1
        BY <3>1, FS_Interval
      <3> QED BY <3>2, <1>0
    <2> HIDE DEF k
    <2> QED BY <2>1, <2>2, FS_Bijection
  <1>4. Ready(line) = at
    BY <1>3 DEF Ready
  <1> DEFINE p == [i \in 0..k |-> q[nextSeq + i]]
  <1>5. p \in [0..k -> Nat] /\ p[0] = q[nextSeq] /\ p[k] = q[n] /\ \A i \in 1..k : p[i-1] <= p[i]
    <2>1. \A i \in 0..k : nextSeq + i \in 0..N
      BY <1>0
    <2>2. \A i \in 0..N : q[i] \in Nat
      BY DEF Cuts
    <2>3. \A i \in 1..k : q[nextSeq + i - 1] < q[nextSeq + i]
      <3> SUFFICES ASSUME NEW i \in 1..k PROVE q[nextSeq + i - 1] < q[nextSeq + i]
        OBVIOUS
      <3>1. nextSeq + i - 1 \in 0..N /\ nextSeq + i \in 0..N /\ nextSeq + i - 1 < nextSeq + i
        BY <1>0
      <3> QED BY <3>1 DEF Cuts
    <2>4. \A i \in 1..k : i-1 \in 0..k /\ i \in 0..k /\ nextSeq + (i - 1) = nextSeq + i - 1
      BY <1>0
    <2>5. nextSeq + 0 = nextSeq /\ nextSeq + k = n /\ 0 \in 0..k /\ k \in 0..k
      BY <1>0
    <2>6. \A i \in 1..k : p[i-1] <= p[i]
      <3> SUFFICES ASSUME NEW i \in 1..k PROVE p[i-1] <= p[i]
        OBVIOUS
      <3>1. p[i-1] = q[nextSeq + i - 1] /\ p[i] = q[nextSeq + i]
        BY <2>4
      <3>2. q[nextSeq + i - 1] \in Nat /\ q[nextSeq + i] \in Nat
        BY <2>1, <2>2, <2>4
      <3> QED BY <3>1, <3>2, <2>3
    <2> QED BY <2>1, <2>2, <2>5, <2>6
  <1>6. ASSUME NEW i \in 1..k
        PROVE  Characters(at[i]) = Segment(p[i-1], p[i])
    <2>1. at[i] \in line /\ at[i].seq = nextSeq + i - 1 /\ Between(at[i], q)
      BY <1>1
    <2>2. i-1 \in 0..k /\ i \in 0..k /\ nextSeq + (i - 1) = nextSeq + i - 1
          /\ (nextSeq + i - 1) + 1 = nextSeq + i
      BY <1>0
    <2>3. p[i-1] = q[nextSeq + i - 1] /\ p[i] = q[nextSeq + i]
      BY <2>2
    <2>4. at[i].from = p[i-1] /\ at[i].to = p[i]
      BY <2>1, <2>2, <2>3 DEF Between
    <2> HIDE DEF at, p
    <2> QED BY <2>4 DEF Characters, Segment
  <1>7. DOMAIN at = 1..k /\ Len(at) = k
    BY <1>0
  <1> DEFINE s == [i \in 1..k |-> Characters(at[i])]
  <1>8. s = [i \in 1..k |-> Segment(p[i-1], p[i])]
    <2> HIDE DEF at, p, k
    <2> QED BY <1>6
  <1>9. FlattenSeq(s) = Segment(p[0], p[k])
    <2>1. \A i \in 1..k : Segment(p[i-1], p[i]) \in Seq(Nat)
      <3> HIDE DEF p, k
      <3> SUFFICES ASSUME NEW i \in 1..k PROVE Segment(p[i-1], p[i]) \in Seq(Nat)
        OBVIOUS
      <3>1. p[i-1] \in Nat /\ p[i] \in Nat /\ p[i-1] <= p[i]
        BY <1>0, <1>5
      <3> QED BY <3>1 DEF Segment
    <2>2. s \in Seq(Seq(Nat)) /\ Len(s) = k /\ \A i \in 1..k : s[i] = Segment(p[i-1], p[i])
      <3> HIDE DEF s, p, k, at
      <3> QED BY <1>0, <1>8, <2>1
    <2> HIDE DEF s, p, k, at
    <2> QED BY <1>0, <1>5, <2>2, SegmentsFlattened
  <1> HIDE DEF at
  <1> QED BY <1>3, <1>4, <1>5, <1>7, <1>9

-----------------------------------------------------------------------------
(* The inductive invariant *)

ChunkSet == [type : {"chunk"}, seq : Nat, from : Nat, to : Nat, done : BOOLEAN]
Messages == ChunkSet \cup {Ack, Error}

\* The chunks of the reply that the consumer has not handed over and may still see.
Chunks == reorder \cup {m \in {chan[i] : i \in DOMAIN chan} : m.type = "chunk"}

Typed ==
    /\ Widths /\ phase \in Phases
    /\ kept \in 0..MaxChars /\ taken \in 0..kept
    /\ seq \in Nat /\ nextSeq \in 0..seq
    /\ eof \in BOOLEAN /\ up \in BOOLEAN /\ keyed \in BOOLEAN /\ streaming \in BOOLEAN
    /\ result \in {"none", "ok", "error"} /\ reports \subseteq {"provider", "consumer"}
    /\ chan \in Seq(Messages) /\ reorder \in SUBSET ChunkSet

Holds(type) == \E i \in DOMAIN chan : chan[i].type = type

\* What the provider has sent and the consumer has seen, by the phase of the task: the
\* acknowledgement is the first thing sent, and is sent once.
Phased ==
    /\ phase \in {"admit", "ack", "forward"} => seq = 0
    /\ eof => phase \notin {"admit", "ack", "forward", "read"}
    /\ phase \in {"admit", "ack"} => chan = <<>>
    /\ phase \in {"admit", "ack"} \/ Holds("ack") => ~streaming /\ nextSeq = 0
    /\ \A i, j \in DOMAIN chan : chan[i].type = "ack" /\ chan[j].type = "ack" => i = j

\* An error message means that no chunk is ever sent; a consumer that has told its caller
\* of an error waits for chunks only then.
Told ==
    /\ Holds("error") => phase = "failed" /\ seq = 0
    /\ streaming /\ result # "none" => phase = "failed" /\ seq = 0
    /\ keyed => result = "none"

OnePerNumber == \A c, d \in reorder : c.seq = d.seq => c = d

\* A chunk lies where the text was cut, fits, and tells of the end only at the end.
Faithful(c, q) ==
    /\ c.seq < seq /\ Between(c, q)
    /\ Bytes(c.from, c.to) <= ChunkBytes
    /\ c.done => c.seq + 1 = seq /\ eof /\ taken = kept

InPlace(q) ==
    /\ \A c \in Chunks : Faithful(c, q)
    /\ handed = Segment(0, q[nextSeq])

IInv ==
    /\ Typed /\ Phased /\ Told /\ OnePerNumber
    /\ \E q \in Cuts(seq, taken) : InPlace(q)

\* Each character that was kept has its place in what the backend produced.
Placed ==
    /\ produced \in 0..MaxChars /\ kept \in 0..produced
    /\ place \in Seq(1..MaxChars) /\ Len(place) = kept

-----------------------------------------------------------------------------
(* What the invariant says *)

\* There are no more cuts than characters.
LEMMA FewCuts ==
    ASSUME NEW n \in Nat, NEW top \in Nat, NEW q \in Cuts(n, top)
    PROVE  /\ \A i \in 0..n : q[i] \in 0..top /\ i <= q[i]
           /\ n <= top
  <1> DEFINE T == {i \in 0..n : ~(i <= q[i])}
  <1>1. \A i \in 0..n : q[i] \in 0..top
    BY DEF Cuts
  <1>2. ASSUME T # {} PROVE FALSE
    <2>1. PICK m \in T : \A y \in T : m <= y
      <3>1. T \in SUBSET Nat /\ T # {}
        BY <1>2
      <3> HIDE DEF T
      <3> QED BY <3>1, Least
    <2>2. m # 0
      BY <2>1, <1>1 DEF Cuts
    <2>3. m-1 \in 0..n /\ m \in 0..n /\ m-1 < m
      BY <2>1, <2>2
    <2>4. m-1 <= q[m-1]
      BY <2>1, <2>3
    <2>5. q[m-1] < q[m]
      BY <2>3 DEF Cuts
    <2>6. q[m-1] \in Nat /\ q[m] \in Nat
      BY <1>1, <2>3
    <2> QED BY <2>1, <2>3, <2>4, <2>5, <2>6
  <1>3. \A i \in 0..n : i <= q[i]
    BY <1>2
  <1>4. n \in 0..n /\ q[n] = top
    BY DEF Cuts
  <1> QED BY <1>1, <1>3, <1>4

\* The first characters are a text.
LEMMA TextFromStart ==
    ASSUME NEW n \in 0..MaxChars
    PROVE  Segment(0, n) \in Seq(1..MaxChars) /\ Len(Segment(0, n)) = n
  <1>1. n \in Nat /\ \A i \in 1..n : i \in 1..MaxChars /\ 0 + i = i
    BY EncryptedStreamAssumption
  <1>2. Segment(0, n) = [i \in 1..n |-> i]
    BY <1>1 DEF Segment
  <1>3. [i \in 1..n |-> i] \in [1..n -> 1..MaxChars]
    BY <1>1
  <1>4. [i \in 1..n |-> i] \in Seq(1..MaxChars) /\ Len([i \in 1..n |-> i]) = n
    BY <1>1, <1>3, SeqDef
  <1> QED BY <1>2, <1>4

\* What the runs check follows.
LEMMA InvImplies == IInv /\ Placed => StreamInv
  <1> SUFFICES ASSUME IInv, Placed PROVE StreamInv
    OBVIOUS
  <1>1. PICK q \in Cuts(seq, taken) : InPlace(q)
    BY DEF IInv
  <1>2. /\ taken \in Nat /\ seq \in Nat /\ taken \in 0..MaxChars /\ kept \in 0..MaxChars
        /\ nextSeq \in 0..seq
    BY EncryptedStreamAssumption DEF IInv, Typed
  <1>3. seq <= taken /\ \A i \in 0..seq : q[i] \in 0..taken
    BY <1>1, <1>2, FewCuts
  <1>4. TypeOK
    <2>1. seq \in 0..MaxChars
      BY <1>2, <1>3, EncryptedStreamAssumption
    <2>2. handed \in Seq(1..MaxChars)
      <3>1. q[nextSeq] \in 0..MaxChars
        BY <1>2, <1>3, EncryptedStreamAssumption
      <3>2. handed = Segment(0, q[nextSeq])
        BY <1>1 DEF InPlace
      <3> QED BY <3>1, <3>2, TextFromStart
    <2> QED BY <2>1, <2>2 DEF IInv, Typed, Placed, TypeOK, Widths
  <1>5. ChunksFit
    <2> SUFFICES ASSUME NEW i \in DOMAIN chan, chan[i].type = "chunk"
                 PROVE  Bytes(chan[i].from, chan[i].to) \in 1..ChunkBytes
      BY DEF ChunksFit
    <2>1. chan[i] \in ChunkSet
      BY DEF IInv, Typed, Messages, Ack, Error
    <2>2. Faithful(chan[i], q)
      BY <1>1 DEF InPlace, Chunks
    <2> DEFINE n == chan[i].seq
    <2>3. n \in 0..seq /\ n + 1 \in 0..seq /\ n < n + 1
      BY <1>2, <2>1, <2>2 DEF ChunkSet, Faithful
    <2>4. q[n] < q[n+1] /\ q[n] \in 0..MaxChars /\ q[n+1] \in 0..MaxChars
      BY <1>2, <1>3, <2>3, EncryptedStreamAssumption DEF Cuts
    <2>5. Bytes(q[n], q[n+1]) \in Nat \ {0}
      BY <2>4, BytesGrow DEF IInv, Typed
    <2>6. chan[i].from = q[n] /\ chan[i].to = q[n+1]
      BY <2>2 DEF Faithful, Between
    <2>7. Bytes(q[n], q[n+1]) <= ChunkBytes
      BY <2>2, <2>6 DEF Faithful
    <2> QED BY <2>5, <2>6, <2>7, EncryptedStreamAssumption
  <1> QED BY <1>4, <1>5 DEF StreamInv

-----------------------------------------------------------------------------
(* Steps *)

\* Taking a message out of the channel leaves the others, in their order.
LEMMA Removed ==
    ASSUME NEW S, NEW s \in Seq(S), NEW i \in DOMAIN s
    PROVE  /\ RemoveAt(s, i) \in Seq(S)
           /\ \A j \in DOMAIN RemoveAt(s, i) :
                /\ j \in DOMAIN s /\ j + 1 \in DOMAIN s
                /\ RemoveAt(s, i)[j] = IF j < i THEN s[j] ELSE s[j+1]
  <1>1. Len(s) \in Nat /\ DOMAIN s = 1..Len(s) /\ i \in 1..Len(s)
    BY LenProperties
  <1> DEFINE a == SubSeq(s, 1, i-1)
             b == SubSeq(s, i+1, Len(s))
  <1>2. a \in Seq(S) /\ Len(a) = i - 1 /\ \A j \in 1..(i-1) : a[j] = s[j]
    BY <1>1
  <1>3. b \in Seq(S) /\ Len(b) = Len(s) - i /\ \A j \in 1..(Len(s) - i) : b[j] = s[i+j]
    BY <1>1
  <1>4. RemoveAt(s, i) = a \o b
    BY DEF RemoveAt
  <1> HIDE DEF a, b
  <1>5. /\ a \o b \in Seq(S) /\ Len(a \o b) = Len(a) + Len(b)
        /\ \A j \in 1..Len(a) + Len(b) :
             (a \o b)[j] = IF j <= Len(a) THEN a[j] ELSE b[j - Len(a)]
    BY <1>2, <1>3, ConcatProperties
  <1>6. DOMAIN (a \o b) = 1..(Len(s) - 1)
    <2>1. Len(a \o b) = Len(s) - 1
      BY <1>1, <1>2, <1>3, <1>5
    <2> QED BY <1>5, <2>1, LenProperties
  <1>7. ASSUME NEW j \in 1..(Len(s) - 1)
        PROVE  (a \o b)[j] = IF j < i THEN s[j] ELSE s[j+1]
    <2>1. (a \o b)[j] = IF j <= i - 1 THEN a[j] ELSE b[j - (i - 1)]
      BY <1>1, <1>2, <1>3, <1>5
    <2>2. CASE j < i
      BY <1>1, <1>2, <2>1, <2>2
    <2>3. CASE ~(j < i)
      <3>1. j - (i - 1) \in 1..(Len(s) - i) /\ i + (j - (i - 1)) = j + 1
        BY <1>1, <2>3
      <3>2. b[j - (i - 1)] = s[i + (j - (i - 1))]
        BY <1>3, <3>1
      <3>3. ~(j <= i - 1)
        BY <1>1, <2>3
      <3> QED BY <2>1, <2>3, <3>1, <3>2, <3>3
    <2> QED BY <2>2, <2>3
  <1>8. \A j \in 1..(Len(s) - 1) : j \in 1..Len(s) /\ j + 1 \in 1..Len(s)
    BY <1>1
  <1> QED BY <1>1, <1>4, <1>5, <1>6, <1>7, <1>8

\* The channel after a message was taken: a part of what it held, with one message less of
\* the kind taken if there was only one.
LEMMA ChanAfter ==
    ASSUME Typed, Phased, NEW i \in DOMAIN chan, chan' = RemoveAt(chan, i)
    PROVE  /\ chan' \in Seq(Messages)
           /\ \A j \in DOMAIN chan' : \E k \in DOMAIN chan : chan'[j] = chan[k] /\ k # i
           /\ \A j, k \in DOMAIN chan' :
                chan'[j].type = "ack" /\ chan'[k].type = "ack" => j = k
           /\ chan[i].type = "ack" => \A j \in DOMAIN chan' : chan'[j].type # "ack"
  <1>1. chan \in Seq(Messages) /\ DOMAIN chan = 1..Len(chan) /\ Len(chan) \in Nat
    BY LenProperties DEF Typed
  <1>2. /\ chan' \in Seq(Messages)
        /\ \A j \in DOMAIN chan' :
             /\ j \in DOMAIN chan /\ j + 1 \in DOMAIN chan
             /\ chan'[j] = IF j < i THEN chan[j] ELSE chan[j+1]
    BY <1>1, Removed
  <1>3. DOMAIN chan' \subseteq Nat
    BY <1>1, <1>2
  <1>4. \A j \in DOMAIN chan' : \E k \in DOMAIN chan : chan'[j] = chan[k] /\ k # i
    <2> SUFFICES ASSUME NEW j \in DOMAIN chan'
                 PROVE  \E k \in DOMAIN chan : chan'[j] = chan[k] /\ k # i
      OBVIOUS
    <2>1. i \in Nat /\ j \in Nat
      BY <1>1, <1>3
    <2>2. CASE j < i
      BY <1>2, <2>1, <2>2
    <2>3. CASE ~(j < i)
      BY <1>2, <2>1, <2>3
    <2> QED BY <2>2, <2>3
  <1>5. ASSUME NEW j \in DOMAIN chan', NEW k \in DOMAIN chan',
               chan'[j].type = "ack", chan'[k].type = "ack"
        PROVE  j = k
    <2> DEFINE p(n) == IF n < i THEN n ELSE n + 1
    <2>1. /\ p(j) \in DOMAIN chan /\ chan[p(j)].type = "ack"
          /\ p(k) \in DOMAIN chan /\ chan[p(k)].type = "ack"
      BY <1>2, <1>5
    <2>2. p(j) = p(k)
      <3> HIDE DEF p
      <3> QED BY <2>1 DEF Phased
    <2>3. i \in Nat /\ j \in Nat /\ k \in Nat
      BY <1>1, <1>3
    <2> QED BY <2>2, <2>3
  <1>6. ASSUME chan[i].type = "ack", NEW j \in DOMAIN chan'
        PROVE  chan'[j].type # "ack"
    BY <1>4, <1>6 DEF Phased
  <1> QED BY <1>2, <1>4, <1>5, <1>6

\* Bytes are counted in the text of this run, which does not change.
LEMMA SameBytes ==
    ASSUME UNCHANGED width, NEW a, NEW b
    PROVE  Bytes(a, b)' = Bytes(a, b)
  BY DEF Bytes, Offset

\* A step that adds no chunk and hands nothing over leaves all in its place.
LEMMA StaysInPlace ==
    ASSUME IInv, UNCHANGED <<width, seq, taken, handed, nextSeq>>,
           Chunks' \subseteq Chunks, eof => eof' /\ kept' = kept
    PROVE  (\E q \in Cuts(seq, taken) : InPlace(q))'
  <1>1. PICK q \in Cuts(seq, taken) : InPlace(q)
    BY DEF IInv
  <1>2. ASSUME NEW c \in Chunks'
        PROVE  Faithful(c, q)'
    <2>1. Faithful(c, q)
      BY <1>1, <1>2 DEF InPlace
    <2>2. Bytes(c.from, c.to)' = Bytes(c.from, c.to)
      BY SameBytes
    <2> QED BY <2>1, <2>2 DEF Faithful, Between
  <1>3. InPlace(q)'
    BY <1>1, <1>2 DEF InPlace
  <1>4. q \in Cuts(seq', taken')
    BY <1>1
  <1> QED BY <1>3, <1>4

\* At first nothing is kept, sent or handed over.
LEMMA InitInv == Init => IInv
  <1> SUFFICES ASSUME Init PROVE IInv
    OBVIOUS
  <1>1. Typed
    <2>1. chan \in Seq(Messages)
      BY EmptySeq DEF Init
    <2>2. 0 \in 0..MaxChars /\ 0 \in 0..0
      BY EncryptedStreamAssumption
    <2> QED BY <2>1, <2>2 DEF Init, Typed, Widths, Phases
  <1>2. Phased /\ Told /\ OnePerNumber
    BY DEF Init, Phased, Told, OnePerNumber, Holds
  <1> DEFINE q == [i \in 0..0 |-> 0]
  <1>3. q \in Cuts(seq, taken)
    BY DEF Init, Cuts
  <1>4. InPlace(q)
    <2>1. Segment(0, 0) = <<>>
      BY DEF Segment
    <2>2. Chunks = {} /\ handed = <<>> /\ q[nextSeq] = 0
      BY DEF Init, Chunks
    <2> HIDE DEF q
    <2> QED BY <2>1, <2>2 DEF InPlace
  <1> HIDE DEF q
  <1> QED BY <1>1, <1>2, <1>3, <1>4 DEF IInv

\* The provider's steps that send nothing, and the consumer's keys.
LEMMA SilentStep ==
    ASSUME IInv, Placed, Admit \/ Forward \/ ReadPiece \/ ReadEnd \/ FlushStops \/ SendFails \/ StoreKeys
    PROVE  IInv'
  <1> USE DEF IInv
  <1>1. UNCHANGED <<width, taken, seq, chan, up, streaming, nextSeq, reorder, handed, result>>
    BY DEF Admit, Forward, ReadPiece, ReadEnd, FlushStops, SendFails, StoreKeys,
           consumerVars, providerVars
  <1>0. kept \in Nat /\ MaxChars \in Nat /\ MaxPiece \in Nat /\ kept <= MaxChars
    BY EncryptedStreamAssumption DEF Typed
  <1>2. /\ kept' \in kept..MaxChars
        /\ phase' \in Phases /\ eof' \in BOOLEAN
        /\ keyed' \in BOOLEAN /\ reports' \subseteq {"provider", "consumer"}
        /\ eof => eof' /\ kept' = kept
    <2>1. CASE Admit \/ Forward \/ SendFails
      <3>1. UNCHANGED <<kept, eof, keyed, reports>>
        BY <2>1 DEF Admit, Forward, SendFails, consumerVars
      <3>2. phase' \in {"ack", "read", "failed"}
        BY <2>1 DEF Admit, Forward, SendFails
      <3> QED BY <1>0, <3>1, <3>2 DEF Typed, Phases
    <2>5. CASE StoreKeys
      BY <2>5, <1>0 DEF StoreKeys, providerVars, Typed
    <2>2. CASE ReadPiece
      <3>1. kept' \in kept..MaxChars
        BY <2>2, <1>0 DEF ReadPiece, Placed
      <3> QED BY <2>2, <3>1, <1>0 DEF ReadPiece, consumerVars, Typed, Phased, Phases
    <2>3. CASE ReadEnd
      BY <2>3, <1>0 DEF ReadEnd, consumerVars, Typed, Phased, Phases
    <2>4. CASE FlushStops
      BY <2>4, <1>0 DEF FlushStops, consumerVars, Typed, Phases
    <2> QED BY <2>1, <2>2, <2>3, <2>4, <2>5
  <1>3. Typed'
    BY <1>1, <1>2, EncryptedStreamAssumption DEF Typed, Widths
  <1>4. Phased'
    <2>1. Holds("ack")' = Holds("ack")
      BY <1>1 DEF Holds
    <2>2. /\ phase' \in {"admit", "ack"} => phase \in {"admit", "ack"}
          /\ phase' \in {"admit", "ack", "forward"} => phase \in {"admit", "ack", "forward"}
          /\ eof' => phase' \notin {"admit", "ack", "forward", "read"}
      BY DEF Admit, Forward, ReadPiece, ReadEnd, FlushStops, SendFails, StoreKeys,
             consumerVars, providerVars, Phased
    <2> QED BY <1>1, <2>1, <2>2 DEF Phased
  <1>5. Told'
    <2>1. Holds("error")' = Holds("error")
      BY <1>1 DEF Holds
    <2>2. (phase = "failed" => phase' = "failed") /\ (keyed' => keyed \/ result = "none")
      BY DEF Admit, Forward, ReadPiece, ReadEnd, FlushStops, SendFails, StoreKeys,
             consumerVars, providerVars
    <2> QED BY <1>1, <2>1, <2>2 DEF Told
  <1>6. OnePerNumber'
    BY <1>1 DEF OnePerNumber
  <1>7. (\E q \in Cuts(seq, taken) : InPlace(q))'
    <2>1. Chunks' = Chunks
      BY <1>1 DEF Chunks
    <2> QED BY <1>1, <1>2, <2>1, StaysInPlace
  <1> QED BY <1>3, <1>4, <1>5, <1>6, <1>7

\* A lost channel loses what was in it.
LEMMA CloseStep ==
    ASSUME IInv, ChannelCloses
    PROVE  IInv'
  <1> USE DEF IInv
  <1>1. /\ UNCHANGED <<width, providerVars, consumerVars, reports>>
        /\ up' = FALSE /\ chan' = <<>>
    BY DEF ChannelCloses
  <1>2. Typed'
    <2>1. chan' \in Seq(Messages)
      BY <1>1, EmptySeq
    <2> QED BY <1>1, <2>1 DEF Typed, Widths, providerVars, consumerVars
  <1>3. Phased' /\ Told' /\ OnePerNumber'
    BY <1>1 DEF Phased, Told, OnePerNumber, Holds, providerVars, consumerVars
  <1>4. (\E q \in Cuts(seq, taken) : InPlace(q))'
    <2>1. Chunks' \subseteq Chunks
      BY <1>1 DEF Chunks, consumerVars
    <2> QED BY <1>1, <2>1, StaysInPlace DEF providerVars, consumerVars
  <1> QED BY <1>2, <1>3, <1>4

\* A message sent is the last in the channel.
LEMMA ChanSent ==
    ASSUME Typed, NEW m \in Messages, chan' = Append(chan, m)
    PROVE  /\ chan' \in Seq(Messages)
           /\ \A j \in DOMAIN chan' : chan'[j] = m \/ (j \in DOMAIN chan /\ chan'[j] = chan[j])
           /\ \A j \in DOMAIN chan' : j \notin DOMAIN chan => j = Len(chan) + 1
  <1>1. chan \in Seq(Messages) /\ DOMAIN chan = 1..Len(chan) /\ Len(chan) \in Nat
    BY LenProperties DEF Typed
  <1>2. /\ chan' \in Seq(Messages) /\ Len(chan') = Len(chan) + 1
        /\ DOMAIN chan' = 1..Len(chan')
    BY <1>1, AppendProperties, LenProperties
  <1>3. chan'[Len(chan) + 1] = m /\ \A j \in 1..Len(chan) : chan'[j] = chan[j]
    BY <1>1, AppendProperties
  <1>4. \A j \in 1..(Len(chan) + 1) : j \in 1..Len(chan) \/ j = Len(chan) + 1
    BY <1>1
  <1> QED BY <1>1, <1>2, <1>3, <1>4

\* The acknowledgement, and the one error message.
LEMMA AnswerStep ==
    ASSUME IInv, Acknowledge \/ Refuse
    PROVE  IInv'
  <1> USE DEF IInv
  <1>1. /\ UNCHANGED <<width, kept, taken, seq, eof, up, consumerVars, reports>>
        /\ \/ phase = "ack" /\ phase' = "forward" /\ chan' = Append(chan, Ack)
           \/ phase \in {"admit", "forward"} /\ phase' = "failed" /\ chan' = Append(chan, Error)
           \/ phase \in {"admit", "forward"} /\ phase' = "failed" /\ chan' = chan
    BY DEF Acknowledge, Refuse, Sends, SendsError
  <1>2. seq = 0
    BY <1>1 DEF Phased
  <1>3. Ack \in Messages /\ Error \in Messages /\ Ack.type = "ack" /\ Error.type = "error"
    BY DEF Messages, Ack, Error
  <1>4. /\ chan' \in Seq(Messages)
        /\ \A j \in DOMAIN chan' : \/ j \in DOMAIN chan /\ chan'[j] = chan[j]
                                   \/ chan'[j] = Ack /\ phase = "ack"
                                   \/ chan'[j] = Error /\ phase' = "failed"
    <2>1. CASE phase = "ack" /\ chan' = Append(chan, Ack)
      BY <2>1, <1>3, ChanSent
    <2>2. CASE phase' = "failed" /\ chan' = Append(chan, Error)
      BY <2>2, <1>3, ChanSent
    <2>3. CASE chan' = chan
      BY <2>3 DEF Typed
    <2> QED BY <1>1, <2>1, <2>2, <2>3
  <1>5. Typed'
    BY <1>1, <1>4 DEF Typed, Widths, Phases, consumerVars
  <1>6. Phased'
    <2>1. Holds("ack")' => Holds("ack") \/ phase = "ack"
      BY <1>3, <1>4 DEF Holds
    <2>2. ASSUME NEW i \in DOMAIN chan', NEW j \in DOMAIN chan',
                 chan'[i].type = "ack", chan'[j].type = "ack"
          PROVE  i = j
      <3>1. CASE phase = "ack"
        <4>1. chan = <<>> /\ DOMAIN chan = {}
          BY <3>1 DEF Phased
        <4>2. chan' = Append(chan, Ack)
          BY <1>1, <3>1
        <4>3. i = Len(chan) + 1 /\ j = Len(chan) + 1
          BY <1>3, <4>1, <4>2, ChanSent, <2>2
        <4> QED BY <4>3
      <3>2. CASE phase # "ack"
        <4>1. i \in DOMAIN chan /\ chan'[i] = chan[i] /\ j \in DOMAIN chan /\ chan'[j] = chan[j]
          BY <1>3, <1>4, <2>2, <3>2
        <4> QED BY <4>1, <2>2 DEF Phased
      <3> QED BY <3>1, <3>2
    <2>3. /\ phase' \notin {"admit", "ack"} /\ seq' = 0
          /\ eof' => phase' \notin {"admit", "ack", "forward", "read"}
      BY <1>1, <1>2 DEF Phased
    <2>4. Holds("ack")' => ~streaming' /\ nextSeq' = 0
      BY <1>1, <2>1 DEF Phased, consumerVars
    <2> QED BY <2>2, <2>3, <2>4 DEF Phased
  <1>7. Told'
    <2>1. Holds("error")' => Holds("error") \/ phase' = "failed"
      BY <1>3, <1>4 DEF Holds
    <2>2. phase = "failed" => FALSE
      BY <1>1
    <2> QED BY <1>1, <1>2, <2>1, <2>2 DEF Told, consumerVars
  <1>8. OnePerNumber'
    BY <1>1 DEF OnePerNumber, consumerVars
  <1>9. (\E q \in Cuts(seq, taken) : InPlace(q))'
    <2>1. Chunks' \subseteq Chunks
      BY <1>1, <1>3, <1>4 DEF Chunks, consumerVars
    <2> QED BY <1>1, <2>1, StaysInPlace DEF consumerVars
  <1> QED BY <1>5, <1>6, <1>7, <1>8, <1>9

\* A chunk sent adds a cut, and is the text between the last two.
LEMMA FlushStep ==
    ASSUME IInv, FlushChunk
    PROVE  IInv'
  <1> USE DEF IInv
  <1> DEFINE m == Chunk(seq, taken, Cut, eof /\ Cut = kept)
  <1>1. /\ phase = "flush" /\ MustCut /\ chan' = Append(chan, m)
        /\ taken' = Cut /\ seq' = seq + 1
        /\ UNCHANGED <<width, phase, kept, eof, up, consumerVars, reports>>
    BY DEF FlushChunk, Sends
  <1>2. /\ taken \in Nat /\ kept \in Nat /\ taken < kept /\ seq \in Nat
        /\ nextSeq \in 0..seq
    BY <1>1, EncryptedStreamAssumption DEF Typed, MustCut
  <1>3. Cut \in (taken + 1)..kept /\ Bytes(taken, Cut) \in 1..ChunkBytes
    BY <1>1, <1>2, CutFits DEF Typed
  <1>4. Cut \in Nat /\ taken < Cut /\ Cut <= kept
    BY <1>2, <1>3
  <1>5. /\ m \in ChunkSet /\ m \in Messages /\ m.type = "chunk" /\ m.seq = seq
        /\ m.from = taken /\ m.to = Cut /\ (m.done <=> eof /\ Cut = kept)
    BY <1>2, <1>4 DEF Chunk, ChunkSet, Messages, Typed
  <1> HIDE DEF m
  <1>6. /\ chan' \in Seq(Messages)
        /\ \A j \in DOMAIN chan' : chan'[j] = m \/ (j \in DOMAIN chan /\ chan'[j] = chan[j])
    BY <1>1, <1>5, ChanSent
  <1>7. Typed'
    BY <1>1, <1>2, <1>4, <1>6, EncryptedStreamAssumption DEF Typed, Widths, consumerVars
  <1>8. Phased'
    <2>1. Holds("ack")' => Holds("ack")
      BY <1>5, <1>6 DEF Holds
    <2>2. \A i, j \in DOMAIN chan' : chan'[i].type = "ack" /\ chan'[j].type = "ack" => i = j
      BY <1>5, <1>6 DEF Phased
    <2> QED BY <1>1, <2>1, <2>2 DEF Phased, consumerVars
  <1>9. Told'
    <2>1. Holds("error")' => Holds("error")
      BY <1>5, <1>6 DEF Holds
    <2> QED BY <1>1, <2>1 DEF Told, consumerVars
  <1>10. OnePerNumber'
    BY <1>1 DEF OnePerNumber, consumerVars
  <1>11. PICK q \in Cuts(seq, taken) : InPlace(q)
    OBVIOUS
  <1>11a. PICK r : r = [i \in 0..(seq + 1) |-> IF i <= seq THEN q[i] ELSE Cut]
    OBVIOUS
  <1>12. /\ \A i \in 0..seq : q[i] \in 0..taken /\ r[i] = q[i]
         /\ r[seq + 1] = Cut /\ q[0] = 0 /\ q[seq] = taken
         /\ \A i, j \in 0..seq : i < j => q[i] < q[j]
    BY <1>2, <1>11a DEF Cuts
  <1>13. r \in Cuts(seq + 1, Cut)
    <2>1. r \in [0..(seq + 1) -> 0..Cut]
      <3>1. ASSUME NEW i \in 0..(seq + 1) PROVE (IF i <= seq THEN q[i] ELSE Cut) \in 0..Cut
        BY <1>2, <1>4, <1>12
      <3> QED BY <3>1, <1>11a
    <2>2. r[0] = 0 /\ r[seq + 1] = Cut
      BY <1>2, <1>12
    <2>3. ASSUME NEW i \in 0..(seq + 1), NEW j \in 0..(seq + 1), i < j
          PROVE  r[i] < r[j]
      <3>1. i \in 0..seq
        BY <1>2, <2>3
      <3>2. CASE j = seq + 1
        <4>1. r[j] = Cut /\ r[i] = q[i] /\ q[i] \in 0..taken
          BY <1>12, <3>1, <3>2
        <4> QED BY <1>2, <1>4, <4>1
      <3>3. CASE j \in 0..seq
        <4>1. r[i] = q[i] /\ r[j] = q[j] /\ q[i] < q[j]
          BY <1>12, <3>1, <3>3, <2>3
        <4> QED BY <4>1
      <3> QED BY <1>2, <3>2, <3>3
    <2> QED BY <2>1, <2>2, <2>3 DEF Cuts
  <1>14. ASSUME NEW c \in Chunks'
         PROVE  Faithful(c, r)'
    <2>1. c = m \/ c \in Chunks
      BY <1>1, <1>6 DEF Chunks, consumerVars
    <2>2. CASE c = m
      <3>1. c.seq = seq /\ c.from = r[seq] /\ c.to = r[seq + 1]
        BY <2>2, <1>2, <1>5, <1>12
      <3>2. c.done => eof /\ Cut = kept
        BY <2>2, <1>5
      <3>3. Bytes(c.from, c.to) <= ChunkBytes
        <4>1. c.from = taken /\ c.to = Cut
          BY <2>2, <1>5
        <4> QED BY <4>1, <1>3, EncryptedStreamAssumption
      <3>4. Bytes(c.from, c.to)' = Bytes(c.from, c.to)
        BY <1>1, SameBytes
      <3> QED BY <1>1, <1>2, <3>1, <3>2, <3>3, <3>4 DEF Faithful, Between
    <2>3. CASE c \in Chunks
      <3>1. Faithful(c, q) /\ c \in ChunkSet
        BY <2>3, <1>11 DEF InPlace, Chunks, Typed, Messages, Ack, Error
      <3>2. c.seq \in 0..seq /\ c.seq + 1 \in 0..seq /\ c.seq < seq
        BY <1>2, <3>1 DEF Faithful, ChunkSet
      <3>3. r[c.seq] = q[c.seq] /\ r[c.seq + 1] = q[c.seq + 1]
        BY <1>12, <3>2
      <3>4. ~c.done
        BY <1>2, <3>1 DEF Faithful
      <3>5. Bytes(c.from, c.to)' = Bytes(c.from, c.to)
        BY <1>1, SameBytes
      <3> QED BY <1>1, <1>2, <3>1, <3>2, <3>3, <3>4, <3>5 DEF Faithful, Between
    <2> QED BY <2>1, <2>2, <2>3
  <1>15. handed' = Segment(0, r[nextSeq'])
    <2>1. handed' = handed /\ nextSeq' = nextSeq
      BY <1>1 DEF consumerVars
    <2> QED BY <2>1, <1>2, <1>11, <1>12 DEF InPlace
  <1>16. InPlace(r)'
    BY <1>14, <1>15 DEF InPlace
  <1>17. r \in Cuts(seq', taken')
    BY <1>1, <1>13
  <1> QED BY <1>7, <1>8, <1>9, <1>10, <1>16, <1>17

\* A chunk in the channel is faithful, and is there only after the acknowledgement.
LEMMA ChunkInChannel ==
    ASSUME IInv, NEW i \in DOMAIN chan, chan[i].type = "chunk",
           NEW q, InPlace(q)
    PROVE  /\ chan[i] \in ChunkSet /\ chan[i] \in Chunks /\ Faithful(chan[i], q)
           /\ seq > 0 /\ phase \notin {"admit", "ack", "forward"}
           /\ ~Holds("error") /\ (streaming => result = "none")
  <1>1. chan[i] \in ChunkSet /\ chan[i] \in Chunks
    BY DEF IInv, Typed, Messages, Ack, Error, Chunks
  <1>2. Faithful(chan[i], q)
    BY <1>1 DEF InPlace
  <1>3. seq > 0 /\ seq # 0
    BY <1>1, <1>2 DEF Faithful, ChunkSet, IInv, Typed
  <1> QED BY <1>1, <1>2, <1>3 DEF IInv, Phased, Told

\* The acknowledgement opens the stream, an error or a bad chunk ends it.
LEMMA NoticeStep ==
    ASSUME IInv, NEW i \in DOMAIN chan,
           chan' = RemoveAt(chan, i), UNCHANGED <<width, providerVars, up>>,
           OnAck(chan[i]) \/ OnError(chan[i]) \/ OnBadChunk(chan[i])
    PROVE  IInv'
  <1> USE DEF IInv
  <1>1. /\ chan' \in Seq(Messages)
        /\ \A j \in DOMAIN chan' : \E k \in DOMAIN chan : chan'[j] = chan[k]
        /\ \A j, k \in DOMAIN chan' : chan'[j].type = "ack" /\ chan'[k].type = "ack" => j = k
        /\ chan[i].type = "ack" => \A j \in DOMAIN chan' : chan'[j].type # "ack"
    BY ChanAfter
  <1>2. /\ UNCHANGED handed /\ reports' = reports
        /\ reorder' = reorder \/ reorder' = {}
        /\ nextSeq' = nextSeq
    <2>1. chan[i].type = "ack" => nextSeq = 0
      BY DEF Phased, Holds
    <2> QED BY <2>1 DEF OnAck, OnError, OnBadChunk
  <1>3. phase \notin {"admit", "ack"} /\ \A t : Holds(t)' => Holds(t)
    <2>1. phase \notin {"admit", "ack"}
      BY DEF Phased
    <2> QED BY <2>1, <1>1 DEF Holds
  <1>4. /\ keyed' => keyed
        /\ streaming' => streaming \/ (keyed /\ chan[i].type = "ack")
        /\ result' # result => ~keyed' /\ result' = "error"
        /\ result' # result => ~streaming' \/ Holds("error")
    BY DEF OnAck, OnError, OnBadChunk, Holds
  <1>5. keyed' \in BOOLEAN /\ streaming' \in BOOLEAN /\ result' \in {"none", "ok", "error"}
    BY DEF OnAck, OnError, OnBadChunk, Typed
  <1>6. Typed'
    BY <1>1, <1>2, <1>5 DEF Typed, Widths, providerVars
  <1>7. Phased'
    <2>1. Holds("ack")' => ~streaming'
      <3>1. chan[i].type = "ack" => ~Holds("ack")'
        BY <1>1 DEF Holds
      <3>2. Holds("ack")' => ~streaming
        BY <1>3 DEF Phased
      <3> QED BY <1>4, <3>1, <3>2
    <2>2. Holds("ack")' => nextSeq' = 0
      BY <1>2, <1>3 DEF Phased
    <2> QED BY <1>1, <1>3, <2>1, <2>2 DEF Phased, providerVars
  <1>8. Told'
    <2>1. Holds("error")' => phase' = "failed" /\ seq' = 0
      BY <1>3 DEF Told, providerVars
    <2>2. keyed' => result' = "none"
      BY <1>4 DEF Told
    <2>3. streaming' /\ result' # "none" => phase' = "failed" /\ seq' = 0
      <3>1. CASE result' = result
        BY <3>1, <1>4 DEF Told, providerVars
      <3>2. CASE result' # result
        BY <3>2, <1>4 DEF Told, providerVars
      <3> QED BY <3>1, <3>2
    <2> QED BY <2>1, <2>2, <2>3 DEF Told
  <1>9. OnePerNumber'
    BY <1>2 DEF OnePerNumber
  <1>10. (\E q \in Cuts(seq, taken) : InPlace(q))'
    <2>1. Chunks' \subseteq Chunks
      BY <1>1, <1>2 DEF Chunks
    <2> QED BY <1>2, <2>1, StaysInPlace DEF providerVars
  <1> QED BY <1>6, <1>7, <1>8, <1>9, <1>10

\* The chunks in line are those from nextSeq up to the first number that is missing, or to
\* the one marked done, which is the last of all.
LEMMA LineEnds ==
    ASSUME nextSeq \in 0..seq, seq \in Nat, NEW q, NEW buffer \in SUBSET ChunkSet,
           \A c \in buffer : Faithful(c, q),
           \A c, d \in buffer : c.seq = d.seq => c = d
    PROVE  \E n \in nextSeq..seq :
             /\ \A c \in InLine(buffer) : c.seq \in nextSeq..(n-1) /\ Between(c, q)
             /\ \A k \in nextSeq..(n-1) : \E c \in InLine(buffer) : c.seq = k
             /\ \A c, d \in InLine(buffer) : c.seq = d.seq => c = d
             /\ (\E c \in InLine(buffer) : c.done) => n = seq /\ eof /\ taken = kept
  <1> DEFINE line == InLine(buffer)
             T == {n \in nextSeq..seq : \A c \in line : c.seq # n}
  <1>1. /\ line \subseteq buffer
        /\ \A c \in line : c.seq \in Nat /\ c.seq >= nextSeq /\ c.seq < seq /\ Between(c, q)
        /\ \A c \in line : c.done => c.seq + 1 = seq /\ eof /\ taken = kept
        /\ nextSeq \in Nat
    BY DEF InLine, Faithful, ChunkSet
  <1>2. PICK n \in T : \A k \in T : n <= k
    <2>1. seq \in T
      BY <1>1
    <2>2. T \in SUBSET Nat /\ T # {}
      BY <2>1
    <2> HIDE DEF T
    <2> QED BY <2>2, Least
  <1>3. n \in nextSeq..seq /\ n \in Nat /\ \A c \in line : c.seq # n
    BY <1>2
  <1>4. \A k \in nextSeq..(n-1) : \E c \in line : c.seq = k
    <2> SUFFICES ASSUME NEW k \in nextSeq..(n-1) PROVE \E c \in line : c.seq = k
      OBVIOUS
    <2>1. k \in nextSeq..seq /\ ~(n <= k)
      BY <1>1, <1>3
    <2> QED BY <1>2, <2>1
  <1>5. ASSUME NEW c \in line
        PROVE  c.seq \in nextSeq..(n-1)
    <2>1. ASSUME c.seq > n PROVE FALSE
      <3>1. \A k \in nextSeq..c.seq : \E b \in buffer : b.seq = k /\ (b.done => k = c.seq)
        BY DEF InLine
      <3>2. n \in nextSeq..c.seq /\ n # c.seq
        BY <1>1, <1>3, <2>1
      <3>3. PICK b \in buffer : b.seq = n /\ ~b.done
        BY <3>1, <3>2
      <3>4. \A k \in nextSeq..b.seq : \E d \in buffer : d.seq = k /\ (d.done => k = b.seq)
        <4> SUFFICES ASSUME NEW k \in nextSeq..n PROVE \E d \in buffer : d.seq = k /\ (d.done => k = n)
          BY <3>3
        <4>1. k \in nextSeq..c.seq /\ k # c.seq
          BY <1>1, <1>3, <2>1
        <4> QED BY <3>1, <4>1
      <3>5. b.seq >= nextSeq
        BY <1>3, <3>3
      <3>6. b \in line
        BY <3>4, <3>5 DEF InLine
      <3> QED BY <1>3, <3>3, <3>6
    <2> QED BY <1>1, <1>3, <2>1
  <1>6. \A c, d \in line : c.seq = d.seq => c = d
    BY <1>1
  <1>7. (\E c \in line : c.done) => n = seq /\ eof /\ taken = kept
    <2> SUFFICES ASSUME NEW c \in line, c.done PROVE n = seq /\ eof /\ taken = kept
      OBVIOUS
    <2>1. c.seq + 1 = seq /\ eof /\ taken = kept /\ c.seq \in Nat
      BY <1>1
    <2>2. c.seq <= n - 1
      BY <1>5
    <2> QED BY <1>3, <2>1, <2>2
  <1> HIDE DEF line
  <1>8. \A c \in line : c.seq \in nextSeq..(n-1) /\ Between(c, q)
    BY <1>1, <1>5
  <1> QED BY <1>3, <1>4, <1>6, <1>7, <1>8 DEF line

\* What a chunk makes available is handed over: the text up to a later cut, and up to the
\* last one if the stream ends.
LEMMA HandedOver ==
    ASSUME IInv, NEW i \in DOMAIN chan, OnChunk(chan[i]),
           NEW q \in Cuts(seq, taken), InPlace(q)
    PROVE  /\ nextSeq' \in nextSeq..seq /\ handed' = Segment(0, q[nextSeq'])
           /\ reorder' \subseteq reorder \cup {chan[i]} /\ OnePerNumber'
           /\ \/ UNCHANGED <<streaming, keyed, result, reports>>
              \/ /\ streaming' = FALSE /\ keyed' = FALSE /\ result' = "ok"
                 /\ reports' = reports \cup {"consumer"}
                 /\ nextSeq' = seq /\ eof /\ taken = kept
  <1> DEFINE m == chan[i]
             buffer == {c \in reorder : c.seq # m.seq} \cup {m}
             line == InLine(buffer)
             ready == Ready(line)
             text == FlattenSeq([j \in DOMAIN ready |-> Characters(ready[j])])
  <1>1. /\ m.type = "chunk" /\ streaming
        /\ handed' = handed \o text
        /\ nextSeq' = nextSeq + Len(ready)
        /\ reorder' = buffer \ line
        /\ IF \E c \in line : c.done
           THEN /\ streaming' = FALSE /\ keyed' = FALSE /\ result' = "ok"
                /\ reports' = reports \cup {"consumer"}
           ELSE UNCHANGED <<streaming, keyed, result, reports>>
    BY DEF OnChunk
  <1> HIDE DEF ready, text
  <1>2. m \in ChunkSet /\ Faithful(m, q)
    BY <1>1, ChunkInChannel
  <1>3. /\ nextSeq \in 0..seq /\ seq \in Nat /\ nextSeq \in Nat /\ taken \in Nat
        /\ reorder \in SUBSET ChunkSet
    BY EncryptedStreamAssumption DEF IInv, Typed
  <1>4. /\ buffer \in SUBSET ChunkSet
        /\ \A c \in buffer : Faithful(c, q)
        /\ \A c, d \in buffer : c.seq = d.seq => c = d
    BY <1>2, <1>3 DEF IInv, InPlace, Chunks, OnePerNumber
  <1>5. buffer \subseteq reorder \cup {m}
    OBVIOUS
  <1> HIDE DEF m, buffer
  <1>6. PICK n \in nextSeq..seq :
          /\ \A c \in line : c.seq \in nextSeq..(n-1) /\ Between(c, q)
          /\ \A k \in nextSeq..(n-1) : \E c \in line : c.seq = k
          /\ \A c, d \in line : c.seq = d.seq => c = d
          /\ (\E c \in line : c.done) => n = seq /\ eof /\ taken = kept
    BY <1>3, <1>4, LineEnds
  <1> HIDE DEF line
  <1>7. Len(ready) = n - nextSeq /\ text = Segment(q[nextSeq], q[n])
    BY <1>3, <1>6, LineText DEF ready, text
  <1>8. nextSeq' = n
    BY <1>1, <1>3, <1>6, <1>7
  <1>9. handed' = Segment(0, q[n])
    <2>1. handed = Segment(0, q[nextSeq])
      BY DEF InPlace
    <2>2. n \in 0..seq /\ (nextSeq < n \/ nextSeq = n)
      BY <1>3, <1>6
    <2>3. q[nextSeq] \in Nat /\ q[n] \in Nat /\ q[nextSeq] <= q[n] /\ 0 \in Nat /\ 0 <= q[nextSeq]
      BY <1>3, <2>2 DEF Cuts
    <2> QED BY <1>1, <1>7, <2>1, <2>3, SegmentsMeet
  <1>10. OnePerNumber'
    BY <1>1, <1>4 DEF OnePerNumber
  <1> QED BY <1>1, <1>5, <1>6, <1>8, <1>9, <1>10 DEF m

\* A chunk that is received.
LEMMA ChunkStep ==
    ASSUME IInv, NEW i \in DOMAIN chan,
           chan' = RemoveAt(chan, i), UNCHANGED <<width, providerVars, up>>, OnChunk(chan[i])
    PROVE  IInv'
  <1>1. PICK q \in Cuts(seq, taken) : InPlace(q)
    BY DEF IInv
  <1>2. /\ nextSeq' \in nextSeq..seq /\ handed' = Segment(0, q[nextSeq'])
        /\ reorder' \subseteq reorder \cup {chan[i]} /\ OnePerNumber'
        /\ \/ UNCHANGED <<streaming, keyed, result, reports>>
           \/ /\ streaming' = FALSE /\ keyed' = FALSE /\ result' = "ok"
              /\ reports' = reports \cup {"consumer"}
    BY <1>1, HandedOver
  <1>3. chan[i].type = "chunk" /\ streaming
    BY DEF OnChunk
  <1>4. /\ chan[i] \in ChunkSet /\ chan[i] \in Chunks
        /\ phase \notin {"admit", "ack", "forward"} /\ ~Holds("error") /\ result = "none"
    BY <1>1, <1>3, ChunkInChannel
  <1>5. /\ chan' \in Seq(Messages)
        /\ \A j \in DOMAIN chan' : \E k \in DOMAIN chan : chan'[j] = chan[k]
        /\ \A j, k \in DOMAIN chan' : chan'[j].type = "ack" /\ chan'[k].type = "ack" => j = k
    BY ChanAfter DEF IInv
  <1>6. Typed'
    <2>1. nextSeq' \in 0..seq
      BY <1>2 DEF IInv, Typed
    <2> QED BY <1>2, <1>4, <1>5, <2>1 DEF IInv, Typed, Widths, providerVars
  <1>7. \A t : Holds(t)' => Holds(t)
    BY <1>5 DEF Holds
  <1>8. Phased'
    <2>1. ~Holds("ack")
      BY <1>3 DEF IInv, Phased
    <2> QED BY <1>4, <1>5, <1>7, <2>1 DEF IInv, Phased, providerVars
  <1>9. Told'
    BY <1>2, <1>4, <1>7 DEF IInv, Told, providerVars
  <1>10. InPlace(q)'
    <2>1. ASSUME NEW c \in Chunks'
          PROVE  Faithful(c, q)'
      <3>1. c \in Chunks
        BY <1>2, <1>4, <1>5 DEF Chunks
      <3>2. Faithful(c, q)
        BY <1>1, <3>1 DEF InPlace
      <3>3. Bytes(c.from, c.to)' = Bytes(c.from, c.to)
        BY SameBytes
      <3> QED BY <3>2, <3>3 DEF Faithful, Between, providerVars
    <2> QED BY <1>2, <2>1 DEF InPlace
  <1>11. q \in Cuts(seq', taken')
    BY <1>1 DEF providerVars
  <1> QED BY <1>2, <1>6, <1>8, <1>9, <1>10, <1>11 DEF IInv

\* Every step keeps the invariant.
LEMMA NextInv == IInv /\ Placed /\ [Next]_vars => IInv'
  <1> SUFFICES ASSUME IInv, Placed, [Next]_vars PROVE IInv'
    OBVIOUS
  <1>1. CASE Refuse \/ Acknowledge
    BY <1>1, AnswerStep
  <1>2. CASE Admit \/ Forward \/ ReadPiece \/ ReadEnd \/ FlushStops \/ SendFails \/ StoreKeys
    BY <1>2, SilentStep
  <1>3. CASE FlushChunk
    BY <1>3, FlushStep
  <1>4. CASE ChannelCloses
    BY <1>4, CloseStep
  <1>5. CASE ConsumerStep
    <2>1. PICK i \in DOMAIN chan : Receive(i)
      BY <1>5 DEF ConsumerStep
    <2> QED BY <2>1, NoticeStep, ChunkStep DEF Receive
  <1>6. CASE UNCHANGED vars
    <2>1. UNCHANGED <<width, providerVars, chan, up, consumerVars, reports>>
      BY <1>6 DEF vars
    <2>2. Typed' /\ Phased' /\ Told' /\ OnePerNumber'
      BY <2>1 DEF IInv, Typed, Widths, Phased, Told, OnePerNumber, Holds, providerVars, consumerVars
    <2>3. Chunks' \subseteq Chunks
      BY <2>1 DEF Chunks, consumerVars
    <2> QED BY <2>1, <2>2, <2>3, StaysInPlace DEF IInv, providerVars, consumerVars
  <1> QED BY <1>1, <1>2, <1>3, <1>4, <1>5, <1>6 DEF Next, ProviderStep

\* A further piece goes behind what was kept before it.
LEMMA PieceAfter ==
    ASSUME Placed, NEW n \in Nat, produced + n <= MaxChars,
           NEW more, more = place \o [i \in 1..n |-> produced + i]
    PROVE  /\ more \in Seq(1..MaxChars) /\ Len(more) = kept + n
           /\ \A k \in 1..kept : more[k] = place[k]
  <1> DEFINE piece == [i \in 1..n |-> produced + i]
  <1>1. \A i \in 1..n : produced + i \in 1..MaxChars
    BY EncryptedStreamAssumption DEF Placed
  <1>2. piece \in Seq(1..MaxChars) /\ Len(piece) = n
    <2>1. piece \in [1..n -> 1..MaxChars]
      BY <1>1
    <2> QED BY <2>1, SeqDef
  <1>3. more = place \o piece
    OBVIOUS
  <1> HIDE DEF piece
  <1>4. place \in Seq(1..MaxChars) /\ Len(place) = kept
    BY DEF Placed
  <1>5. more \in Seq(1..MaxChars) /\ Len(more) = kept + n
    BY <1>2, <1>3, <1>4, ConcatProperties
  <1>6. \A k \in 1..kept : more[k] = place[k]
    BY <1>2, <1>3, <1>4
  <1> QED BY <1>5, <1>6

\* Places are only added, as pieces are read.
LEMMA PlacedStep ==
    ASSUME Placed, [Next]_vars
    PROVE  Placed'
  <1>1. CASE ReadPiece
    <2>1. PICK n \in 0..MaxPiece :
             /\ produced + n <= MaxChars /\ produced' = produced + n
             /\ \/ kept' = kept + n /\ place' = place \o [i \in 1..n |-> produced + i]
                \/ UNCHANGED <<kept, place>>
      BY <1>1 DEF ReadPiece
    <2>2. /\ n \in Nat /\ produced \in Nat /\ kept \in Nat /\ MaxChars \in Nat
          /\ kept <= produced
      BY EncryptedStreamAssumption DEF Placed
    <2>3. produced' \in 0..MaxChars
      BY <2>1, <2>2
    <2>4. CASE UNCHANGED <<kept, place>>
      BY <2>1, <2>2, <2>3, <2>4 DEF Placed
    <2>5. CASE kept' = kept + n /\ place' = place \o [i \in 1..n |-> produced + i]
      <3>1. place' \in Seq(1..MaxChars) /\ Len(place') = kept + n
        BY <2>1, <2>2, <2>5, PieceAfter
      <3> QED BY <2>1, <2>2, <2>3, <2>5, <3>1 DEF Placed
    <2> QED BY <2>1, <2>4, <2>5
  <1>2. CASE UNCHANGED textVars
    BY <1>2 DEF Placed
  <1>3. CASE ~ReadPiece
    <2>1. UNCHANGED textVars
      BY <1>3 DEF Next, ProviderStep, ConsumerStep, Receive, Refuse, Admit, Acknowledge,
         Forward, ReadEnd, FlushChunk, FlushStops, SendFails, StoreKeys, ChannelCloses,
         vars, providerVars
    <2> QED BY <1>2, <2>1
  <1> QED BY <1>1, <1>3

\* At first nothing was produced.
LEMMA InitPlaced == Init => Placed
  <1>1. <<>> \in Seq(1..MaxChars) /\ Len(<<>>) = 0
    BY EmptySeq
  <1> QED BY <1>1, EncryptedStreamAssumption DEF Init, Placed

-----------------------------------------------------------------------------
(* Theorems *)

\* In every behaviour the chunks under way lie where the text was cut, and what the HTTP
\* handler was given ends at the cut numbered next_seq (handle_encrypted_stream_chunk).
THEOREM StreamInductive == Spec => [](IInv /\ Placed)
  BY InitInv, InitPlaced, NextInv, PlacedStep, PTL DEF Spec

\* Every variable keeps its type, and no chunk that flush_encrypted_response_chunks sends is
\* longer than STREAM_CHUNK_BYTES, for texts of any length and characters of any width up
\* to that of a chunk.
THEOREM StreamCorrect == Spec => []StreamInv
  BY StreamInductive, InvImplies, PTL

-----------------------------------------------------------------------------
(* The reply is a ByteStream. *)

\* What the caller was given, by its places in the backend's text.
Given == [i \in DOMAIN handed |-> place[handed[i]]]

LEMMA InitImplements == Init => Stream!Init
  <1> SUFFICES ASSUME Init PROVE Stream!Init
    OBVIOUS
  <1>1. [i \in DOMAIN handed |-> place[handed[i]]] = <<>>
    BY DEF Init
  <1> QED BY <1>1 DEF Init, Stream!Init

\* The first n characters kept, and the first n places.
LEMMA FirstCharacters ==
    ASSUME NEW n \in Nat, NEW h, h = Segment(0, n)
    PROVE  DOMAIN h = 1..n /\ \A i \in 1..n : h[i] = i
  <1>1. n - 0 = n /\ \A i \in 1..n : 0 + i = i
    OBVIOUS
  <1>2. h = [i \in 1..(n - 0) |-> 0 + i]
    BY DEF Segment
  <1> QED BY <1>1, <1>2

LEMMA FirstPlaces ==
    ASSUME NEW S, NEW p \in Seq(S), NEW n \in 0..Len(p)
    PROVE  /\ SubSeq(p, 1, n) \in [1..n -> S]
           /\ \A i \in 1..n : SubSeq(p, 1, n)[i] = p[i]
  <1>1. n \in Nat /\ n <= Len(p) /\ Len(p) \in Nat
    OBVIOUS
  <1>2. \A i \in 1..n : p[i] \in S
    <2>1. \A i \in 1..n : i \in 1..Len(p)
      BY <1>1
    <2> QED BY <2>1, ElementOfSeq
  <1> DEFINE f == SubSeq(p, 1, n)
  <1>3. /\ f \in Seq(S) /\ Len(f) = IF 1 <= n THEN n - 1 + 1 ELSE 0
        /\ \A i \in 1..(n - 1 + 1) : f[i] = p[1 + i - 1]
    BY <1>1, <1>2, SubSeqProperties
  <1> HIDE DEF f
  <1>4. Len(f) = n /\ n - 1 + 1 = n /\ \A i \in 1..n : 1 + i - 1 = i
    BY <1>1, <1>3
  <1>5. f \in [1..n -> S]
    BY <1>3, <1>4, LenProperties
  <1>6. \A i \in 1..n : f[i] = p[i]
    BY <1>3, <1>4
  <1> QED BY <1>5, <1>6 DEF f

\* Every step of the reply is one of the ByteStream's, or changes nothing it sees.
LEMMA StepImplements == IInv /\ Placed /\ [Next]_vars => [Stream!Next]_(Stream!vars)
  <1> SUFFICES ASSUME IInv, Placed, [Next]_vars PROVE [Stream!Next]_(Stream!vars)
    OBVIOUS
  <1>0. PICK q \in Cuts(seq, taken) : InPlace(q)
    BY DEF IInv
  <1>t. /\ nextSeq \in 0..seq /\ seq \in Nat /\ taken \in Nat /\ kept \in Nat
        /\ taken <= kept /\ kept <= MaxChars /\ MaxChars \in Nat /\ nextSeq \in Nat
        /\ produced \in Nat /\ produced <= MaxChars /\ kept <= produced
        /\ place \in Seq(1..MaxChars) /\ Len(place) = kept
    BY EncryptedStreamAssumption DEF IInv, Typed, Placed
  <1>h. /\ q[nextSeq] \in 0..taken /\ q[nextSeq] \in 0..Len(place)
        /\ handed = Segment(0, q[nextSeq]) /\ Len(handed) = q[nextSeq]
    <2>1. q[nextSeq] \in 0..taken
      BY <1>0, <1>t, FewCuts
    <2>2. handed = Segment(0, q[nextSeq])
      BY <1>0 DEF InPlace
    <2>3. q[nextSeq] \in 0..MaxChars /\ q[nextSeq] \in 0..Len(place)
      BY <1>t, <2>1
    <2> QED BY <2>1, <2>2, <2>3, TextFromStart
  <1>g. Given = SubSeq(place, 1, q[nextSeq]) /\ Len(Given) = q[nextSeq]
    <2>0. Len(place) <= MaxChars
      BY <1>t
    <2>1. Given = SubSeq(place, 1, q[nextSeq])
      <3> DEFINE p == place
                 h == handed
                 n == q[nextSeq]
      <3>1. p \in Seq(1..MaxChars) /\ n \in 0..Len(p) /\ Len(p) <= MaxChars /\ h = Segment(0, n)
        BY <1>t, <1>h, <2>0
      <3>2. Given = [i \in DOMAIN h |-> p[h[i]]]
        BY DEF Given
      <3> HIDE DEF p, h, n
      <3>3. DOMAIN h = 1..n /\ \A i \in 1..n : h[i] = i
        BY <3>1, FirstCharacters
      <3>4. /\ SubSeq(p, 1, n) \in [1..n -> 1..MaxChars]
            /\ \A i \in 1..n : SubSeq(p, 1, n)[i] = p[i]
        BY <3>1, FirstPlaces
      <3>5. [i \in DOMAIN h |-> p[h[i]]] = SubSeq(p, 1, n)
        BY <3>3, <3>4
      <3> QED BY <3>2, <3>5 DEF p, n
    <2> QED BY <1>t, <1>h, <2>1
  <1>1. CASE ReadEnd
    <2>1. ~eof /\ eof' = TRUE /\ UNCHANGED <<produced, place, handed, result>>
      BY <1>1 DEF ReadEnd, IInv, Phased, consumerVars
    <2>2. UNCHANGED Given
      BY <2>1 DEF Given
    <2>3. 0 \in 0..(MaxChars - produced) /\ produced' = produced + 0
      BY <1>t, <2>1
    <2>4. Stream!Produce
      BY <2>1, <2>2, <2>3 DEF Stream!Produce, Given
    <2> QED BY <2>4 DEF Stream!Next
  <1>2. CASE ReadPiece
    <2>1. PICK n \in 0..MaxPiece :
             /\ produced + n <= MaxChars /\ produced' = produced + n
             /\ \/ kept' = kept + n /\ place' = place \o [i \in 1..n |-> produced + i]
                \/ UNCHANGED <<kept, place>>
      BY <1>2 DEF ReadPiece
    <2>2. ~eof /\ eof' \in BOOLEAN /\ UNCHANGED <<handed, result>>
      BY <1>2 DEF ReadPiece, IInv, Typed, Phased, consumerVars
    <2>3. n \in Nat /\ n \in 0..(MaxChars - produced)
      BY <1>t, <2>1, EncryptedStreamAssumption
    <2>4. UNCHANGED Given
      <3>1. \A k \in 1..kept : place'[k] = place[k]
        BY <2>1, <2>3, PieceAfter
      <3>2. \A i \in DOMAIN handed : handed[i] \in 1..kept
        BY <1>t, <1>h DEF Segment
      <3> QED BY <2>2, <3>1, <3>2 DEF Given
    <2>5. Stream!Produce
      BY <2>1, <2>2, <2>3, <2>4 DEF Stream!Produce, Given
    <2> QED BY <2>5 DEF Stream!Next
  <1>3. CASE \/ Refuse \/ Admit \/ Acknowledge \/ Forward \/ FlushChunk \/ FlushStops \/ SendFails
             \/ StoreKeys \/ ChannelCloses \/ UNCHANGED vars
    <2>1. UNCHANGED <<produced, place, eof, handed, result>>
      BY <1>3 DEF Refuse, Admit, Acknowledge, Forward, FlushChunk, FlushStops, SendFails,
                  StoreKeys, ChannelCloses, vars, providerVars, consumerVars
    <2> QED BY <2>1 DEF Stream!vars
  <1>4. ASSUME NEW i \in DOMAIN chan, Receive(i)
        PROVE  [Stream!Next]_(Stream!vars)
    <2>1. UNCHANGED <<produced, kept, place, eof>>
      BY <1>4 DEF Receive, providerVars
    <2>2. CASE OnAck(chan[i]) \/ OnError(chan[i]) \/ OnBadChunk(chan[i])
      <3>1. UNCHANGED handed /\ (UNCHANGED result \/ (result = "none" /\ result' = "error"))
        BY <2>2 DEF OnAck, OnError, OnBadChunk
      <3>2. UNCHANGED Given
        BY <2>1, <3>1 DEF Given
      <3> QED BY <2>1, <3>1, <3>2 DEF Stream!Next, Stream!Fail, Stream!vars, Given
    <2>3. CASE OnChunk(chan[i])
      <3>2. chan[i].type = "chunk" /\ streaming
        BY <2>3 DEF OnChunk
      <3>3. result = "none"
        BY <1>0, <3>2, ChunkInChannel
      <3>4. /\ nextSeq' \in nextSeq..seq /\ handed' = Segment(0, q[nextSeq'])
            /\ \/ UNCHANGED result
               \/ result' = "ok" /\ nextSeq' = seq /\ eof /\ taken = kept
        BY <2>3, <1>0, HandedOver
      <3>6. q[nextSeq'] \in q[nextSeq]..taken /\ q[nextSeq] \in Nat /\ q[seq] = taken
        <4>1. nextSeq' \in 0..seq /\ (nextSeq < nextSeq' \/ nextSeq = nextSeq')
          BY <1>t, <3>4
        <4> QED BY <1>t, <4>1 DEF Cuts
      <3>7. q[nextSeq'] \in 0..Len(place) /\ q[nextSeq'] \in Len(Given)..Len(place)
        BY <1>t, <1>g, <3>6
      <3>8. Given' = SubSeq(place, 1, q[nextSeq'])
        <4> DEFINE p == place'
                   h == handed'
                   n == q[nextSeq']
        <4>1. p \in Seq(1..MaxChars) /\ n \in 0..Len(p) /\ Len(p) <= MaxChars /\ h = Segment(0, n)
          BY <1>t, <2>1, <3>4, <3>7
        <4>2. Given' = [j \in DOMAIN h |-> p[h[j]]]
          BY DEF Given
        <4> HIDE DEF p, h, n
        <4>3. DOMAIN h = 1..n /\ \A j \in 1..n : h[j] = j
          BY <4>1, FirstCharacters
        <4>4. /\ SubSeq(p, 1, n) \in [1..n -> 1..MaxChars]
              /\ \A j \in 1..n : SubSeq(p, 1, n)[j] = p[j]
          BY <4>1, FirstPlaces
        <4>5. [j \in DOMAIN h |-> p[h[j]]] = SubSeq(p, 1, n)
          BY <4>3, <4>4
        <4> QED BY <2>1, <4>2, <4>5 DEF p, n
      <3>11. UNCHANGED result \/ (eof /\ q[nextSeq'] = Len(place) /\ result' = "ok")
        BY <1>t, <3>4, <3>6
      <3>12. Stream!HandOver
        BY <2>1, <3>3, <3>7, <3>8, <3>11 DEF Stream!HandOver, Given
      <3> QED BY <3>12 DEF Stream!Next
    <2> QED BY <1>4, <2>2, <2>3 DEF Receive
  <1> QED BY <1>1, <1>2, <1>3, <1>4 DEF Next, ProviderStep, ConsumerStep

\* What the HTTP handler receives is a prefix of the pieces of the backend's text that were
\* whole UTF-8, and the stream is complete only with all of those, whatever order the chunks
\* come in and wherever an error or a lost channel strikes: the reply implements ByteStream.
THEOREM StreamImplements == Spec => ImplementsByteStream
  BY StreamInductive, InitImplements, StepImplements, PTL
     DEF Spec, ImplementsByteStream, Stream!Spec
=============================================================================
