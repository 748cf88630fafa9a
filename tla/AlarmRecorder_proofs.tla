------------------------ MODULE AlarmRecorder_proofs ------------------------
(***************************************************************************)
(* Proofs about the frame buffer (AVBufferList), the alarm handler         *)
(* (PushMediator) and the recorder that composes them, for any capacity,   *)
(* any frames, any durations and any number of clips.                      *)
(***************************************************************************)
EXTENDS AlarmRecorder, FiniteSetTheorems, FunctionTheorems,
        SequenceTheorems, NaturalsInduction, TLAPS

Frames == Seq(Frame)

(***************************************************************************)
(* Bytes: a list has as many bytes as its parts together.                  *)
(***************************************************************************)
LEMMA FrameSizes ==
  ASSUME NEW f \in Frame
  PROVE  /\ f.size \in Nat /\ f.size \in 1..Capacity
         /\ f.ts \in Nat /\ f.key \in BOOLEAN
<1>1. f.size \in Sizes /\ f.ts \in Nat /\ f.key \in BOOLEAN
  BY DEF Frame
<1>2. f.size \in Nat \ {0} /\ f.size + f.size <= Capacity /\ Capacity \in Nat
  BY <1>1, SizeAssumption
<1> QED
  BY <1>1, <1>2

LEMMA FramesOf ==
  ASSUME NEW s \in Frames
  PROVE  /\ Len(s) \in Nat /\ DOMAIN s = 1..Len(s)
         /\ \A i \in 1..Len(s) : /\ s[i] \in Frame
                                 /\ s[i].ts \in Nat /\ s[i].size \in 1..Capacity
                                 /\ s[i].key \in BOOLEAN
BY LenProperties, ElementOfSeq, FrameSizes DEF Frames

\* Byte b of the n-th frame.
LEMMA BytePairs ==
  ASSUME NEW s \in Frames
  PROVE  /\ \A p \in ByteSet(s) : /\ p = <<p[1], p[2]>>
                                  /\ p[1] \in 1..Len(s) /\ p[2] \in 1..s[p[1]].size
         /\ \A n \in 1..Len(s) : \A b \in 1..s[n].size : <<n, b>> \in ByteSet(s)
<1>1. DOMAIN s = 1..Len(s)
  BY FramesOf
<1>2. ASSUME NEW p \in ByteSet(s)
      PROVE  /\ p = <<p[1], p[2]>>
             /\ p[1] \in 1..Len(s) /\ p[2] \in 1..s[p[1]].size
  <2>1. PICK n \in 1..Len(s) : p \in {n} \X (1..s[n].size)
    BY <1>1 DEF ByteSet
  <2> QED
    BY <2>1
<1>3. ASSUME NEW n \in 1..Len(s), NEW b \in 1..s[n].size
      PROVE  <<n, b>> \in ByteSet(s)
  <2>1. <<n, b>> \in {n} \X (1..s[n].size)
    OBVIOUS
  <2> QED
    BY <1>1, <2>1 DEF ByteSet
<1> QED
  BY <1>2, <1>3

LEMMA BytesFinite ==
  ASSUME NEW s \in Frames
  PROVE  IsFiniteSet(ByteSet(s)) /\ Bytes(s) \in Nat
<1>1. Capacity \in Nat /\ Len(s) \in Nat
  BY FramesOf, SizeAssumption
<1>2. IsFiniteSet(1..Len(s)) /\ IsFiniteSet(1..Capacity)
  BY <1>1, FS_Interval
<1>3. IsFiniteSet((1..Len(s)) \X (1..Capacity))
  BY <1>2, FS_Product
<1>4. ASSUME NEW p \in ByteSet(s)
      PROVE  p \in (1..Len(s)) \X (1..Capacity)
  <2>1. p = <<p[1], p[2]>> /\ p[1] \in 1..Len(s) /\ p[2] \in 1..s[p[1]].size
    BY BytePairs
  <2>2. s[p[1]].size \in 1..Capacity
    BY <2>1, FramesOf
  <2>3. p[2] \in 1..Capacity
    BY <1>1, <2>1, <2>2
  <2> QED
    BY <2>1, <2>3
<1>5. IsFiniteSet(ByteSet(s))
  BY <1>3, <1>4, FS_Subset
<1> QED
  BY <1>5, FS_CardinalityType DEF Bytes

LEMMA BytesEmpty == Bytes(<<>>) = 0
<1>1. ByteSet(<<>>) = {}
  BY DEF ByteSet
<1> QED
  BY <1>1, FS_EmptySet DEF Bytes

LEMMA BytesOfOne ==
  ASSUME NEW f \in Frame
  PROVE  Bytes(<<f>>) = f.size
<1>1. f.size \in Nat
  BY FrameSizes
<1>2. <<f>> \in Frames /\ Len(<<f>>) = 1 /\ <<f>>[1] = f
  BY DEF Frames
<1>3. ByteSet(<<f>>) = {1} \X (1..f.size)
  <2>1. ASSUME NEW p \in ByteSet(<<f>>) PROVE p \in {1} \X (1..f.size)
    BY <1>2, BytePairs
  <2>2. ASSUME NEW p \in {1} \X (1..f.size) PROVE p \in ByteSet(<<f>>)
    <3>1. p = <<1, p[2]>> /\ p[2] \in 1..f.size
      OBVIOUS
    <3>2. 1 \in 1..Len(<<f>>) /\ p[2] \in 1..<<f>>[1].size
      BY <1>2, <3>1
    <3>3. <<1, p[2]>> \in ByteSet(<<f>>)
      BY <1>2, <3>2, BytePairs
    <3> QED
      BY <3>1, <3>3
  <2> QED
    BY <2>1, <2>2
<1>4. IsFiniteSet({1}) /\ Cardinality({1}) = 1
  BY FS_Singleton
<1>5. IsFiniteSet(1..f.size) /\ Cardinality(1..f.size) = f.size
  <2>1. 1 \in Int /\ f.size \in Int
    BY <1>1
  <2>2. /\ IsFiniteSet(1..f.size)
        /\ Cardinality(1..f.size) = IF 1 > f.size THEN 0 ELSE f.size - 1 + 1
    BY <2>1, FS_Interval, Zenon
  <2> QED
    BY <1>1, <2>2
<1>6. Cardinality({1} \X (1..f.size)) = 1 * f.size
  <2>1. Cardinality({1} \X (1..f.size)) = Cardinality({1}) * Cardinality(1..f.size)
    BY <1>4, <1>5, FS_Product, Zenon
  <2> QED
    BY <1>4, <1>5, <2>1
<1>7. Bytes(<<f>>) = Cardinality({1} \X (1..f.size))
  BY <1>3, Zenon DEF Bytes
<1> QED
  BY <1>1, <1>6, <1>7

\* The part of a list from position m to position n.
LEMMA PartOf ==
  ASSUME NEW s \in Frames, NEW m \in 1..(Len(s) + 1), NEW n \in (m - 1)..Len(s)
  PROVE  /\ SubSeq(s, m, n) \in Frames
         /\ Len(SubSeq(s, m, n)) = n - m + 1
         /\ \A i \in 1..(n - m + 1) : SubSeq(s, m, n)[i] = s[m + i - 1]
<1>1. Len(s) \in Nat /\ m \in Int /\ n \in Int /\ \A i \in m..n : s[i] \in Frame
  BY FramesOf
<1>2. /\ SubSeq(s, m, n) \in Seq(Frame)
      /\ Len(SubSeq(s, m, n)) = IF m <= n THEN n - m + 1 ELSE 0
      /\ \A i \in 1..(n - m + 1) : SubSeq(s, m, n)[i] = s[m + i - 1]
  BY <1>1, SubSeqProperties
<1> QED
  BY <1>1, <1>2 DEF Frames

\* A list cut in two: the second part's bytes are those behind the cut, n
\* positions further on.
LEMMA BytesCut ==
  ASSUME NEW s \in Frames, NEW n \in 0..Len(s)
  PROVE  Bytes(s) = Bytes(SubSeq(s, 1, n)) + Bytes(SubSeq(s, n + 1, Len(s)))
<1> DEFINE a == SubSeq(s, 1, n)
           b == SubSeq(s, n + 1, Len(s))
           Behind == {p \in ByteSet(s) : p[1] > n}
           Shift == [p \in ByteSet(b) |-> <<p[1] + n, p[2]>>]
<1>0. Len(s) \in Nat /\ n \in Nat /\ n <= Len(s)
  BY FramesOf
<1>1. a \in Frames /\ Len(a) = n /\ \A i \in 1..n : a[i] = s[i]
  <2>1. 1 \in 1..(Len(s) + 1) /\ n \in (1 - 1)..Len(s)
    BY <1>0
  <2>2. a \in Frames /\ Len(a) = n - 1 + 1 /\ \A i \in 1..(n - 1 + 1) : a[i] = s[1 + i - 1]
    BY <2>1, PartOf
  <2> QED
    BY <1>0, <2>2
<1>2. b \in Frames /\ Len(b) = Len(s) - n /\ \A i \in 1..Len(b) : b[i] = s[n + i]
  <2>1. n + 1 \in 1..(Len(s) + 1) /\ Len(s) \in (n + 1 - 1)..Len(s)
    BY <1>0
  <2>2. /\ b \in Frames /\ Len(b) = Len(s) - (n + 1) + 1
        /\ \A i \in 1..(Len(s) - (n + 1) + 1) : b[i] = s[n + 1 + i - 1]
    BY <2>1, PartOf
  <2>3. \A i \in 1..Len(b) : n + 1 + i - 1 = n + i
    BY <1>0, <2>2
  <2> QED
    BY <1>0, <2>2, <2>3
<1>3. IsFiniteSet(ByteSet(s)) /\ IsFiniteSet(ByteSet(a)) /\ IsFiniteSet(ByteSet(b))
  BY <1>1, <1>2, BytesFinite
<1> HIDE DEF a, b
<1>4. ASSUME NEW p \in ByteSet(b)
      PROVE  <<p[1] + n, p[2]>> \in Behind
  <2>1. p[1] \in 1..Len(b) /\ p[2] \in 1..b[p[1]].size
    BY <1>2, BytePairs
  <2>2. p[1] + n \in 1..Len(s) /\ p[1] + n > n /\ b[p[1]] = s[p[1] + n]
    BY <1>0, <1>2, <2>1
  <2>3. <<p[1] + n, p[2]>> \in ByteSet(s)
    BY <2>1, <2>2, BytePairs
  <2> QED
    BY <2>2, <2>3
<1>5. ASSUME NEW q \in Behind
      PROVE  \E p \in ByteSet(b) : <<p[1] + n, p[2]>> = q
  <2>1. /\ q = <<q[1], q[2]>> /\ q[1] \in 1..Len(s) /\ q[2] \in 1..s[q[1]].size
        /\ q[1] > n
    BY BytePairs
  <2>2. q[1] - n \in 1..Len(b) /\ b[q[1] - n] = s[q[1]] /\ q[1] - n + n = q[1]
    BY <1>0, <1>2, <2>1
  <2>3. <<q[1] - n, q[2]>> \in ByteSet(b)
    BY <1>2, <2>1, <2>2, BytePairs
  <2> QED
    BY <2>1, <2>2, <2>3
<1>6. ASSUME NEW p \in ByteSet(b), NEW q \in ByteSet(b),
             <<p[1] + n, p[2]>> = <<q[1] + n, q[2]>>
      PROVE  p = q
  <2>1. p = <<p[1], p[2]>> /\ p[1] \in 1..Len(b) /\ q = <<q[1], q[2]>> /\ q[1] \in 1..Len(b)
    BY <1>2, BytePairs
  <2>2. p[1] + n = q[1] + n /\ p[2] = q[2]
    BY <1>6
  <2>3. p[1] = q[1]
    BY <1>0, <1>2, <2>1, <2>2
  <2> QED
    BY <2>1, <2>2, <2>3
<1>7. Shift \in Bijection(ByteSet(b), Behind)
  <2>1. Shift \in [ByteSet(b) -> Behind]
    BY <1>4
  <2>2. \A p, q \in ByteSet(b) : Shift[p] = Shift[q] => p = q
    BY <1>6
  <2>3. \A q \in Behind : \E p \in ByteSet(b) : Shift[p] = q
    BY <1>5
  <2> HIDE DEF Shift
  <2>4. IsInjective(Shift)
    BY <2>1, <2>2 DEF IsInjective
  <2> QED
    BY <2>1, <2>3, <2>4 DEF Bijection, Injection, Surjection
<1>8. ExistsBijection(ByteSet(b), Behind)
  BY <1>7 DEF ExistsBijection
<1>9. IsFiniteSet(Behind) /\ Cardinality(Behind) = Cardinality(ByteSet(b))
  BY <1>3, <1>8, FS_Bijection
<1>10. ByteSet(s) = ByteSet(a) \cup Behind /\ ByteSet(a) \cap Behind = {}
  <2>1. ASSUME NEW p \in ByteSet(a) PROVE p \in ByteSet(s) /\ ~(p[1] > n)
    <3>1. p = <<p[1], p[2]>> /\ p[1] \in 1..n /\ p[2] \in 1..a[p[1]].size
      BY <1>1, BytePairs
    <3>2. p[1] \in 1..Len(s) /\ a[p[1]] = s[p[1]] /\ ~(p[1] > n)
      BY <1>0, <1>1, <3>1
    <3> QED
      BY <3>1, <3>2, BytePairs
  <2>2. ASSUME NEW p \in ByteSet(s), ~(p[1] > n) PROVE p \in ByteSet(a)
    <3>1. p = <<p[1], p[2]>> /\ p[1] \in 1..Len(s) /\ p[2] \in 1..s[p[1]].size
      BY BytePairs
    <3>2. p[1] \in 1..Len(a) /\ a[p[1]] = s[p[1]]
      BY <1>0, <1>1, <2>2, <3>1
    <3> QED
      BY <1>1, <3>1, <3>2, BytePairs
  <2> QED
    BY <2>1, <2>2
<1>11. Cardinality(ByteSet(s))
         = Cardinality(ByteSet(a)) + Cardinality(Behind) - Cardinality({})
  BY <1>3, <1>9, <1>10, FS_Union
<1>12. Cardinality({}) = 0
  BY FS_EmptySet
<1>13. Cardinality(ByteSet(a)) \in Nat /\ Cardinality(ByteSet(b)) \in Nat
  BY <1>3, FS_CardinalityType
<1>14. Cardinality(ByteSet(s)) = Cardinality(ByteSet(a)) + Cardinality(ByteSet(b))
  BY <1>9, <1>11, <1>12, <1>13
<1>15. Bytes(s) = Bytes(a) + Bytes(b)
  BY <1>14 DEF Bytes
<1> QED
  BY <1>15 DEF a, b

LEMMA BytesAppended ==
  ASSUME NEW s \in Frames, NEW f \in Frame
  PROVE  Bytes(Append(s, f)) = Bytes(s) + f.size
<1> DEFINE t == Append(s, f)
<1>0. Len(s) \in Nat
  BY FramesOf
<1>1. /\ t \in Frames /\ Len(t) = Len(s) + 1
      /\ \A i \in 1..Len(s) : t[i] = s[i]
      /\ t[Len(s) + 1] = f
  <2>1. s \in Seq(Frame)
    BY DEF Frames
  <2>2. /\ t \in Seq(Frame) /\ Len(t) = Len(s) + 1
        /\ \A i \in 1..Len(s) : t[i] = s[i]
        /\ t[Len(s) + 1] = f
    BY <2>1, AppendProperties
  <2> QED
    BY <2>2 DEF Frames
<1> HIDE DEF t
<1>2. SubSeq(t, 1, Len(s)) = s
  <2>1. 1 \in 1..(Len(t) + 1) /\ Len(s) \in (1 - 1)..Len(t)
    BY <1>0, <1>1
  <2>2. /\ SubSeq(t, 1, Len(s)) \in Frames /\ Len(SubSeq(t, 1, Len(s))) = Len(s) - 1 + 1
        /\ \A i \in 1..(Len(s) - 1 + 1) : SubSeq(t, 1, Len(s))[i] = t[1 + i - 1]
    BY <1>1, <2>1, PartOf
  <2>3. \A i \in 1..Len(s) : SubSeq(t, 1, Len(s))[i] = s[i]
    BY <1>0, <1>1, <2>2
  <2>4. Len(SubSeq(t, 1, Len(s))) = Len(s)
    BY <1>0, <2>2
  <2> QED
    BY <2>2, <2>3, <2>4, SeqEqual DEF Frames
<1>3. SubSeq(t, Len(s) + 1, Len(t)) = <<f>>
  <2>1. Len(s) + 1 \in 1..(Len(t) + 1) /\ Len(t) \in (Len(s) + 1 - 1)..Len(t)
    BY <1>0, <1>1
  <2>2. /\ SubSeq(t, Len(s) + 1, Len(t)) \in Frames
        /\ Len(SubSeq(t, Len(s) + 1, Len(t))) = Len(t) - (Len(s) + 1) + 1
        /\ \A i \in 1..(Len(t) - (Len(s) + 1) + 1) :
             SubSeq(t, Len(s) + 1, Len(t))[i] = t[Len(s) + 1 + i - 1]
    BY <1>1, <2>1, PartOf
  <2>3. Len(SubSeq(t, Len(s) + 1, Len(t))) = 1 /\ SubSeq(t, Len(s) + 1, Len(t))[1] = f
    BY <1>0, <1>1, <2>2
  <2>4. <<f>> \in Frames /\ Len(<<f>>) = 1 /\ <<f>>[1] = f
    BY DEF Frames
  <2> DEFINE tail == SubSeq(t, Len(s) + 1, Len(t))
  <2> HIDE DEF tail
  <2>5. /\ tail \in Seq(Frame) /\ <<f>> \in Seq(Frame)
        /\ Len(tail) = Len(<<f>>) /\ \A i \in 1..Len(tail) : tail[i] = <<f>>[i]
    BY <2>2, <2>3, <2>4 DEF Frames, tail
  <2>6. tail = <<f>>
    BY <2>5, SeqEqual
  <2> QED
    BY <2>6 DEF tail
<1>4. Len(s) \in 0..Len(t)
  BY <1>0, <1>1
<1>5. Bytes(t) = Bytes(s) + Bytes(<<f>>)
  BY <1>1, <1>2, <1>3, <1>4, BytesCut
<1> QED
  BY <1>5, BytesOfOne DEF t

\* Every other frame: those at the positions 1, 3, 5...
LEMMA ThinnedFrames ==
  ASSUME NEW s \in Frames
  PROVE  /\ Thinned(s) \in Frames
         /\ Len(Thinned(s)) = (Len(s) + 1) \div 2
         /\ \A i \in 1..Len(Thinned(s)) : /\ 2 * i - 1 \in 1..Len(s)
                                          /\ Thinned(s)[i] = s[2 * i - 1]
<1> DEFINE h == (Len(s) + 1) \div 2
<1>1. Len(s) \in Nat /\ \A i \in 1..Len(s) : s[i] \in Frame
  BY FramesOf
<1>2. h \in Nat /\ \A i \in 1..h : 2 * i - 1 \in 1..Len(s)
  BY <1>1
<1> HIDE DEF h
<1>3. Thinned(s) = [i \in 1..h |-> s[2 * i - 1]]
  BY DEF Thinned, h
<1>4. Thinned(s) \in [1..h -> Frame]
  BY <1>1, <1>2, <1>3
<1>5. Thinned(s) \in Seq(Frame) /\ Len(Thinned(s)) = h
  BY <1>2, <1>4
<1> QED
  BY <1>2, <1>3, <1>5 DEF h, Frames

LEMMA BytesThinned ==
  ASSUME NEW s \in Frames
  PROVE  Bytes(Thinned(s)) <= Bytes(s)
<1> DEFINE t == Thinned(s)
           Back == [p \in ByteSet(t) |-> <<2 * p[1] - 1, p[2]>>]
<1>1. /\ t \in Frames
      /\ \A i \in 1..Len(t) : 2 * i - 1 \in 1..Len(s) /\ t[i] = s[2 * i - 1]
  BY ThinnedFrames
<1>2. IsFiniteSet(ByteSet(s)) /\ Len(t) \in Nat
  BY <1>1, BytesFinite, FramesOf
<1> HIDE DEF t
<1>3. ASSUME NEW p \in ByteSet(t)
      PROVE  <<2 * p[1] - 1, p[2]>> \in ByteSet(s)
  <2>1. p[1] \in 1..Len(t) /\ p[2] \in 1..t[p[1]].size
    BY <1>1, BytePairs
  <2> QED
    BY <1>1, <2>1, BytePairs
<1>4. ASSUME NEW p \in ByteSet(t), NEW q \in ByteSet(t),
             <<2 * p[1] - 1, p[2]>> = <<2 * q[1] - 1, q[2]>>
      PROVE  p = q
  <2>1. p = <<p[1], p[2]>> /\ p[1] \in 1..Len(t) /\ q = <<q[1], q[2]>> /\ q[1] \in 1..Len(t)
    BY <1>1, BytePairs
  <2>2. 2 * p[1] - 1 = 2 * q[1] - 1 /\ p[2] = q[2]
    BY <1>4
  <2>3. p[1] = q[1]
    BY <1>2, <2>1, <2>2
  <2> QED
    BY <2>1, <2>2, <2>3
<1>5. Back \in Injection(ByteSet(t), ByteSet(s))
  <2>1. Back \in [ByteSet(t) -> ByteSet(s)]
    BY <1>3
  <2>2. \A p, q \in ByteSet(t) : Back[p] = Back[q] => p = q
    BY <1>4
  <2> HIDE DEF Back
  <2>3. IsInjective(Back)
    BY <2>1, <2>2 DEF IsInjective
  <2> QED
    BY <2>1, <2>3 DEF Injection
<1>6. Cardinality(ByteSet(t)) <= Cardinality(ByteSet(s))
  BY <1>2, <1>5, FS_Injection
<1> QED
  BY <1>6 DEF t, Bytes

-----------------------------------------------------------------------------
(***************************************************************************)
(* The list of key frames stays exact when a front part of the frames and  *)
(* the key frames in it go: cut behind n frames and before key frame j.    *)
(***************************************************************************)
Exact(s, k) == /\ Increasing(s) /\ Increasing(k)
               /\ Range(k) = {f \in Range(s) : f.key}

LEMMA ExactIndices ==
  ASSUME NEW s \in Frames, NEW k \in Frames
  PROVE  Exact(s, k) <=>
           /\ \A i, j \in 1..Len(s) : i < j => s[i].ts < s[j].ts
           /\ \A i, j \in 1..Len(k) : i < j => k[i].ts < k[j].ts
           /\ \A i \in 1..Len(k) : k[i].key /\ \E m \in 1..Len(s) : s[m] = k[i]
           /\ \A m \in 1..Len(s) : s[m].key => \E i \in 1..Len(k) : k[i] = s[m]
<1>1. DOMAIN s = 1..Len(s) /\ DOMAIN k = 1..Len(k)
  BY FramesOf
<1>2. Range(k) = {f \in Range(s) : f.key} <=>
        /\ \A i \in 1..Len(k) : k[i].key /\ \E m \in 1..Len(s) : s[m] = k[i]
        /\ \A m \in 1..Len(s) : s[m].key => \E i \in 1..Len(k) : k[i] = s[m]
  <2>1. /\ \A f : f \in Range(k) <=> \E i \in 1..Len(k) : k[i] = f
        /\ \A f : f \in Range(s) <=> \E m \in 1..Len(s) : s[m] = f
    BY <1>1 DEF Range
  <2> DEFINE R == Range(k)
             Q == Range(s)
  <2> HIDE DEF R, Q
  <2>2. R = {f \in Q : f.key} <=> \A f : f \in R <=> f \in Q /\ f.key
    OBVIOUS
  <2>3. \A m \in 1..Len(s) : s[m].key \in BOOLEAN
    BY FramesOf
  <2>4. ASSUME \A f : f \in R <=> f \in Q /\ f.key
        PROVE  /\ \A i \in 1..Len(k) : k[i].key /\ \E m \in 1..Len(s) : s[m] = k[i]
               /\ \A m \in 1..Len(s) : s[m].key => \E i \in 1..Len(k) : k[i] = s[m]
    <3>1. ASSUME NEW i \in 1..Len(k)
          PROVE  k[i].key /\ \E m \in 1..Len(s) : s[m] = k[i]
      <4>1. k[i] \in R
        BY <2>1 DEF R
      <4> QED
        BY <2>1, <2>4, <4>1 DEF Q
    <3>2. ASSUME NEW m \in 1..Len(s), s[m].key
          PROVE  \E i \in 1..Len(k) : k[i] = s[m]
      <4>1. s[m] \in Q
        BY <2>1 DEF Q
      <4>2. s[m] \in R
        BY <2>4, <3>2, <4>1
      <4> QED
        BY <2>1, <4>2 DEF R
    <3> QED
      BY <3>1, <3>2
  <2>5. ASSUME \A i \in 1..Len(k) : k[i].key /\ \E m \in 1..Len(s) : s[m] = k[i],
               \A m \in 1..Len(s) : s[m].key => \E i \in 1..Len(k) : k[i] = s[m]
        PROVE  \A f : f \in R <=> f \in Q /\ f.key
    <3>1. ASSUME NEW f \in R PROVE f \in Q /\ f.key
      <4>1. PICK i \in 1..Len(k) : k[i] = f
        BY <2>1 DEF R
      <4> QED
        BY <2>1, <2>5, <4>1 DEF Q
    <3>2. ASSUME NEW f \in Q, f.key PROVE f \in R
      <4>1. PICK m \in 1..Len(s) : s[m] = f
        BY <2>1 DEF Q
      <4>2. \E i \in 1..Len(k) : k[i] = s[m]
        BY <2>5, <3>2, <4>1
      <4> QED
        BY <2>1, <4>1, <4>2 DEF R
    <3> QED
      BY <3>1, <3>2
  <2> QED
    BY <2>2, <2>4, <2>5 DEF R, Q
<1> QED
  BY <1>2 DEF Exact, Increasing

LEMMA ExactCut ==
  ASSUME NEW s \in Frames, NEW k \in Frames, Exact(s, k),
         NEW n \in 0..Len(s), NEW j \in 1..(Len(k) + 1),
         \A i \in 1..Len(k), m \in 1..Len(s) : k[i] = s[m] => (i >= j <=> m > n)
  PROVE  Exact(SubSeq(s, n + 1, Len(s)), SubSeq(k, j, Len(k)))
<1> DEFINE s2 == SubSeq(s, n + 1, Len(s))
           k2 == SubSeq(k, j, Len(k))
<1>0. Len(s) \in Nat /\ Len(k) \in Nat /\ n \in Nat /\ n <= Len(s)
  BY FramesOf
<1>1. s2 \in Frames /\ Len(s2) = Len(s) - n /\ \A i \in 1..Len(s2) : s2[i] = s[n + i]
  <2>1. n + 1 \in 1..(Len(s) + 1) /\ Len(s) \in (n + 1 - 1)..Len(s)
    BY <1>0
  <2>2. /\ s2 \in Frames /\ Len(s2) = Len(s) - (n + 1) + 1
        /\ \A i \in 1..(Len(s) - (n + 1) + 1) : s2[i] = s[n + 1 + i - 1]
    BY <2>1, PartOf
  <2>3. \A i \in 1..Len(s2) : n + 1 + i - 1 = n + i
    BY <1>0, <2>2
  <2> QED
    BY <1>0, <2>2, <2>3
<1>2. /\ k2 \in Frames /\ Len(k2) = Len(k) - j + 1
      /\ \A i \in 1..Len(k2) : k2[i] = k[j + i - 1]
  <2>1. Len(k) \in (j - 1)..Len(k)
    BY <1>0
  <2> QED
    BY <2>1, PartOf
<1> HIDE DEF s2, k2
<1>3. /\ \A i, m \in 1..Len(s) : i < m => s[i].ts < s[m].ts
      /\ \A i, m \in 1..Len(k) : i < m => k[i].ts < k[m].ts
      /\ \A i \in 1..Len(k) : k[i].key /\ \E m \in 1..Len(s) : s[m] = k[i]
      /\ \A m \in 1..Len(s) : s[m].key => \E i \in 1..Len(k) : k[i] = s[m]
  BY ExactIndices
<1>4. ASSUME NEW i \in 1..Len(s2), NEW m \in 1..Len(s2), i < m
      PROVE  s2[i].ts < s2[m].ts
  <2>1. n + i \in 1..Len(s) /\ n + m \in 1..Len(s) /\ n + i < n + m
    BY <1>0, <1>1, <1>4
  <2>2. s2[i] = s[n + i] /\ s2[m] = s[n + m]
    BY <1>1
  <2>3. s[n + i].ts < s[n + m].ts
    BY <1>3, <2>1
  <2> QED
    BY <2>2, <2>3, Zenon
<1>5. ASSUME NEW i \in 1..Len(k2), NEW m \in 1..Len(k2), i < m
      PROVE  k2[i].ts < k2[m].ts
  <2>1. j + i - 1 \in 1..Len(k) /\ j + m - 1 \in 1..Len(k) /\ j + i - 1 < j + m - 1
    BY <1>0, <1>2, <1>5
  <2>2. k2[i] = k[j + i - 1] /\ k2[m] = k[j + m - 1]
    BY <1>2
  <2>3. \A a, b \in 1..Len(k) : a < b => k[a].ts < k[b].ts
    BY <1>3
  <2>4. k[j + i - 1].ts < k[j + m - 1].ts
    BY <2>1, <2>3
  <2> QED
    BY <2>2, <2>4
<1>6. ASSUME NEW i \in 1..Len(k2)
      PROVE  k2[i].key /\ \E m \in 1..Len(s2) : s2[m] = k2[i]
  <2>1. j + i - 1 \in 1..Len(k) /\ k2[i] = k[j + i - 1] /\ j + i - 1 >= j
    BY <1>0, <1>2
  <2>2. PICK m \in 1..Len(s) : s[m] = k[j + i - 1]
    BY <1>3, <2>1
  <2>3. m > n
    BY <2>1, <2>2
  <2>4. m - n \in 1..Len(s2) /\ s2[m - n] = s[n + (m - n)] /\ n + (m - n) = m
    BY <1>0, <1>1, <2>3
  <2> QED
    BY <1>3, <2>1, <2>2, <2>4
<1>7. ASSUME NEW m \in 1..Len(s2), s2[m].key
      PROVE  \E i \in 1..Len(k2) : k2[i] = s2[m]
  <2>1. n + m \in 1..Len(s) /\ s2[m] = s[n + m] /\ n + m > n
    BY <1>0, <1>1
  <2>2. PICK i \in 1..Len(k) : k[i] = s[n + m]
    BY <1>3, <1>7, <2>1
  <2>3. i >= j
    BY <2>1, <2>2
  <2>4. i - j + 1 \in 1..Len(k2) /\ k2[i - j + 1] = k[j + (i - j + 1) - 1]
        /\ j + (i - j + 1) - 1 = i
    BY <1>0, <1>2, <2>3
  <2> QED
    BY <2>1, <2>2, <2>4
<1>8. Exact(s2, k2)
  BY <1>1, <1>2, <1>4, <1>5, <1>6, <1>7, ExactIndices
<1> QED
  BY <1>8 DEF s2, k2

\* The first key frame is the first frame, when that is a key frame.
LEMMA FirstKeyFrame ==
  ASSUME NEW s \in Frames, NEW k \in Frames, Exact(s, k), s # <<>>, s[1].key
  PROVE  Len(k) >= 1 /\ k[1] = s[1]
<1>1. Len(s) \in Nat /\ Len(k) \in Nat /\ 1 \in 1..Len(s)
  BY FramesOf DEF Frames
<1>2. PICK i \in 1..Len(k) : k[i] = s[1]
  BY <1>1, ExactIndices
<1>3. 1 \in 1..Len(k)
  BY <1>1
<1>4. PICK m \in 1..Len(s) : s[m] = k[1]
  BY <1>3, ExactIndices
<1>5. m = 1
  <2>1. s[1].ts \in Nat /\ s[m].ts \in Nat /\ k[1].ts \in Nat /\ k[i].ts \in Nat
    BY <1>1, <1>3, FramesOf
  <2>2. m > 1 => s[1].ts < s[m].ts
    BY <1>1, ExactIndices
  <2>3. i > 1 => k[1].ts < k[i].ts
    BY <1>1, <1>3, ExactIndices
  <2>4. i = 1 => s[m] = s[1]
    BY <1>2, <1>4
  <2> QED
    BY <1>1, <1>2, <1>4, <2>1, <2>2, <2>3, <2>4
<1> QED
  BY <1>1, <1>4, <1>5

\* Thinning keeps the only key frame there is.
LEMMA ExactThinned ==
  ASSUME NEW s \in Frames, NEW k \in Frames, Exact(s, k),
         s # <<>> => s[1].key, Len(k) <= 1
  PROVE  /\ Exact(Thinned(s), k)
         /\ Thinned(s) # <<>> <=> s # <<>>
         /\ s # <<>> => Thinned(s)[1] = s[1]
<1> DEFINE t == Thinned(s)
<1>0. Len(s) \in Nat /\ Len(k) \in Nat /\ (s # <<>> <=> Len(s) > 0)
  BY FramesOf DEF Frames
<1>1. /\ t \in Frames /\ Len(t) = (Len(s) + 1) \div 2
      /\ \A i \in 1..Len(t) : 2 * i - 1 \in 1..Len(s) /\ t[i] = s[2 * i - 1]
  BY ThinnedFrames
<1> HIDE DEF t
<1>2. Len(t) \in Nat /\ (t # <<>> <=> Len(t) > 0)
  BY <1>1, FramesOf DEF Frames
<1>3. Len(t) > 0 <=> Len(s) > 0
  BY <1>0, <1>1
<1>4. s # <<>> => 1 \in 1..Len(t) /\ t[1] = s[1]
  BY <1>0, <1>1, <1>2, <1>3
<1>5. ASSUME NEW i \in 1..Len(t), NEW j \in 1..Len(t), i < j
      PROVE  t[i].ts < t[j].ts
  <2>1. 2 * i - 1 \in 1..Len(s) /\ 2 * j - 1 \in 1..Len(s) /\ 2 * i - 1 < 2 * j - 1
    BY <1>1, <1>2, <1>5
  <2>2. s[2 * i - 1].ts < s[2 * j - 1].ts
    BY <2>1, ExactIndices
  <2> QED
    BY <1>1, <2>2
<1>6. s # <<>> => k[1] = s[1]
  BY <1>0, FirstKeyFrame
<1>7. s = <<>> => Len(k) = 0
  <2>1. \A i \in 1..Len(k) : \E m \in 1..Len(s) : s[m] = k[i]
    BY ExactIndices
  <2> QED
    BY <1>0, <2>1
<1>8. ASSUME NEW i \in 1..Len(k)
      PROVE  k[i].key /\ \E m \in 1..Len(t) : t[m] = k[i]
  <2>1. k[i].key
    BY ExactIndices
  <2>2. s # <<>> /\ i = 1
    BY <1>0, <1>7
  <2> QED
    BY <1>4, <1>6, <2>1, <2>2
<1>9. ASSUME NEW m \in 1..Len(t), t[m].key
      PROVE  \E i \in 1..Len(k) : k[i] = t[m]
  <2>1. 2 * m - 1 \in 1..Len(s) /\ t[m] = s[2 * m - 1]
    BY <1>1
  <2> QED
    BY <1>9, <2>1, ExactIndices
<1>10. \A i, j \in 1..Len(k) : i < j => k[i].ts < k[j].ts
  BY ExactIndices
<1>11. Exact(t, k)
  BY <1>1, <1>5, <1>8, <1>9, <1>10, ExactIndices
<1> QED
  BY <1>0, <1>2, <1>3, <1>4, <1>11 DEF t

LEMMA LeastNumber ==
  ASSUME NEW S \in SUBSET Nat, S # {}
  PROVE  \E n \in S : \A m \in S : n <= m
<1> DEFINE below == OpToRel(<, Nat)
<1>1. IsWellFoundedOn(below, Nat)
  BY NatLessThanWellFounded
<1> HIDE DEF below
<1>2. PICK n \in S : \A m \in S : ~(<<m, n>> \in below)
  BY <1>1, WFMin
<1>3. ASSUME NEW m \in S PROVE n <= m
  <2>1. n \in Nat /\ m \in Nat /\ ~(<<m, n>> \in below)
    BY <1>2
  <2> QED
    BY <2>1 DEF below, OpToRel
<1> QED
  BY <1>3

\* A group of pictures ends with the list or in front of a key frame, and has
\* none but its first frame inside.
LEMMA GOPProperties ==
  ASSUME NEW s \in Frames, s # <<>>
  PROVE  /\ GOPLength(s) \in 1..Len(s)
         /\ GOPLength(s) < Len(s) => s[GOPLength(s) + 1].key
         /\ \A m \in 2..GOPLength(s) : ~s[m].key
<1> DEFINE g == GOPLength(s)
<1>1. Len(s) \in Nat /\ Len(s) > 0
  BY FramesOf DEF Frames
<1>2. GOPEnds(s) \subseteq 1..Len(s) /\ Len(s) \in GOPEnds(s)
  BY <1>1 DEF GOPEnds
<1>3. GOPEnds(s) \in SUBSET Nat /\ GOPEnds(s) # {}
  BY <1>1, <1>2
<1>4. \E n \in GOPEnds(s) : \A m \in GOPEnds(s) : n <= m
  BY <1>3, LeastNumber
<1>5. g \in GOPEnds(s) /\ \A m \in GOPEnds(s) : g <= m
  BY <1>4 DEF GOPLength
<1> HIDE DEF g
<1>6. g \in 1..Len(s) /\ (g = Len(s) \/ s[g + 1].key)
  BY <1>5 DEF GOPEnds
<1>7. ASSUME NEW m \in 2..g PROVE ~s[m].key
  <2>1. m - 1 \in 1..Len(s) /\ m - 1 < g
    BY <1>1, <1>6
  <2>2. m - 1 \in GOPEnds(s) => g <= m - 1
    BY <1>5
  <2>5. m - 1 \notin GOPEnds(s)
    BY <1>1, <1>6, <2>1, <2>2
  <2>3. ~s[(m - 1) + 1].key
    BY <2>1, <2>5 DEF GOPEnds
  <2>4. (m - 1) + 1 = m
    BY <1>1, <1>6
  <2> QED
    BY <2>3, <2>4
<1> QED
  BY <1>1, <1>6, <1>7 DEF g

-----------------------------------------------------------------------------
(***************************************************************************)
(* The inductive invariant of the buffer.  BufferConsistent is not         *)
(* inductive alone: that the new frame keeps the list in order needs to    *)
(* know that it is newer than every frame, that an empty list gets a key   *)
(* frame needs to know what PutData was called with, and that the bytes    *)
(* fit needs to know that nothing is lent while PutData runs.              *)
(***************************************************************************)
ListsTyped == /\ bufList \in Frames /\ iFrameList \in Frames /\ feed \in Frames
              /\ numOfKeyFrames \in Nat /\ freeSize \in Nat

Lists == ListsTyped /\ BufferConsistent

Stamped == /\ lastTS \in Nat /\ lastTS <= MaxTS
           /\ \A i \in 1..Len(bufList) : bufList[i].ts \in 1..lastTS

\* What PutData knows of its frame until it is put into the list.
PutSound == pc \in {"size", "append"} =>
              /\ req.ts \in 1..lastTS
              /\ \A i \in 1..Len(bufList) : bufList[i].ts < req.ts
              /\ bufList = <<>> => req.key

Modes == /\ fileDuration \in Durations /\ status \in Status /\ req \in Frame
         /\ pc \in {"idle", "size", "append", "put", "lent"}
         /\ feed # <<>> => pc = "lent"

BufferInv == Lists /\ LentWholeGOPs /\ Stamped /\ PutSound /\ Modes

LEMMA ConsistentLists ==
  BufferConsistent <=> /\ freeSize + Bytes(bufList) + Bytes(feed) = Capacity
                       /\ bufList # <<>> => bufList[1].key
                       /\ Exact(bufList, iFrameList)
                       /\ Len(iFrameList) <= numOfKeyFrames
BY DEF BufferConsistent, BytesConserved, HeadIsKeyFrame, IFramesExact,
       CounterCoversKeyFrames, Exact

LEMMA ConsistentNext ==
  BufferConsistent' <=> /\ freeSize' + Bytes(bufList') + Bytes(feed') = Capacity
                        /\ bufList' # <<>> => bufList'[1].key
                        /\ Exact(bufList', iFrameList')
                        /\ Len(iFrameList') <= numOfKeyFrames'
BY DEF BufferConsistent, BytesConserved, HeadIsKeyFrame, IFramesExact,
       CounterCoversKeyFrames, Exact

LEMMA BufferTypes == BufferInv => TypeOK
<1> SUFFICES ASSUME BufferInv PROVE TypeOK
  OBVIOUS
<1>1. /\ bufList \in Frames /\ iFrameList \in Frames /\ feed \in Frames
      /\ numOfKeyFrames \in Nat /\ freeSize \in Nat
  BY DEF BufferInv, Lists, ListsTyped
<1>2. freeSize + Bytes(bufList) + Bytes(feed) = Capacity
  BY ConsistentLists DEF BufferInv, Lists
<1>3. Bytes(bufList) \in Nat /\ Bytes(feed) \in Nat /\ Capacity \in Nat
  BY <1>1, BytesFinite, SizeAssumption
<1>4. freeSize \in 0..Capacity
  BY <1>1, <1>2, <1>3
<1> QED
  BY <1>1, <1>4 DEF TypeOK, BufferInv, Stamped, Modes, Frames

LEMMA BufferStarts == AVInit => BufferInv
<1> SUFFICES ASSUME AVInit PROVE BufferInv
  OBVIOUS
<1> USE DEF AVInit
<1>1. Capacity \in Nat /\ MaxTS \in Nat
  BY SizeAssumption, TimeAssumption
<1>2. <<>> \in Frames /\ Len(<<>>) = 0
  BY DEF Frames
<1>3. ListsTyped
  BY <1>1, <1>2 DEF ListsTyped
<1>4. Exact(<<>>, <<>>)
  BY <1>2, ExactIndices
<1>5. BufferConsistent
  BY <1>1, <1>2, <1>4, ConsistentLists, BytesEmpty
<1>6. LentWholeGOPs /\ Stamped /\ PutSound
  BY <1>1, <1>2 DEF LentWholeGOPs, Stamped, PutSound
<1>7. Modes
  <2>1. req \in Frame
    <3>1. [ts : {0}, size : Sizes, key : {FALSE}] \subseteq [ts : Nat, size : Sizes, key : BOOLEAN]
      <4>1. {0} \subseteq Nat /\ {FALSE} \subseteq BOOLEAN
        OBVIOUS
      <4> QED
        BY <4>1, Zenon
    <3> QED
      BY <3>1, Zenon DEF Frame
  <2> QED
    BY <2>1 DEF Modes, Status
<1> QED
  BY <1>3, <1>5, <1>6, <1>7 DEF BufferInv, Lists

\* Cutting the front off leaves frames of the list, in order.
DrawnFrom(t, s) == \A i \in 1..Len(t) : \E m \in 1..Len(s) : t[i] = s[m]

\* RecycleIFrameList keeps the lists consistent, and when it succeeds on a list
\* with frames some of them stay.
LEMMA Recycled ==
  ASSUME Lists, RecycleIFrameList, feed' = feed
  PROVE  /\ Lists' /\ DrawnFrom(bufList', bufList)
         /\ RecycleSucceeds => (bufList' = <<>> => bufList = <<>>)
<1> DEFINE n == OldestGOP
<1>0. /\ bufList \in Frames /\ iFrameList \in Frames /\ feed \in Frames
      /\ numOfKeyFrames \in Nat /\ freeSize \in Nat
  BY DEF Lists, ListsTyped
<1>1. /\ freeSize + Bytes(bufList) + Bytes(feed) = Capacity
      /\ bufList # <<>> => bufList[1].key
      /\ Exact(bufList, iFrameList)
      /\ Len(iFrameList) <= numOfKeyFrames
  BY ConsistentLists DEF Lists
<1>2. /\ Len(bufList) \in Nat /\ Len(iFrameList) \in Nat
      /\ bufList # <<>> <=> Len(bufList) > 0
  BY <1>0, FramesOf DEF Frames
<1>3. CASE n = 0
  <2>1. UNCHANGED <<bufList, iFrameList, numOfKeyFrames, freeSize>>
    BY <1>3 DEF RecycleIFrameList, listVars
  <2>2. Lists'
    BY <1>0, <1>1, <2>1, ConsistentNext DEF Lists, ListsTyped
  <2> QED
    BY <2>1, <2>2 DEF DrawnFrom
<1>4. CASE n # 0
  <2>1. bufList # <<>> /\ bufList[1].key /\ n = GOPLength(bufList)
    BY <1>4 DEF OldestGOP
  <2>2. /\ bufList' = SubSeq(bufList, n + 1, Len(bufList))
        /\ freeSize' = freeSize + Bytes(SubSeq(bufList, 1, n))
        /\ numOfKeyFrames' = numOfKeyFrames - 1
        /\ iFrameList' = Tail(iFrameList)
    BY <1>4 DEF RecycleIFrameList, Released, PopIFrame
  <2>3. RecycleSucceeds => n \in 1..(Len(bufList) - 1)
    BY <2>1 DEF RecycleSucceeds
  <2>4. /\ n \in 1..Len(bufList) /\ (n < Len(bufList) => bufList[n + 1].key)
        /\ \A m \in 2..n : ~bufList[m].key
    BY <1>0, <2>1, GOPProperties
  <2> HIDE DEF n
  <2>5. Len(iFrameList) >= 1 /\ iFrameList[1] = bufList[1]
    BY <1>0, <1>1, <2>1, FirstKeyFrame
  <2>6. n \in 0..Len(bufList) /\ 2 \in 1..(Len(iFrameList) + 1)
    BY <1>2, <2>4, <2>5
  <2>7. /\ bufList' \in Frames /\ Len(bufList') = Len(bufList) - n
        /\ \A i \in 1..Len(bufList') : bufList'[i] = bufList[n + i]
    <3>1. n + 1 \in 1..(Len(bufList) + 1) /\ Len(bufList) \in (n + 1 - 1)..Len(bufList)
      BY <1>2, <2>4
    <3>2. /\ bufList' \in Frames /\ Len(bufList') = Len(bufList) - (n + 1) + 1
          /\ \A i \in 1..(Len(bufList) - (n + 1) + 1) : bufList'[i] = bufList[n + 1 + i - 1]
      BY <1>0, <2>2, <3>1, PartOf
    <3>3. \A i \in 1..Len(bufList') : n + 1 + i - 1 = n + i
      BY <1>2, <2>4, <3>2
    <3> QED
      BY <1>2, <2>4, <3>2, <3>3
  <2>8. iFrameList' = SubSeq(iFrameList, 2, Len(iFrameList)) /\ iFrameList # <<>>
    BY <1>0, <2>2, <2>5, TailIsSubSeq DEF Frames
  <2>9. iFrameList' \in Frames /\ Len(iFrameList') = Len(iFrameList) - 1
    BY <1>0, <2>2, <2>8, HeadTailProperties DEF Frames
  <2>10. ASSUME NEW i \in 1..Len(iFrameList), NEW m \in 1..Len(bufList),
                iFrameList[i] = bufList[m]
         PROVE  i >= 2 <=> m > n
    <3>1. iFrameList[i].key
      BY <1>0, <1>1, ExactIndices
    <3>2. m \notin 2..n
      BY <2>4, <2>10, <3>1
    <3>3. i = 1 => m = 1
      <4>1. m > 1 => bufList[1].ts < bufList[m].ts
        BY <1>0, <1>1, <1>2, <2>1, ExactIndices
      <4>2. bufList[1].ts \in Nat
        BY <1>0, <1>2, <2>1, FramesOf
      <4> QED
        BY <1>2, <2>5, <2>10, <4>1, <4>2
    <3>4. m = 1 => i = 1
      <4>1. 1 \in 1..Len(iFrameList)
        BY <1>2, <2>5
      <4>2. i > 1 => iFrameList[1].ts < iFrameList[i].ts
        BY <1>0, <1>1, <4>1, ExactIndices
      <4>3. iFrameList[1].ts \in Nat
        BY <1>0, <4>1, FramesOf
      <4> QED
        BY <1>2, <2>5, <2>10, <4>2, <4>3
    <3> QED
      BY <1>2, <2>4, <3>2, <3>3, <3>4
  <2>11. Exact(bufList', iFrameList')
    BY <1>0, <1>1, <2>2, <2>6, <2>8, <2>10, ExactCut
  <2>12. bufList' # <<>> => bufList'[1].key
    <3>1. bufList' # <<>> => 1 \in 1..Len(bufList')
      BY <2>7, FramesOf DEF Frames
    <3> QED
      BY <1>2, <2>4, <2>7, <3>1
  <2>13. freeSize' \in Nat /\ freeSize' + Bytes(bufList') + Bytes(feed') = Capacity
    <3>1. Bytes(bufList) = Bytes(SubSeq(bufList, 1, n)) + Bytes(bufList')
      BY <1>0, <2>2, <2>6, BytesCut
    <3>2. Bytes(SubSeq(bufList, 1, n)) \in Nat
      <4>1. 1 \in 1..(Len(bufList) + 1) /\ n \in (1 - 1)..Len(bufList)
        BY <1>2, <2>4
      <4>2. SubSeq(bufList, 1, n) \in Frames
        BY <1>0, <4>1, PartOf
      <4> QED
        BY <4>2, BytesFinite
    <3>3. Bytes(bufList') \in Nat /\ Bytes(feed) \in Nat
      BY <1>0, <2>7, BytesFinite
    <3> QED
      BY <1>0, <1>1, <2>2, <3>1, <3>2, <3>3
  <2>14. numOfKeyFrames' \in Nat /\ Len(iFrameList') <= numOfKeyFrames'
    BY <1>0, <1>1, <1>2, <2>2, <2>5, <2>9
  <2>15. Lists'
    BY <1>0, <2>7, <2>9, <2>11, <2>12, <2>13, <2>14, ConsistentNext DEF Lists, ListsTyped
  <2>16. DrawnFrom(bufList', bufList)
    <3>1. \A i \in 1..Len(bufList') : n + i \in 1..Len(bufList)
      BY <1>2, <2>4, <2>7
    <3> QED
      BY <2>7, <3>1 DEF DrawnFrom
  <2>17. RecycleSucceeds => bufList' # <<>>
    <3>1. RecycleSucceeds => Len(bufList') > 0
      BY <1>2, <2>3, <2>7
    <3>2. Len(<<>>) = 0
      OBVIOUS
    <3> QED
      BY <3>1, <3>2
  <2> QED
    BY <2>15, <2>16, <2>17
<1> QED
  BY <1>3, <1>4

\* The list after thinning.
LEMMA ThinnedOut ==
  ASSUME Lists, ThinOut, SingleGOP, feed' = feed
  PROVE  /\ Lists' /\ DrawnFrom(bufList', bufList)
         /\ bufList' = <<>> => bufList = <<>>
<1>0. /\ bufList \in Frames /\ iFrameList \in Frames /\ feed \in Frames
      /\ numOfKeyFrames \in Nat /\ freeSize \in Nat
  BY DEF Lists, ListsTyped
<1>1. /\ freeSize + Bytes(bufList) + Bytes(feed) = Capacity
      /\ bufList # <<>> => bufList[1].key
      /\ Exact(bufList, iFrameList)
      /\ Len(iFrameList) <= numOfKeyFrames
  BY ConsistentLists DEF Lists
<1>2. /\ bufList' = Thinned(bufList) /\ iFrameList' = iFrameList
      /\ freeSize' = freeSize + (Bytes(bufList) - Bytes(Thinned(bufList)))
      /\ numOfKeyFrames' = numOfKeyFrames
  BY DEF ThinOut, Erased
<1>3. Len(iFrameList) <= 1
  <2>1. Len(iFrameList) \in Nat /\ numOfKeyFrames <= 1
    BY <1>0, FramesOf DEF SingleGOP
  <2> QED
    BY <1>0, <1>1, <2>1
<1>4. /\ Exact(bufList', iFrameList')
      /\ bufList' # <<>> <=> bufList # <<>>
      /\ bufList # <<>> => bufList'[1] = bufList[1]
  BY <1>0, <1>1, <1>2, <1>3, ExactThinned
<1>5. /\ bufList' \in Frames
      /\ \A i \in 1..Len(bufList') : /\ 2 * i - 1 \in 1..Len(bufList)
                                     /\ bufList'[i] = bufList[2 * i - 1]
  BY <1>0, <1>2, ThinnedFrames
<1>6. freeSize' \in Nat /\ freeSize' + Bytes(bufList') + Bytes(feed') = Capacity
  <2>1. Bytes(bufList') <= Bytes(bufList)
    BY <1>0, <1>2, BytesThinned
  <2>2. Bytes(bufList') \in Nat /\ Bytes(bufList) \in Nat /\ Bytes(feed) \in Nat
    BY <1>0, <1>5, BytesFinite
  <2> QED
    BY <1>0, <1>1, <1>2, <2>1, <2>2
<1>7. Lists'
  BY <1>0, <1>1, <1>2, <1>4, <1>5, <1>6, ConsistentNext DEF Lists, ListsTyped
<1> QED
  BY <1>4, <1>5, <1>7 DEF DrawnFrom

\* The new frame goes to the end of both lists.
LEMMA Appended ==
  ASSUME BufferInv, pc = "append", freeSize >= req.size, feed' = feed,
         bufList' = Append(bufList, req), freeSize' = freeSize - req.size,
         IF req.key THEN /\ iFrameList' = Append(iFrameList, req)
                         /\ numOfKeyFrames' = numOfKeyFrames + 1
                    ELSE UNCHANGED <<iFrameList, numOfKeyFrames>>
  PROVE  Lists'
<1>0. /\ bufList \in Frames /\ iFrameList \in Frames /\ feed \in Frames
      /\ numOfKeyFrames \in Nat /\ freeSize \in Nat /\ req \in Frame
  BY DEF BufferInv, Lists, ListsTyped, Modes
<1>1. /\ freeSize + Bytes(bufList) + Bytes(feed) = Capacity
      /\ bufList # <<>> => bufList[1].key
      /\ Exact(bufList, iFrameList)
      /\ Len(iFrameList) <= numOfKeyFrames
  BY ConsistentLists DEF BufferInv, Lists
<1>2. /\ \A i \in 1..Len(bufList) : bufList[i].ts < req.ts
      /\ bufList = <<>> => req.key
  BY DEF BufferInv, PutSound
<1>3. Len(bufList) \in Nat /\ Len(iFrameList) \in Nat /\ (bufList # <<>> <=> Len(bufList) > 0)
  BY <1>0, FramesOf DEF Frames
<1>4. req.size \in Nat /\ req.key \in BOOLEAN
  BY <1>0, FrameSizes
<1>5. /\ bufList' \in Frames /\ Len(bufList') = Len(bufList) + 1
      /\ \A i \in 1..Len(bufList) : bufList'[i] = bufList[i]
      /\ bufList'[Len(bufList) + 1] = req
  BY <1>0, AppendProperties DEF Frames
<1>6. /\ iFrameList' \in Frames /\ numOfKeyFrames' \in Nat
      /\ Len(iFrameList') <= numOfKeyFrames'
      /\ \A i \in 1..Len(iFrameList) : iFrameList'[i] = iFrameList[i]
      /\ req.key => Len(iFrameList') = Len(iFrameList) + 1 /\ iFrameList'[Len(iFrameList) + 1] = req
      /\ ~req.key => Len(iFrameList') = Len(iFrameList)
  <2>1. CASE req.key
    <3>1. iFrameList' = Append(iFrameList, req) /\ numOfKeyFrames' = numOfKeyFrames + 1
      BY <2>1
    <3>2. /\ iFrameList' \in Frames /\ Len(iFrameList') = Len(iFrameList) + 1
          /\ \A i \in 1..Len(iFrameList) : iFrameList'[i] = iFrameList[i]
          /\ iFrameList'[Len(iFrameList) + 1] = req
      BY <1>0, <3>1, AppendProperties DEF Frames
    <3> QED
      BY <1>0, <1>1, <1>3, <2>1, <3>1, <3>2
  <2>2. CASE ~req.key
    BY <1>0, <1>1, <2>2
  <2> QED
    BY <2>1, <2>2
<1>7. /\ \A i, j \in 1..Len(bufList) : i < j => bufList[i].ts < bufList[j].ts
      /\ \A i, j \in 1..Len(iFrameList) : i < j => iFrameList[i].ts < iFrameList[j].ts
      /\ \A i \in 1..Len(iFrameList) :
           iFrameList[i].key /\ \E m \in 1..Len(bufList) : bufList[m] = iFrameList[i]
      /\ \A m \in 1..Len(bufList) :
           bufList[m].key => \E i \in 1..Len(iFrameList) : iFrameList[i] = bufList[m]
  BY <1>0, <1>1, ExactIndices
<1>8. ASSUME NEW i \in 1..Len(bufList'), NEW j \in 1..Len(bufList'), i < j
      PROVE  bufList'[i].ts < bufList'[j].ts
  <2>1. i \in 1..Len(bufList) /\ bufList'[i] = bufList[i]
    BY <1>3, <1>5, <1>8
  <2>2. CASE j \in 1..Len(bufList)
    BY <1>5, <1>7, <1>8, <2>1, <2>2
  <2>3. CASE j = Len(bufList) + 1
    BY <1>2, <1>5, <2>1, <2>3
  <2> QED
    BY <1>3, <1>5, <2>2, <2>3
<1>9. \A i \in 1..Len(iFrameList) : iFrameList[i].ts < req.ts
  BY <1>2, <1>7
<1>10. ASSUME NEW i \in 1..Len(iFrameList'), NEW j \in 1..Len(iFrameList'), i < j
       PROVE  iFrameList'[i].ts < iFrameList'[j].ts
  <2>1. i \in 1..Len(iFrameList) /\ iFrameList'[i] = iFrameList[i]
    BY <1>3, <1>4, <1>6, <1>10
  <2>2. CASE j \in 1..Len(iFrameList)
    BY <1>6, <1>7, <1>10, <2>1, <2>2
  <2>3. CASE j \notin 1..Len(iFrameList)
    <3>1. iFrameList'[j] = req
      BY <1>3, <1>4, <1>6, <2>3
    <3> QED
      BY <1>9, <2>1, <3>1
  <2> QED
    BY <2>2, <2>3
<1>11. ASSUME NEW i \in 1..Len(iFrameList')
       PROVE  iFrameList'[i].key /\ \E m \in 1..Len(bufList') : bufList'[m] = iFrameList'[i]
  <2>1. CASE i \in 1..Len(iFrameList)
    <3>1. iFrameList'[i] = iFrameList[i] /\ iFrameList[i].key
      BY <1>6, <1>7, <2>1
    <3>2. PICK m \in 1..Len(bufList) : bufList[m] = iFrameList[i]
      BY <1>7, <2>1
    <3>3. m \in 1..Len(bufList') /\ bufList'[m] = bufList[m]
      BY <1>3, <1>5
    <3> QED
      BY <3>1, <3>2, <3>3
  <2>2. CASE i \notin 1..Len(iFrameList)
    <3>1. req.key /\ iFrameList'[i] = req
      BY <1>3, <1>4, <1>6, <2>2
    <3>2. Len(bufList) + 1 \in 1..Len(bufList')
      BY <1>3, <1>5
    <3> QED
      BY <1>5, <3>1, <3>2
  <2> QED
    BY <2>1, <2>2
<1>12. ASSUME NEW m \in 1..Len(bufList'), bufList'[m].key
       PROVE  \E i \in 1..Len(iFrameList') : iFrameList'[i] = bufList'[m]
  <2>1. CASE m \in 1..Len(bufList)
    <3>1. bufList'[m] = bufList[m] /\ bufList[m].key
      BY <1>5, <1>12, <2>1
    <3>2. PICK i \in 1..Len(iFrameList) : iFrameList[i] = bufList[m]
      BY <1>7, <2>1, <3>1
    <3>3. i \in 1..Len(iFrameList') /\ iFrameList'[i] = iFrameList[i]
      BY <1>3, <1>4, <1>6
    <3> QED
      BY <3>1, <3>2, <3>3
  <2>2. CASE m \notin 1..Len(bufList)
    <3>1. bufList'[m] = req /\ req.key
      BY <1>3, <1>5, <1>12, <2>2
    <3>2. Len(iFrameList) + 1 \in 1..Len(iFrameList') /\ iFrameList'[Len(iFrameList) + 1] = req
      BY <1>3, <1>6, <3>1
    <3> QED
      BY <3>1, <3>2
  <2> QED
    BY <2>1, <2>2
<1>13. Exact(bufList', iFrameList')
  BY <1>5, <1>6, <1>8, <1>10, <1>11, <1>12, ExactIndices
<1>14. bufList' # <<>> => bufList'[1].key
  <2>1. CASE bufList = <<>>
    <3>1. Len(bufList) + 1 = 1
      BY <2>1
    <3> QED
      BY <1>2, <1>5, <2>1, <3>1
  <2>2. CASE bufList # <<>>
    BY <1>1, <1>3, <1>5, <2>2
  <2> QED
    BY <2>1, <2>2
<1>15. freeSize' \in Nat /\ freeSize' + Bytes(bufList') + Bytes(feed') = Capacity
  <2>1. Bytes(bufList') = Bytes(bufList) + req.size
    BY <1>0, BytesAppended
  <2>2. Bytes(bufList) \in Nat /\ Bytes(feed) \in Nat
    BY <1>0, BytesFinite
  <2>3. /\ freeSize' = freeSize - req.size /\ freeSize >= req.size
        /\ freeSize \in Nat /\ req.size \in Nat /\ feed' = feed
    BY <1>0, <1>1, <1>4
  <2> QED
    BY <1>1, <2>1, <2>2, <2>3
<1> QED
  BY <1>0, <1>5, <1>6, <1>13, <1>14, <1>15, ConsistentNext DEF Lists, ListsTyped

LEMMA GreatestNumber ==
  ASSUME NEW N \in Nat, NEW S \in SUBSET (1..N), S # {}
  PROVE  \E n \in S : \A m \in S : n >= m
<1> DEFINE T == {N - m : m \in S}
<1>1. T \in SUBSET Nat /\ T # {}
  <2>1. \A m \in S : N - m \in Nat
    OBVIOUS
  <2>2. \E m \in S : N - m \in T
    OBVIOUS
  <2> QED
    BY <2>1, <2>2
<1>2. PICK t \in T : \A u \in T : t <= u
  BY <1>1, LeastNumber
<1>3. PICK n \in S : t = N - n
  BY <1>2
<1>4. ASSUME NEW m \in S PROVE n >= m
  <2>1. N - n <= N - m
    BY <1>2, <1>3
  <2> QED
    BY <2>1
<1> QED
  BY <1>4

\* GetBufferList lends nothing, or the frames up to a later key frame.
LEMMA MovedProperties ==
  ASSUME NEW startTS, bufList \in Frames
  PROVE  Moved(startTS) = 0 \/ Moved(startTS) \in ClosedEnds
<1> DEFINE stops == StopEnds(startTS)
           ends == ClosedEnds
<1>1. Len(bufList) \in Nat
  BY FramesOf
<1>2. stops \subseteq ends /\ ends \subseteq 1..Len(bufList)
  BY <1>1 DEF StopEnds, ClosedEnds
<1> HIDE DEF stops, ends
<1>3. CASE stops # {}
  <2>1. stops \in SUBSET Nat
    BY <1>1, <1>2
  <2>2. \E n \in stops : \A m \in stops : n <= m
    BY <1>3, <2>1, LeastNumber
  <2>3. Moved(startTS) = CHOOSE n \in stops : \A m \in stops : n <= m
    BY <1>3 DEF Moved, stops
  <2>4. Moved(startTS) \in stops
    BY <2>2, <2>3
  <2> QED
    BY <1>2, <2>4 DEF ends
<1>4. CASE stops = {} /\ ends # {}
  <2>1. \E n \in ends : \A m \in ends : n >= m
    BY <1>1, <1>2, <1>4, GreatestNumber
  <2>2. Moved(startTS) = CHOOSE n \in ends : \A m \in ends : n >= m
    BY <1>4 DEF Moved, stops, ends
  <2>3. Moved(startTS) \in ends
    BY <2>1, <2>2
  <2> QED
    BY <2>3 DEF ends
<1>5. CASE stops = {} /\ ends = {}
  BY <1>5 DEF Moved, stops, ends
<1> QED
  BY <1>3, <1>4, <1>5

LEMMA Lent ==
  ASSUME BufferInv, NEW startTS, GetBufferList(startTS)
  PROVE  /\ Lists' /\ LentWholeGOPs' /\ DrawnFrom(bufList', bufList)
         /\ feed' # <<>> => /\ Len(feed') \in 1..Len(bufList) /\ bufList # <<>>
                            /\ feed'[1] = bufList[1]
                            /\ feed'[Len(feed')] = bufList[Len(feed')]
                            /\ \A i \in 1..Len(bufList') : feed'[Len(feed')].ts < bufList'[i].ts
<1> DEFINE n == Moved(startTS)
<1>0. /\ bufList \in Frames /\ iFrameList \in Frames /\ feed = <<>>
      /\ numOfKeyFrames \in Nat /\ freeSize \in Nat
  BY DEF BufferInv, Lists, ListsTyped, Modes, GetBufferList
<1>1. /\ freeSize + Bytes(bufList) + Bytes(feed) = Capacity
      /\ bufList # <<>> => bufList[1].key
      /\ Exact(bufList, iFrameList)
      /\ Len(iFrameList) <= numOfKeyFrames
  BY ConsistentLists DEF BufferInv, Lists
<1>2. Len(bufList) \in Nat /\ Len(iFrameList) \in Nat
  BY <1>0, FramesOf
<1>3. /\ feed' = SubSeq(bufList, 1, n)
      /\ bufList' = SubSeq(bufList, n + 1, Len(bufList))
      /\ iFrameList' = IF n = 0 THEN iFrameList ELSE FromFrame(bufList[n + 1], iFrameList)
      /\ UNCHANGED <<numOfKeyFrames, freeSize>>
  BY DEF GetBufferList, Kept
<1>4. n = 0 \/ n \in ClosedEnds
  BY <1>0, MovedProperties
<1> HIDE DEF n
<1>5. n \in 0..Len(bufList) /\ (n # 0 => n + 1 \in 1..Len(bufList))
  BY <1>2, <1>4 DEF ClosedEnds
<1>6. /\ feed' \in Frames /\ Len(feed') = n
      /\ \A i \in 1..n : feed'[i] = bufList[i]
  <2>1. 1 \in 1..(Len(bufList) + 1) /\ n \in (1 - 1)..Len(bufList)
    BY <1>2, <1>5
  <2>2. /\ feed' \in Frames /\ Len(feed') = n - 1 + 1
        /\ \A i \in 1..(n - 1 + 1) : feed'[i] = bufList[1 + i - 1]
    BY <1>0, <1>3, <2>1, PartOf
  <2> QED
    BY <1>5, <2>2
<1>7. /\ bufList' \in Frames /\ Len(bufList') = Len(bufList) - n
      /\ \A i \in 1..Len(bufList') : bufList'[i] = bufList[n + i]
  <2>1. n + 1 \in 1..(Len(bufList) + 1) /\ Len(bufList) \in (n + 1 - 1)..Len(bufList)
    BY <1>2, <1>5
  <2>2. /\ bufList' \in Frames /\ Len(bufList') = Len(bufList) - (n + 1) + 1
        /\ \A i \in 1..(Len(bufList) - (n + 1) + 1) : bufList'[i] = bufList[n + 1 + i - 1]
    <3> DEFINE rest == SubSeq(bufList, n + 1, Len(bufList))
    <3>1. bufList' = rest
      BY <1>3
    <3>2. /\ rest \in Frames /\ Len(rest) = Len(bufList) - (n + 1) + 1
          /\ \A i \in 1..(Len(bufList) - (n + 1) + 1) : rest[i] = bufList[n + 1 + i - 1]
      BY <1>0, <2>1, PartOf
    <3> HIDE DEF rest
    <3> QED
      BY <3>1, <3>2
  <2>3. \A i \in 1..Len(bufList') : n + 1 + i - 1 = n + i
    BY <1>2, <1>5, <2>2
  <2> QED
    BY <1>2, <1>5, <2>2, <2>3
<1>8. freeSize' + Bytes(bufList') + Bytes(feed') = Capacity
  <2>1. Bytes(bufList) = Bytes(feed') + Bytes(bufList')
    BY <1>0, <1>3, <1>5, BytesCut
  <2>2. Bytes(feed') \in Nat /\ Bytes(bufList') \in Nat /\ Bytes(feed) = 0
    BY <1>0, <1>6, <1>7, BytesFinite, BytesEmpty
  <2> QED
    BY <1>0, <1>1, <1>3, <2>1, <2>2
<1>9. DrawnFrom(bufList', bufList)
  <2>1. \A i \in 1..Len(bufList') : n + i \in 1..Len(bufList)
    BY <1>2, <1>5, <1>7
  <2> QED
    BY <1>7, <2>1 DEF DrawnFrom
<1>10. \A i, j \in 1..Len(bufList) : i < j => bufList[i].ts < bufList[j].ts
  BY <1>0, <1>1, ExactIndices
<1>11. CASE n = 0
  <2>1. feed' = <<>>
    BY <1>6, <1>11 DEF Frames
  <2>2. bufList' = bufList
    <3>1. Len(bufList') = Len(bufList) /\ \A i \in 1..Len(bufList') : bufList'[i] = bufList[i]
      BY <1>2, <1>7, <1>11
    <3> QED
      BY <1>0, <1>7, <3>1, SeqEqual DEF Frames
  <2>3. Lists'
    BY <1>0, <1>1, <1>3, <1>8, <1>11, <2>1, <2>2, <1>6, ConsistentNext DEF Lists, ListsTyped
  <2> QED
    BY <1>9, <2>1, <2>3 DEF LentWholeGOPs
<1>12. CASE n # 0
  <2>1. PICK k \in 2..Len(iFrameList) : bufList[n + 1] = iFrameList[k]
    BY <1>4, <1>12 DEF ClosedEnds, LaterKeyFrames
  <2> DEFINE j == CHOOSE i \in 1..Len(iFrameList) : iFrameList[i] = bufList[n + 1]
  <2>2. k \in 1..Len(iFrameList)
    BY <1>2
  <2>3. j \in 1..Len(iFrameList) /\ iFrameList[j] = bufList[n + 1]
    BY <2>1, <2>2
  <2>4. iFrameList' = SubSeq(iFrameList, j, Len(iFrameList))
    BY <1>3, <1>12 DEF FromFrame
  <2> HIDE DEF j
  <2>5. ASSUME NEW i \in 1..Len(iFrameList), NEW m \in 1..Len(bufList),
               iFrameList[i] = bufList[m]
        PROVE  i >= j <=> m > n
    <3>1. i < j => iFrameList[i].ts < iFrameList[j].ts
      BY <1>0, <1>1, <2>3, ExactIndices
    <3>2. j < i => iFrameList[j].ts < iFrameList[i].ts
      BY <1>0, <1>1, <2>3, ExactIndices
    <3>3. n + 1 \in 1..Len(bufList)
      BY <1>5, <1>12
    <3>4. /\ m < n + 1 => bufList[m].ts < bufList[n + 1].ts
          /\ n + 1 < m => bufList[n + 1].ts < bufList[m].ts
      BY <1>10, <3>3
    <3>5. bufList[m].ts \in Nat /\ bufList[n + 1].ts \in Nat
      BY <1>0, <3>3, FramesOf
    <3>6. i = j => bufList[m].ts = bufList[n + 1].ts
      BY <2>3, <2>5
    <3>7. m = n + 1 => iFrameList[i].ts = iFrameList[j].ts
      BY <2>3, <2>5
    <3>8. iFrameList[i].ts = bufList[m].ts /\ iFrameList[j].ts = bufList[n + 1].ts
      BY <2>3, <2>5
    <3> QED
      BY <1>2, <1>5, <2>3, <3>1, <3>2, <3>4, <3>5, <3>6, <3>7, <3>8
  <2>6. Exact(bufList', iFrameList')
    <3>1. j \in 1..(Len(iFrameList) + 1)
      BY <1>2, <2>3
    <3> QED
      BY <1>0, <1>1, <1>3, <1>5, <2>4, <2>5, <3>1, ExactCut
  <2>7. iFrameList' \in Frames /\ Len(iFrameList') <= numOfKeyFrames
    <3>1. j \in 1..(Len(iFrameList) + 1) /\ Len(iFrameList) \in (j - 1)..Len(iFrameList)
      BY <1>2, <2>3
    <3>2. iFrameList' \in Frames /\ Len(iFrameList') = Len(iFrameList) - j + 1
      BY <1>0, <2>4, <3>1, PartOf
    <3> QED
      BY <1>0, <1>1, <1>2, <2>3, <3>2
  <2>8. bufList[n + 1].key
    <3>1. iFrameList[k].key
      BY <1>0, <1>1, <2>2, ExactIndices
    <3> QED
      BY <2>1, <3>1, Zenon
  <2>9. 1 \in 1..Len(bufList') /\ bufList'[1] = bufList[n + 1] /\ bufList' # <<>>
    <3>1. 1 \in 1..Len(bufList')
      BY <1>2, <1>5, <1>7, <1>12
    <3> QED
      BY <1>7, <3>1
  <2>10. Lists'
    BY <1>0, <1>3, <1>6, <1>7, <1>8, <2>6, <2>7, <2>8, <2>9, ConsistentNext DEF Lists, ListsTyped
  <2>11. 1 \in 1..n /\ n \in 1..n /\ n \in 1..Len(bufList)
    BY <1>2, <1>5, <1>12
  <2>12. feed'[1] = bufList[1] /\ feed'[n] = bufList[n] /\ bufList # <<>>
    BY <1>6, <2>11
  <2>13. ASSUME NEW i \in 1..Len(bufList')
         PROVE  feed'[n].ts < bufList'[i].ts
    <3>1. n + i \in 1..Len(bufList) /\ n < n + i /\ bufList'[i] = bufList[n + i]
      BY <1>2, <1>5, <1>7
    <3> QED
      BY <1>10, <2>11, <2>12, <3>1
  <2>14. Increasing(feed')
    <3>1. \A i \in 1..n : i \in 1..Len(bufList) /\ feed'[i] = bufList[i]
      BY <1>2, <1>5, <1>6
    <3> QED
      BY <1>6, <1>10, <3>1 DEF Increasing
  <2>15. LentWholeGOPs'
    BY <1>1, <1>6, <2>8, <2>9, <2>12, <2>13, <2>14 DEF LentWholeGOPs, Increasing
  <2> QED
    BY <1>6, <1>9, <2>10, <2>11, <2>12, <2>13, <2>15
<1> QED
  BY <1>11, <1>12

\* Frames of the old list keep their stamps.
LEMMA StampsDrawn ==
  ASSUME Stamped, DrawnFrom(bufList', bufList), lastTS' = lastTS
  PROVE  Stamped'
BY DEF Stamped, DrawnFrom

\* PutData in the middle: the lists shrink.
LEMMA PutShrinks ==
  ASSUME BufferInv, Lists', DrawnFrom(bufList', bufList), pc = "size",
         UNCHANGED <<fileDuration, feed, status, req, lastTS>>,
         pc' \in {"size", "append", "put"},
         pc' \in {"size", "append"} => (bufList' = <<>> => bufList = <<>>)
  PROVE  BufferInv'
<1>1. Stamped'
  BY StampsDrawn DEF BufferInv
<1>2. PutSound'
  BY DEF BufferInv, PutSound, DrawnFrom
<1>3. feed' = <<>> /\ Modes'
  BY DEF BufferInv, Modes
<1>4. LentWholeGOPs'
  BY <1>3 DEF LentWholeGOPs
<1> QED
  BY <1>1, <1>2, <1>3, <1>4 DEF BufferInv

LEMMA BufferStep == BufferInv /\ [AVNext]_avVars => BufferInv'
<1> SUFFICES ASSUME BufferInv, [AVNext]_avVars
             PROVE  BufferInv'
  OBVIOUS
<1>0. /\ bufList \in Frames /\ iFrameList \in Frames /\ feed \in Frames
      /\ numOfKeyFrames \in Nat /\ freeSize \in Nat
  BY DEF BufferInv, Lists, ListsTyped
\* What holds of the lists is kept when they are.
<1>u. ASSUME UNCHANGED <<bufList, iFrameList, numOfKeyFrames, freeSize, feed>>
      PROVE  Lists' /\ LentWholeGOPs' /\ DrawnFrom(bufList', bufList)
  <2>1. Lists'
    BY <1>u DEF BufferInv, Lists, ListsTyped, BufferConsistent, BytesConserved,
       HeadIsKeyFrame, IFramesExact, CounterCoversKeyFrames
  <2>2. LentWholeGOPs'
    BY <1>u DEF BufferInv, LentWholeGOPs
  <2> QED
    BY <1>u, <2>1, <2>2 DEF DrawnFrom
<1>1. CASE Arrive
  <2>1. PICK gap \in Gaps, size \in Sizes, key \in BOOLEAN :
          /\ lastTS + gap <= MaxTS
          /\ PutData([ts |-> lastTS + gap, size |-> size, key |-> key])
    BY <1>1 DEF Arrive
  <2> DEFINE f == [ts |-> lastTS + gap, size |-> size, key |-> key]
  <2>2. /\ pc = "idle" /\ lastTS' = lastTS + gap /\ req' = f
        /\ pc' = (IF PutSkipped(f) THEN "put" ELSE "size")
        /\ UNCHANGED <<bufList, iFrameList, numOfKeyFrames, freeSize, fileDuration, feed, status>>
    BY <2>1 DEF PutData, listVars
  <2>3. lastTS \in Nat /\ gap \in Nat \ {0}
    BY TimeAssumption DEF BufferInv, Stamped
  <2>4. Lists' /\ LentWholeGOPs'
    BY <1>u, <2>2
  <2>5. Stamped'
    <3>1. \A i \in 1..Len(bufList) : bufList[i].ts \in 1..(lastTS + gap)
      BY <2>3 DEF BufferInv, Stamped
    <3> QED
      BY <2>1, <2>2, <2>3, <3>1 DEF Stamped
  <2>6. req' \in Frame /\ req'.ts = lastTS + gap /\ req'.key = key
    <3>1. lastTS + gap \in Nat
      BY <2>3
    <3> QED
      BY <2>2, <3>1 DEF Frame
  <2>7. Modes'
    BY <2>2, <2>6 DEF BufferInv, Modes
  <2>8. PutSound'
    <3>1. ASSUME pc' # "put" PROVE bufList = <<>> => key
      BY <2>2, <3>1 DEF PutSkipped
    <3>2. \A i \in 1..Len(bufList) : bufList[i].ts < lastTS + gap
      BY <2>3 DEF BufferInv, Stamped
    <3>3. lastTS + gap \in 1..(lastTS + gap)
      BY <2>3
    <3> QED
      BY <2>2, <2>6, <3>1, <3>2, <3>3 DEF PutSound
  <2> QED
    BY <2>4, <2>5, <2>7, <2>8 DEF BufferInv
<1>2. CASE MakeRoomInGOP
  <2>1. /\ pc = "size" /\ SingleGOP /\ ThinOut /\ pc' = pc
        /\ UNCHANGED <<fileDuration, feed, status, req, lastTS>>
    BY <1>2 DEF MakeRoomInGOP
  <2>2. Lists' /\ DrawnFrom(bufList', bufList) /\ (bufList' = <<>> => bufList = <<>>)
    BY <2>1, ThinnedOut DEF BufferInv
  <2> QED
    BY <2>1, <2>2, PutShrinks
<1>3. CASE MakeRoomByGOP
  <2>1. /\ pc = "size" /\ RecycleIFrameList
        /\ pc' = (IF RecycleSucceeds THEN "size" ELSE "put")
        /\ UNCHANGED <<fileDuration, feed, status, req, lastTS>>
    BY <1>3 DEF MakeRoomByGOP
  <2>2. /\ Lists' /\ DrawnFrom(bufList', bufList)
        /\ RecycleSucceeds => (bufList' = <<>> => bufList = <<>>)
    BY <2>1, Recycled DEF BufferInv
  <2> QED
    BY <2>1, <2>2, PutShrinks
<1>4. CASE CheckByTimestamp
  <2>1. pc = "size" /\ UNCHANGED <<fileDuration, feed, status, req, lastTS>>
    BY <1>4 DEF CheckByTimestamp
  <2>2. CASE TooOld
    <3>1. RecycleIFrameList /\ pc' = (IF RecycleSucceeds THEN "append" ELSE "put")
      BY <1>4, <2>2 DEF CheckByTimestamp
    <3>2. /\ Lists' /\ DrawnFrom(bufList', bufList)
          /\ RecycleSucceeds => (bufList' = <<>> => bufList = <<>>)
      BY <2>1, <3>1, Recycled DEF BufferInv
    <3> QED
      BY <2>1, <3>1, <3>2, PutShrinks
  <2>3. CASE ~TooOld
    <3>1. pc' = "append" /\ UNCHANGED <<bufList, iFrameList, numOfKeyFrames, freeSize>>
      BY <1>4, <2>3 DEF CheckByTimestamp, listVars
    <3>2. Lists' /\ DrawnFrom(bufList', bufList)
      BY <1>u, <2>1, <3>1
    <3> QED
      BY <2>1, <3>1, <3>2, PutShrinks
  <2> QED
    BY <2>2, <2>3
<1>5. CASE AppendBuffer
  <2>1. /\ pc = "append" /\ pc' = "put"
        /\ UNCHANGED <<fileDuration, feed, status, req, lastTS>>
    BY <1>5 DEF AppendBuffer
  <2>2. Lists'
    <3>1. CASE freeSize >= req.size
      BY <1>5, <2>1, <3>1, Appended DEF AppendBuffer
    <3>2. CASE ~(freeSize >= req.size)
      BY <1>5, <1>u, <2>1, <3>2 DEF AppendBuffer, listVars
    <3> QED
      BY <3>1, <3>2
  <2>3. Modes' /\ PutSound' /\ feed' = <<>>
    BY <2>1 DEF BufferInv, Modes, PutSound
  <2>4. LentWholeGOPs'
    BY <2>3 DEF LentWholeGOPs
  <2>5. Stamped'
    <3>1. CASE freeSize >= req.size
      <4>1. bufList' = Append(bufList, req) /\ req \in Frame
        BY <1>5, <3>1 DEF AppendBuffer, BufferInv, Modes
      <4>2. /\ Len(bufList') = Len(bufList) + 1
            /\ \A i \in 1..Len(bufList) : bufList'[i] = bufList[i]
            /\ bufList'[Len(bufList) + 1] = req
        BY <1>0, <4>1, AppendProperties DEF Frames
      <4>3. Len(bufList) \in Nat /\ req.ts \in 1..lastTS
        BY <1>0, <2>1, FramesOf DEF BufferInv, PutSound
      <4>4. ASSUME NEW i \in 1..Len(bufList') PROVE bufList'[i].ts \in 1..lastTS
        <5>1. CASE i \in 1..Len(bufList)
          BY <4>2, <5>1 DEF BufferInv, Stamped
        <5>2. CASE i \notin 1..Len(bufList)
          BY <4>2, <4>3, <5>2
        <5> QED
          BY <5>1, <5>2
      <4> QED
        BY <2>1, <4>4 DEF BufferInv, Stamped
    <3>2. CASE ~(freeSize >= req.size)
      BY <1>5, <2>1, <3>2 DEF AppendBuffer, listVars, BufferInv, Stamped
    <3> QED
      BY <3>1, <3>2
  <2> QED
    BY <2>2, <2>3, <2>4, <2>5 DEF BufferInv
<1>6. CASE PutReturns
  <2>1. /\ pc = "put" /\ pc' = "idle"
        /\ UNCHANGED <<bufList, iFrameList, numOfKeyFrames, freeSize, fileDuration, feed,
                       status, req, lastTS>>
    BY <1>6 DEF PutReturns, listVars
  <2>2. Lists' /\ LentWholeGOPs' /\ DrawnFrom(bufList', bufList)
    BY <1>u, <2>1
  <2> QED
    BY <2>1, <2>2, StampsDrawn DEF BufferInv, PutSound, Modes
<1>7. ASSUME NEW startTS, GetBufferList(startTS)
      PROVE  BufferInv'
  <2>1. /\ pc' = "lent" /\ status' = StatusOf(Moved(startTS), startTS)
        /\ UNCHANGED <<fileDuration, req, lastTS>>
    BY <1>7 DEF GetBufferList
  <2>2. Lists' /\ LentWholeGOPs' /\ DrawnFrom(bufList', bufList)
    BY <1>7, Lent
  <2>3. status' \in Status
    BY <2>1 DEF StatusOf, Status
  <2> QED
    BY <2>1, <2>2, <2>3, StampsDrawn DEF BufferInv, PutSound, Modes
<1>8. CASE Recycle
  <2>1. /\ pc = "lent" /\ pc' = "idle" /\ feed' = <<>>
        /\ freeSize' = freeSize + Bytes(feed)
        /\ UNCHANGED <<bufList, iFrameList, numOfKeyFrames, fileDuration, status, req, lastTS>>
    BY <1>8 DEF Recycle
  <2>2. Bytes(feed) \in Nat /\ Bytes(bufList) \in Nat /\ Bytes(feed') = 0
    BY <1>0, <2>1, BytesFinite, BytesEmpty
  <2>3. Lists'
    <3>1. /\ freeSize + Bytes(bufList) + Bytes(feed) = Capacity
          /\ bufList # <<>> => bufList[1].key
          /\ Exact(bufList, iFrameList)
          /\ Len(iFrameList) <= numOfKeyFrames
      BY ConsistentLists DEF BufferInv, Lists
    <3>2. freeSize' \in Nat /\ freeSize' + Bytes(bufList') + Bytes(feed') = Capacity
      BY <1>0, <2>1, <2>2, <3>1
    <3>3. feed' \in Frames
      BY <2>1 DEF Frames
    <3> QED
      BY <1>0, <2>1, <3>1, <3>2, <3>3, ConsistentNext DEF Lists, ListsTyped
  <2>4. LentWholeGOPs' /\ Modes' /\ PutSound' /\ Stamped'
    BY <2>1 DEF LentWholeGOPs, BufferInv, Modes, PutSound, Stamped
  <2> QED
    BY <2>3, <2>4 DEF BufferInv
<1>9. ASSUME NEW d \in Durations, SetFileDuration(d)
      PROVE  BufferInv'
  <2>1. /\ fileDuration' = d
        /\ UNCHANGED <<bufList, iFrameList, numOfKeyFrames, freeSize, feed, status, req, lastTS, pc>>
    BY <1>9 DEF SetFileDuration, listVars
  <2>2. Lists' /\ LentWholeGOPs' /\ DrawnFrom(bufList', bufList)
    BY <1>u, <2>1
  <2> QED
    BY <2>1, <2>2, StampsDrawn DEF BufferInv, PutSound, Modes
<1>10. CASE UNCHANGED avVars
  <2>1. UNCHANGED <<bufList, iFrameList, numOfKeyFrames, freeSize, fileDuration, feed,
                    status, req, lastTS, pc>>
    BY <1>10 DEF avVars
  <2>2. Lists' /\ LentWholeGOPs' /\ DrawnFrom(bufList', bufList)
    BY <1>u, <2>1
  <2> QED
    BY <2>1, <2>2, StampsDrawn DEF BufferInv, PutSound, Modes
<1> QED
  BY <1>1, <1>2, <1>3, <1>4, <1>5, <1>6, <1>7, <1>8, <1>9, <1>10 DEF AVNext, Fetch

\* The buffer keeps its invariant, whatever frames come, whenever the writer
\* asks and however the duration is set.
THEOREM BufferInvariant == AVSpec => []BufferInv
BY BufferStarts, BufferStep, PTL DEF AVSpec

\* Type correctness of the buffer: the unsigned _freeSize never wraps and never
\* exceeds MAX_BUFSIZE.
THEOREM BufferTyped == AVSpec => []TypeOK
BY BufferInvariant, BufferTypes, PTL

\* The byte count, the key frame at the head, _IFrameList and _numOfKeyFrames
\* agree with the frames in the buffer, through every recycle, thinning,
\* append and fetch.
THEOREM BufferTheorem == AVSpec => []BufferConsistent
<1>1. BufferInv => BufferConsistent
  BY DEF BufferInv, Lists
<1> QED
  BY <1>1, BufferInvariant, PTL

\* The writer only ever gets whole groups of pictures, older than what stays.
THEOREM LentTheorem == AVSpec => []LentWholeGOPs
<1>1. BufferInv => LentWholeGOPs
  BY DEF BufferInv
<1> QED
  BY <1>1, BufferInvariant, PTL

-----------------------------------------------------------------------------
(***************************************************************************)
(* The alarm handler.  ClipsBounded is not inductive alone: that the first *)
(* clip is opened below the bound needs to know that no clip exists before *)
(* it.  SnapshotNamesFresh needs to know how the numbers used so far       *)
(* relate to the next number and to the pending snapshot.                  *)
(***************************************************************************)
NoClipYet == alarmState \in {"NO_ALERT", "WAIT_TIME"} => minorVideoNo = 0

\* f was named before the next snapshot will be.
Older(f) == f.dir < minorVideoNo \/ (f.dir = minorVideoNo /\ f.no < minorJPGNo)

\* f was named no later than the next snapshot will be.
Named(f) == f.dir < minorVideoNo \/ (f.dir = minorVideoNo /\ f.no <= minorJPGNo)

NumbersGrow ==
  alarmState # "NO_ALERT" => /\ \A f \in jpgs : Older(f)
                             /\ ~bCaptured => Named(srcFile)

PushInv == /\ HandlerTypeOK /\ OpenIffWriting /\ ClipDirectoryFresh /\ ClipsBounded
           /\ SnapshotNamesFresh /\ NoClipYet /\ NumbersGrow

LEMMA HandlerStarts == PushInit => PushInv
<1> SUFFICES ASSUME PushInit PROVE PushInv
  OBVIOUS
<1> USE PushAssumption DEF PushInit
<1>1. HandlerTypeOK
  BY DEF HandlerTypeOK, AlarmStates, AlarmTypes, JPGFile
<1>2. OpenIffWriting
  BY DEF OpenIffWriting
<1>3. ClipDirectoryFresh
  BY DEF ClipDirectoryFresh
<1>4. ClipsBounded
  BY DEF ClipsBounded
<1>5. SnapshotNamesFresh /\ NoClipYet /\ NumbersGrow
  BY DEF SnapshotNamesFresh, NoClipYet, NumbersGrow
<1> QED
  BY <1>1, <1>2, <1>3, <1>4, <1>5 DEF PushInv

\* Dec is a bounded predecessor.
LEMMA DecProperties ==
  ASSUME NEW n \in Nat
  PROVE  Dec(n) \in Nat /\ Dec(n) <= n /\ (n = 0 => Dec(n) = 0)
BY DEF Dec

\* A tick of an event, with or without a new snapshot: what is pending
\* afterwards has a name that no file of the event has.
LEMMA SnapProperties ==
  ASSUME PushInv, alarmState # "NO_ALERT", NEW cond \in BOOLEAN, SnapIf(cond)
  PROVE  /\ srcFile' \in JPGFile /\ bCaptured' \in BOOLEAN
         /\ ~bCaptured' => srcFile' \notin jpgs /\ Named(srcFile')
<1> USE DEF PushInv, HandlerTypeOK
<1>1. CASE cond
  <2>1. bCaptured' = FALSE /\ srcFile' = [dir |-> minorVideoNo, no |-> minorJPGNo]
    BY <1>1 DEF SnapIf, SnapShot, ClipDirectoryFresh
  <2>2. \A f \in jpgs : f # srcFile'
    BY <2>1 DEF NumbersGrow, Older, JPGFile
  <2>3. srcFile' \in JPGFile /\ Named(srcFile')
    BY <2>1 DEF Named, JPGFile
  <2>4. bCaptured' \in BOOLEAN
    BY <2>1
  <2> QED
    BY <2>2, <2>3, <2>4
<1>2. CASE ~cond
  BY <1>2 DEF SnapIf, CheckJPGStatus, SnapshotNamesFresh, NumbersGrow, Named, JPGFile
<1> QED
  BY <1>1, <1>2

\* Every step of the handler preserves the invariant.
LEMMA HandlerStep == PushInv /\ [PushNext]_pushVars => PushInv'
<1> SUFFICES ASSUME PushInv, [PushNext]_pushVars
             PROVE  PushInv'
  OBVIOUS
<1> USE PushAssumption
    DEF PushInv, HandlerTypeOK, OpenIffWriting, ClipDirectoryFresh, ClipsBounded,
        SnapshotNamesFresh, NoClipYet, NumbersGrow, Older, Named, AlarmStates,
        AlarmTypes, JPGFile, infoVars, jpgVars
<1>1. CASE EnableEvent
  BY <1>1 DEF EnableEvent
<1>2. CASE ScheduleChanges
  BY <1>2 DEF ScheduleChanges
<1>3. ASSUME NEW d \in SecondDurations, SetSecondDuration(d)
      PROVE  PushInv'
  BY <1>3 DEF SetSecondDuration
<1>4. ASSUME NEW type \in AlarmTypes, OnDeviceMessage(type)
      PROVE  PushInv'
  <2> USE <1>4 DEF OnDeviceMessage, SnapShot
  <2>1. HandlerTypeOK'
    <3>1. srcFile' \in JPGFile /\ bCaptured' \in BOOLEAN
      OBVIOUS
    <3>2. tmpDir' \in Nat /\ minorJPGNo' \in Nat
      OBVIOUS
    <3> QED
      BY <3>1, <3>2
  <2>2. OpenIffWriting' /\ NoClipYet'
    OBVIOUS
  <2>3. ClipDirectoryFresh'
    OBVIOUS
  <2>4. ClipsBounded'
    OBVIOUS
  <2>5. SnapshotNamesFresh' /\ NumbersGrow'
    OBVIOUS
  <2> QED
    BY <2>1, <2>2, <2>3, <2>4, <2>5
<1>5. ASSUME NEW type \in AlarmTypes, OnDeviceMessageFails(type)
      PROVE  PushInv'
  <2> USE <1>5 DEF OnDeviceMessageFails
  <2>1. HandlerTypeOK'
    OBVIOUS
  <2>2. OpenIffWriting' /\ NoClipYet'
    OBVIOUS
  <2>3. ClipDirectoryFresh'
    OBVIOUS
  <2>4. ClipsBounded'
    OBVIOUS
  <2>5. SnapshotNamesFresh' /\ NumbersGrow'
    OBVIOUS
  <2> QED
    BY <2>1, <2>2, <2>3, <2>4, <2>5
<1>6. CASE JPGWritten
  <2> USE <1>6 DEF JPGWritten, NextJPGNo
  <2>1. HandlerTypeOK'
    OBVIOUS
  <2>2. OpenIffWriting' /\ NoClipYet'
    OBVIOUS
  <2>3. ClipDirectoryFresh'
    OBVIOUS
  <2>4. ClipsBounded'
    OBVIOUS
  <2>5. SnapshotNamesFresh' /\ NumbersGrow'
    OBVIOUS
  <2> QED
    BY <2>1, <2>2, <2>3, <2>4, <2>5
<1>7. CASE TickIdle
  <2> USE <1>7, DecProperties DEF TickIdle, CountDown, CheckJPGStatus
  <2>1. HandlerTypeOK'
    OBVIOUS
  <2>2. OpenIffWriting' /\ NoClipYet'
    OBVIOUS
  <2>3. ClipDirectoryFresh'
    OBVIOUS
  <2>4. ClipsBounded'
    OBVIOUS
  <2>5. SnapshotNamesFresh' /\ NumbersGrow'
    OBVIOUS
  <2> QED
    BY <2>1, <2>2, <2>3, <2>4, <2>5
<1>8. CASE TickStart
  <2> USE <1>8, DecProperties DEF TickStart, CountDown
  <2>1. /\ srcFile' \in JPGFile /\ bCaptured' \in BOOLEAN
        /\ ~bCaptured' => srcFile' \notin jpgs /\ Named(srcFile')
    BY SnapProperties, (minorVideoNo > 0) \in BOOLEAN
  <2>2. HandlerTypeOK'
    BY <2>1
  <2>3. OpenIffWriting' /\ NoClipYet'
    OBVIOUS
  <2>4. ClipDirectoryFresh' /\ ClipsBounded'
    OBVIOUS
  <2>5. SnapshotNamesFresh' /\ NumbersGrow'
    BY <2>1
  <2> QED
    BY <2>2, <2>3, <2>4, <2>5
<1>9. CASE TickBusy
  <2> USE <1>9, DecProperties DEF TickBusy, CountDown
  <2>1. /\ srcFile' \in JPGFile /\ bCaptured' \in BOOLEAN
        /\ ~bCaptured' => srcFile' \notin jpgs /\ Named(srcFile')
    BY SnapProperties, (minorVideoNo > 0) \in BOOLEAN
  <2>2. HandlerTypeOK'
    BY <2>1
  <2>3. OpenIffWriting' /\ NoClipYet'
    OBVIOUS
  <2>4. ClipDirectoryFresh' /\ ClipsBounded'
    OBVIOUS
  <2>5. SnapshotNamesFresh' /\ NumbersGrow'
    BY <2>1
  <2> QED
    BY <2>2, <2>3, <2>4, <2>5
<1>10. CASE TickNextClip
  <2> USE <1>10, DecProperties DEF TickNextClip, EventOver, CountDown
  <2>1. /\ srcFile' \in JPGFile /\ bCaptured' \in BOOLEAN
        /\ ~bCaptured' => srcFile' \notin jpgs /\ Named(srcFile')
    BY SnapProperties, (clipOpen') \in BOOLEAN
  <2>2. HandlerTypeOK'
    BY <2>1
  <2>3. OpenIffWriting' /\ NoClipYet'
    OBVIOUS
  <2>4. ClipDirectoryFresh' /\ ClipsBounded'
    OBVIOUS
  <2>5. SnapshotNamesFresh' /\ NumbersGrow'
    BY <2>1
  <2> QED
    BY <2>2, <2>3, <2>4, <2>5
<1>11. CASE TickReset
  <2> USE <1>11 DEF TickReset, EventOver, CheckJPGStatus
  <2>1. HandlerTypeOK'
    OBVIOUS
  <2>2. OpenIffWriting' /\ NoClipYet'
    OBVIOUS
  <2>3. ClipDirectoryFresh'
    OBVIOUS
  <2>4. ClipsBounded'
    OBVIOUS
  <2>5. SnapshotNamesFresh' /\ NumbersGrow'
    OBVIOUS
  <2> QED
    BY <2>1, <2>2, <2>3, <2>4, <2>5
<1>12. CASE FilmClip
  <2> USE <1>12 DEF FilmClip, IsPushState, WriteDone, StopRecord, NextFolder, LastClip
  <2>1. /\ fileDuration' \in SecondDurations \cup {FirstDuration}
        /\ alarmTick' \in Nat /\ clips' \subseteq Nat
    OBVIOUS
  <2>2. /\ preDuration' \in Nat /\ minorVideoNo' \in Nat /\ minorJPGNo' \in Nat
        /\ alarmState' \in AlarmStates
    OBVIOUS
  <2>3. enabled' \in BOOLEAN /\ clipOpen' \in BOOLEAN
    OBVIOUS
  <2>4. /\ tmpDir' \in Nat /\ bCaptured' \in BOOLEAN /\ srcFile' \in JPGFile
        /\ eventType' \in AlarmTypes \cup {"none"} /\ jpgs' \subseteq JPGFile
    OBVIOUS
  <2>5. HandlerTypeOK'
    BY <2>1, <2>2, <2>4, <2>3
  <2>6. OpenIffWriting' /\ NoClipYet'
    OBVIOUS
  <2>7. ClipDirectoryFresh' /\ ClipsBounded'
    OBVIOUS
  <2>8. SnapshotNamesFresh' /\ NumbersGrow'
    OBVIOUS
  <2> QED
    BY <2>5, <2>6, <2>7, <2>8
<1>13. CASE UNCHANGED pushVars
  BY <1>13 DEF pushVars
<1> QED
  BY <1>1, <1>2, <1>3, <1>4, <1>5, <1>6, <1>7, <1>8, <1>9, <1>10, <1>11, <1>12,
     <1>13 DEF PushNext, Control, OnEvent

\* The alarm handler keeps its invariant, whatever messages, ticks and frames
\* come and whichever file operations fail.
THEOREM HandlerInvariant == PushSpec => []PushInv
BY HandlerStarts, HandlerStep, PTL DEF PushSpec

\* Type correctness of the handler's state.
THEOREM HandlerTyped == PushSpec => []HandlerTypeOK
<1>1. PushInv => HandlerTypeOK
  BY DEF PushInv
<1> QED
  BY <1>1, HandlerInvariant, PTL

\* Clip files: open exactly in ALERT_WRITING, at most MaxClips per event, each
\* in a directory that holds no finished clip of the event.
THEOREM ClipsSafe == PushSpec => []ClipsInOrder
<1>1. PushInv => ClipsInOrder
  BY DEF PushInv, ClipsInOrder
<1> QED
  BY <1>1, HandlerInvariant, PTL

\* A snapshot never overwrites one taken earlier in the event.
THEOREM SnapshotsSafe == PushSpec => []SnapshotNamesFresh
<1>1. PushInv => SnapshotNamesFresh
  BY DEF PushInv
<1> QED
  BY <1>1, HandlerInvariant, PTL

(***************************************************************************)
(* The handler's clips are the clips of AlarmClips.                       *)
(***************************************************************************)
LEMMA ClipsStart == PushInit => Clips!ClipsInit
BY DEF PushInit, Clips!ClipsInit

\* Alarms begin an event, StartRecord opens a clip, BUFFER_WRITE_DONE closes
\* it, Reset ends the event; every other step is invisible.
LEMMA ClipsStep ==
  ASSUME PushInv, [PushNext]_pushVars
  PROVE  [Clips!ClipsNext]_Clips!clipVars
<1> USE DEF PushInv, HandlerTypeOK, AlarmStates, OpenIffWriting, ClipsBounded, NoClipYet,
            Clips!ClipsNext, Clips!clipVars, infoVars
<1>1. CASE \E type \in AlarmTypes : OnDeviceMessage(type)
  BY <1>1 DEF OnDeviceMessage, Clips!Begin
<1>2. CASE TickStart
  BY <1>2, PushAssumption DEF TickStart, Clips!Open
<1>3. CASE TickNextClip
  <2>1. minorVideoNo < MaxClips
    BY <1>3, DecProperties, PushAssumption DEF TickNextClip, EventOver
  <2> QED
    BY <1>3, <2>1 DEF TickNextClip, Clips!Open
<1>4. CASE FilmClip
  BY <1>4 DEF FilmClip, IsPushState, WriteDone, StopRecord, NextFolder, LastClip, Clips!Close
<1>5. CASE TickReset
  BY <1>5 DEF TickReset, Clips!End
<1>6. CASE UNCHANGED <<alarmState, minorVideoNo>>
  BY <1>6
<1>7. CASE \/ EnableEvent \/ ScheduleChanges \/ JPGWritten \/ TickIdle \/ TickBusy
           \/ \E d \in SecondDurations : SetSecondDuration(d)
           \/ \E type \in AlarmTypes : OnDeviceMessageFails(type)
           \/ UNCHANGED pushVars
  BY <1>6, <1>7 DEF EnableEvent, ScheduleChanges, JPGWritten, NextJPGNo, TickIdle, TickBusy,
     SetSecondDuration, OnDeviceMessageFails, pushVars
<1> QED
  BY <1>1, <1>2, <1>3, <1>4, <1>5, <1>7 DEF PushNext, Control, OnEvent

\* The alarm handler implements AlarmClips, for any number of clips.
THEOREM ImplementsTheClips == PushSpec => ImplementsAlarmClips
BY ClipsStart, ClipsStep, HandlerInvariant, PTL
   DEF PushSpec, ImplementsAlarmClips, Clips!ClipsSpec

-----------------------------------------------------------------------------
(***************************************************************************)
(* The recorder.  Its inductive invariant adds to the buffer's that the    *)
(* start of the clip is no younger than any frame that can still get into  *)
(* it, that the frames written so far are older than any such frame, and   *)
(* the type of the duration the handler passes to the buffer.              *)
(***************************************************************************)
ClipTimes == /\ firstFrameTime \in 0..lastTS /\ lastWritten \in 0..lastTS
             /\ \A i \in 1..Len(bufList) : firstFrameTime <= bufList[i].ts
             /\ pc \in {"size", "append"} => firstFrameTime <= req.ts /\ lastWritten < req.ts

RecorderInv == /\ BufferInv /\ ClipTimes /\ ClipsPlayable
               /\ secondDuration \in SecondDurations

LEMMA RecorderStarts == Init => RecorderInv
<1> SUFFICES ASSUME Init PROVE RecorderInv
  OBVIOUS
<1>1. BufferInv
  BY BufferStarts DEF Init
<1>2. /\ firstFrameTime = 0 /\ lastWritten = 0 /\ clipHead = <<>>
      /\ lastTS = 0 /\ bufList = <<>> /\ pc = "idle"
  BY DEF Init, AVInit
<1>3. ClipTimes /\ ClipsPlayable
  BY <1>2 DEF ClipTimes, ClipsPlayable, ClipStartsWithKeyFrame, NothingWrittenTwice
<1>4. secondDuration \in SecondDurations
  BY DEF Init, PushInit
<1> QED
  BY <1>1, <1>3, <1>4 DEF RecorderInv

\* The start of the clip that FeedData works with.
LEMMA StartProperties ==
  ASSUME RecorderInv
  PROVE  /\ StartTS \in 0..lastTS
         /\ \A i \in 1..Len(bufList) : StartTS <= bufList[i].ts
         /\ firstFrameTime > 0 => StartTS = firstFrameTime
<1>1. /\ bufList \in Frames /\ iFrameList \in Frames /\ Exact(bufList, iFrameList)
  BY ConsistentLists DEF RecorderInv, BufferInv, Lists, ListsTyped
<1>2. \A i \in 1..Len(bufList) : bufList[i].ts \in 1..lastTS
  BY DEF RecorderInv, BufferInv, Stamped
<1>3. lastTS \in Nat /\ firstFrameTime \in 0..lastTS
  BY DEF RecorderInv, ClipTimes, BufferInv, Stamped
<1>4. \A i, j \in 1..Len(bufList) : i < j => bufList[i].ts < bufList[j].ts
  BY <1>1, ExactIndices
<1>5. Len(bufList) \in Nat /\ (bufList # <<>> => Len(bufList) > 0)
  BY <1>1, FramesOf DEF Frames
<1>6. CASE firstFrameTime = 0 /\ bufList # <<>>
  <2>1. StartTS = bufList[1].ts /\ 1 \in 1..Len(bufList)
    BY <1>5, <1>6 DEF StartTS
  <2>2. ASSUME NEW i \in 1..Len(bufList) PROVE bufList[1].ts <= bufList[i].ts
    <3>1. i = 1 \/ 1 < i
      BY <1>5
    <3>2. 1 < i => bufList[1].ts < bufList[i].ts
      BY <1>4, <2>1
    <3>3. bufList[1].ts \in Nat /\ bufList[i].ts \in Nat
      BY <1>1, <2>1, FramesOf
    <3> QED
      BY <3>1, <3>2, <3>3
  <2>3. bufList[1].ts \in 1..lastTS
    BY <1>2, <2>1
  <2> QED
    BY <1>3, <1>6, <2>1, <2>2, <2>3
<1>7. CASE ~(firstFrameTime = 0 /\ bufList # <<>>)
  BY <1>3, <1>7 DEF StartTS, RecorderInv, ClipTimes
<1> QED
  BY <1>6, <1>7

\* What the iterations of PutData do to the list.
LEMMA PutDraws ==
  ASSUME BufferInv, PutSteps
  PROVE  /\ UNCHANGED <<lastTS, req, fileDuration>>
         /\ pc' \in {"size", "append"} => pc \in {"size", "append"}
         /\ \/ DrawnFrom(bufList', bufList)
            \/ pc = "append" /\ bufList' = Append(bufList, req)
<1>u. bufList' = bufList => DrawnFrom(bufList', bufList)
  BY DEF DrawnFrom
<1>1. CASE MakeRoomInGOP
  <2>1. DrawnFrom(bufList', bufList)
    BY <1>1, ThinnedOut DEF MakeRoomInGOP, BufferInv
  <2> QED
    BY <1>1, <2>1 DEF MakeRoomInGOP
<1>2. CASE MakeRoomByGOP
  <2>1. DrawnFrom(bufList', bufList)
    BY <1>2, Recycled DEF MakeRoomByGOP, BufferInv
  <2> QED
    BY <1>2, <2>1 DEF MakeRoomByGOP
<1>3. CASE CheckByTimestamp
  <2>1. ASSUME TooOld PROVE DrawnFrom(bufList', bufList)
    BY <1>3, <2>1, Recycled DEF CheckByTimestamp, BufferInv
  <2>2. ASSUME ~TooOld PROVE DrawnFrom(bufList', bufList)
    BY <1>3, <1>u, <2>2 DEF CheckByTimestamp, listVars
  <2>3. DrawnFrom(bufList', bufList)
    BY <2>1, <2>2
  <2> QED
    BY <1>3, <2>3 DEF CheckByTimestamp
<1>4. CASE AppendBuffer
  BY <1>4, <1>u DEF AppendBuffer, listVars
<1> QED
  BY <1>1, <1>2, <1>3, <1>4 DEF PutSteps

\* The handler sets the buffer's duration to one of its own.
LEMMA ControlSetsDuration ==
  ASSUME Control
  PROVE  /\ fileDuration' \in {fileDuration, FirstDuration}
         /\ secondDuration' \in {secondDuration} \cup SecondDurations
<1>1. CASE OnEvent
  BY <1>1 DEF OnEvent, TickIdle, TickStart, TickBusy,
     TickNextClip, TickReset
<1>2. CASE EnableEvent \/ ScheduleChanges \/ JPGWritten
  BY <1>2 DEF EnableEvent, ScheduleChanges, JPGWritten
<1>3. CASE \E d \in SecondDurations : SetSecondDuration(d)
  BY <1>3 DEF SetSecondDuration
<1>4. CASE \E type \in AlarmTypes : OnDeviceMessage(type) \/ OnDeviceMessageFails(type)
  BY <1>4 DEF OnDeviceMessage, OnDeviceMessageFails
<1> QED
  BY <1>1, <1>2, <1>3, <1>4 DEF Control

\* What one of the other handlers leaves alone, and how it may forget the clip.
LEMMA OthersDo ==
  ASSUME OtherHandlers
  PROVE  /\ pc = "idle" /\ Control /\ UNCHANGED <<bufferVars, isAudio, lastWritten>>
         /\ \/ firstFrameTime' = 0 /\ clipHead' = <<>>
            \/ UNCHANGED <<firstFrameTime, clipHead>>
BY DEF OtherHandlers, StartRecord, Control, OnEvent, fileVars

\* Every step of the recorder is one the buffer allows, or leaves it alone.
LEMMA StepOfBuffer ==
  ASSUME RecorderInv, [Next]_vars
  PROVE  [AVNext]_avVars
<1>1. CASE FeedData \/ PutDataGoesOn \/ FeedReturns \/ RecycleFed
  BY <1>1 DEF FeedData, PutDataGoesOn, FeedReturns, RecycleFed, AVNext, PutSteps
<1>2. CASE WriteFrames
  <2>1. GetBufferList(StartTS) /\ StartTS # 0
    BY <1>2 DEF WriteFrames, Wanted
  <2>2. lastTS \in Nat /\ lastTS <= MaxTS /\ MaxTS \in Nat
    BY TimeAssumption DEF RecorderInv, BufferInv, Stamped
  <2>3. StartTS \in 1..MaxTS
    BY <2>1, <2>2, StartProperties
  <2>4. bufList # <<>> => StartTS <= bufList[1].ts
    <3>1. bufList \in Frames
      BY DEF RecorderInv, BufferInv, Lists, ListsTyped
    <3>2. bufList # <<>> => 1 \in 1..Len(bufList)
      BY <3>1, FramesOf DEF Frames
    <3> QED
      BY <3>2, StartProperties
  <2> QED
    BY <2>1, <2>3, <2>4 DEF AVNext, Fetch
<1>3. CASE ReportFull
  <2>1. pc = "lent" /\ UNCHANGED bufferVars /\ WriteDone
    BY <1>3 DEF ReportFull, Full
  <2>2. fileDuration' \in Durations
    BY <2>1, RecorderAssumption DEF WriteDone, RecorderInv
  <2>3. SetFileDuration(fileDuration')
    BY <2>1 DEF SetFileDuration, bufferVars, listVars
  <2> QED
    BY <2>2, <2>3 DEF AVNext
<1>4. CASE OtherHandlers
  <2>1. pc = "idle" /\ UNCHANGED bufferVars /\ Control
    BY <1>4, OthersDo
  <2>2. CASE fileDuration' = fileDuration
    BY <2>1, <2>2 DEF bufferVars, avVars
  <2>3. CASE fileDuration' = FirstDuration
    <3>1. fileDuration' \in Durations
      BY <2>3, RecorderAssumption
    <3>2. SetFileDuration(fileDuration')
      BY <2>1 DEF SetFileDuration, bufferVars, listVars
    <3> QED
      BY <3>1, <3>2 DEF AVNext
  <2> QED
    BY <2>1, <2>2, <2>3, ControlSetsDuration
<1>5. CASE UNCHANGED vars
  BY <1>5 DEF vars, bufferVars, avVars
<1> QED
  BY <1>1, <1>2, <1>3, <1>4, <1>5 DEF Next

\* Every step of the recorder is one of the handler, or leaves it alone.
LEMMA StepOfHandler ==
  ASSUME [Next]_vars
  PROVE  [PushNext]_pushVars
<1>1. CASE /\ UNCHANGED handlerVars
           /\ \/ Arrive \/ PutSteps \/ PutReturns \/ Recycle
              \/ \E t \in {StartTS} : GetBufferList(t)
  <2>1. fileDuration' = fileDuration
    BY <1>1 DEF Arrive, PutData, PutSteps, MakeRoomInGOP, MakeRoomByGOP,
       CheckByTimestamp, AppendBuffer, PutReturns, Recycle, GetBufferList
  <2> QED
    BY <1>1, <2>1 DEF handlerVars, pushVars
<1>2. CASE FeedData \/ PutDataGoesOn \/ FeedReturns \/ WriteFrames \/ RecycleFed
  BY <1>1, <1>2 DEF FeedData, PutDataGoesOn, FeedReturns, WriteFrames, RecycleFed
<1>3. CASE ReportFull
  BY <1>3 DEF ReportFull, Full, PushNext, FilmClip
<1>4. CASE OtherHandlers
  BY <1>4, OthersDo DEF PushNext
<1>5. CASE UNCHANGED vars
  BY <1>5 DEF vars, handlerVars, pushVars
<1> QED
  BY <1>2, <1>3, <1>4, <1>5 DEF Next

LEMMA RecorderStep == RecorderInv /\ [Next]_vars => RecorderInv'
<1> SUFFICES ASSUME RecorderInv, [Next]_vars
             PROVE  RecorderInv'
  OBVIOUS
<1>1. BufferInv'
  BY StepOfBuffer, BufferStep DEF RecorderInv
<1>2. secondDuration' \in SecondDurations
  <2>1. CASE UNCHANGED handlerVars
    BY <2>1 DEF handlerVars, RecorderInv
  <2>2. CASE ReportFull
    BY <2>2 DEF ReportFull, WriteDone, RecorderInv
  <2>3. CASE OtherHandlers
    BY <2>3, OthersDo, ControlSetsDuration DEF RecorderInv
  <2> QED
    BY <2>1, <2>2, <2>3 DEF Next, FeedData, PutDataGoesOn, FeedReturns, WriteFrames, RecycleFed,
       vars
<1>0. /\ lastTS \in Nat /\ bufList \in Frames /\ Len(bufList) \in Nat
      /\ \A i \in 1..Len(bufList) : bufList[i].ts \in 1..lastTS
      /\ firstFrameTime \in 0..lastTS /\ lastWritten \in 0..lastTS
      /\ \A i \in 1..Len(bufList) : firstFrameTime <= bufList[i].ts
      /\ \A i \in 1..Len(bufList) : bufList[i].ts > lastWritten
      /\ pc \in {"size", "append"} => firstFrameTime <= req.ts /\ lastWritten < req.ts
  BY FramesOf DEF RecorderInv, BufferInv, Stamped, Lists, ListsTyped, ClipTimes, ClipsPlayable,
     NothingWrittenTwice
<1>h. clipHead # <<>> => clipHead[1].key /\ 0 < firstFrameTime /\ firstFrameTime <= clipHead[1].ts
  BY DEF RecorderInv, ClipsPlayable, ClipStartsWithKeyFrame
<1>3. ClipTimes' /\ ClipsPlayable'
  <2> USE DEF ClipTimes, ClipsPlayable, ClipStartsWithKeyFrame, NothingWrittenTwice
  <2>1. CASE FeedData
    <3>1. PICK gap \in Gaps, size \in Sizes, key \in BOOLEAN :
            PutData([ts |-> lastTS + gap, size |-> size, key |-> key])
      BY <2>1 DEF FeedData, Arrive
    <3>2. /\ bufList' = bufList /\ lastTS' = lastTS + gap /\ req'.ts = lastTS + gap
          /\ UNCHANGED <<firstFrameTime, clipHead, lastWritten>>
      BY <2>1, <3>1 DEF FeedData, PutData, listVars
    <3>3. gap \in Nat \ {0}
      BY TimeAssumption
    <3>4. /\ firstFrameTime \in 0..(lastTS + gap) /\ lastWritten \in 0..(lastTS + gap)
          /\ firstFrameTime <= lastTS + gap /\ lastWritten < lastTS + gap
      BY <1>0, <3>3
    <3> QED
      BY <1>0, <1>h, <3>2, <3>4
  <2>2. CASE PutDataGoesOn
    <3>1. PutSteps /\ UNCHANGED <<firstFrameTime, clipHead, lastWritten>>
      BY <2>2 DEF PutDataGoesOn, fileVars
    <3>2. /\ UNCHANGED <<lastTS, req>>
          /\ pc' \in {"size", "append"} => pc \in {"size", "append"}
          /\ \/ DrawnFrom(bufList', bufList)
             \/ pc = "append" /\ bufList' = Append(bufList, req)
      BY <3>1, PutDraws DEF RecorderInv
    <3>3. \A i \in 1..Len(bufList') : firstFrameTime <= bufList'[i].ts /\ bufList'[i].ts > lastWritten
      <4>1. CASE DrawnFrom(bufList', bufList)
        BY <1>0, <4>1 DEF DrawnFrom
      <4>2. CASE pc = "append" /\ bufList' = Append(bufList, req)
        <5>1. req \in Frame
          BY DEF RecorderInv, BufferInv, Modes
        <5>2. /\ Len(bufList') = Len(bufList) + 1
              /\ \A i \in 1..Len(bufList) : bufList'[i] = bufList[i]
              /\ bufList'[Len(bufList) + 1] = req
          BY <1>0, <4>2, <5>1, AppendProperties DEF Frames
        <5>3. firstFrameTime <= req.ts /\ req.ts > lastWritten
          <6>1. req.ts \in Nat
            BY <5>1, FrameSizes
          <6> QED
            BY <1>0, <4>2, <6>1
        <5>4. \A i \in 1..Len(bufList') : i \in 1..Len(bufList) \/ i = Len(bufList) + 1
          BY <1>0, <5>2
        <5> QED
          BY <1>0, <5>2, <5>3, <5>4
      <4> QED
        BY <3>2, <4>1, <4>2
    <3> QED
      BY <1>0, <1>h, <3>1, <3>2, <3>3
  <2>3. CASE FeedReturns
    <3>1. /\ pc' = "idle" /\ UNCHANGED <<bufList, lastTS, clipHead, lastWritten>>
          /\ firstFrameTime' = StartTS
      BY <2>3 DEF FeedReturns, PutReturns, listVars
    <3>2. clipHead # <<>> => StartTS = firstFrameTime
      BY <1>0, <1>h, StartProperties
    <3> QED
      BY <1>0, <1>h, <3>1, <3>2, StartProperties
  <2>4. CASE WriteFrames
    <3>1. /\ GetBufferList(StartTS) /\ StartTS # 0 /\ firstFrameTime' = StartTS
          /\ clipHead' = (IF clipHead = <<>> /\ feed' # <<>> THEN <<feed'[1]>> ELSE clipHead)
          /\ lastWritten' = (IF feed' = <<>> THEN lastWritten ELSE feed'[Len(feed')].ts)
      BY <2>4 DEF WriteFrames, Wanted
    <3>2. pc' = "lent" /\ lastTS' = lastTS
      BY <3>1 DEF GetBufferList
    <3>3. /\ DrawnFrom(bufList', bufList)
          /\ feed' # <<>> => /\ Len(feed') \in 1..Len(bufList) /\ bufList # <<>>
                             /\ feed'[1] = bufList[1]
                             /\ feed'[Len(feed')] = bufList[Len(feed')]
                             /\ \A i \in 1..Len(bufList') : feed'[Len(feed')].ts < bufList'[i].ts
      BY <3>1, Lent DEF RecorderInv
    <3>4. lastWritten' \in 0..lastTS /\ \A i \in 1..Len(bufList') : bufList'[i].ts > lastWritten'
      <4>1. CASE feed' = <<>>
        BY <1>0, <3>1, <3>3, <4>1 DEF DrawnFrom
      <4>2. CASE feed' # <<>>
        <5>1. lastWritten' = bufList[Len(feed')].ts /\ bufList[Len(feed')].ts \in 1..lastTS
          BY <1>0, <3>1, <3>3, <4>2
        <5>2. \A i \in 1..Len(bufList') : lastWritten' < bufList'[i].ts
          BY <3>1, <3>3, <4>2
        <5>3. \A i \in 1..Len(bufList') : bufList'[i].ts \in Nat
          BY <1>0, <3>3 DEF DrawnFrom
        <5> QED
          BY <1>0, <5>1, <5>2, <5>3
      <4> QED
        BY <4>1, <4>2
    <3>5. StartTS \in 0..lastTS /\ \A i \in 1..Len(bufList') : StartTS <= bufList'[i].ts
      BY <3>3, StartProperties DEF DrawnFrom
    <3>6. clipHead' # <<>> => /\ clipHead'[1].key /\ 0 < StartTS /\ StartTS <= clipHead'[1].ts
      <4>1. CASE clipHead = <<>> /\ feed' # <<>>
        <5>1. clipHead'[1] = bufList[1] /\ 1 \in 1..Len(bufList)
          BY <1>0, <3>1, <3>3, <4>1
        <5>2. bufList[1].key
          BY <3>3, <4>1, ConsistentLists DEF RecorderInv, BufferInv, Lists
        <5>3. StartTS <= bufList[1].ts /\ 0 < StartTS
          BY <1>0, <3>1, <5>1, StartProperties
        <5> QED
          BY <5>1, <5>2, <5>3
      <4>2. CASE ~(clipHead = <<>> /\ feed' # <<>>)
        <5>1. clipHead' = clipHead
          BY <3>1, <4>2
        <5>2. clipHead # <<>> => StartTS = firstFrameTime
          BY <1>0, <1>h, StartProperties
        <5> QED
          BY <1>h, <5>1, <5>2
      <4> QED
        BY <4>1, <4>2
    <3> QED
      BY <3>1, <3>2, <3>4, <3>5, <3>6
  <2>5. CASE RecycleFed
    <3>1. pc' = "idle" /\ UNCHANGED <<bufList, lastTS, firstFrameTime, clipHead, lastWritten>>
      BY <2>5 DEF RecycleFed, Recycle, fileVars
    <3> QED
      BY <1>0, <1>h, <3>1
  <2>6. CASE ReportFull
    <3>1. UNCHANGED <<pc, req, bufList, lastTS, firstFrameTime, clipHead, lastWritten>>
      BY <2>6 DEF ReportFull, fileVars, bufferVars
    <3> QED
      BY <1>0, <1>h, <3>1
  <2>7. CASE OtherHandlers
    <3>1. /\ UNCHANGED <<pc, req, bufList, lastTS, lastWritten>>
          /\ \/ firstFrameTime' = 0 /\ clipHead' = <<>>
             \/ UNCHANGED <<firstFrameTime, clipHead>>
      BY <2>7, OthersDo DEF bufferVars
    <3>2. \A i \in 1..Len(bufList) : 0 <= bufList[i].ts
      BY <1>0
    <3>3. pc = "idle"
      BY <2>7, OthersDo
    <3> QED
      BY <1>0, <1>h, <3>1, <3>2, <3>3
  <2>8. CASE UNCHANGED vars
    <3>1. UNCHANGED <<pc, req, bufList, lastTS, firstFrameTime, clipHead, lastWritten>>
      BY <2>8 DEF vars, fileVars, bufferVars
    <3> QED
      BY <1>0, <1>h, <3>1
  <2> QED
    BY <2>1, <2>2, <2>3, <2>4, <2>5, <2>6, <2>7, <2>8 DEF Next
<1> QED
  BY <1>1, <1>2, <1>3 DEF RecorderInv

\* The recorder keeps its invariant, however frames, ticks and alarms meet.
THEOREM RecorderInvariant == Spec => []RecorderInv
BY RecorderStarts, RecorderStep, PTL DEF Spec

\* Every clip starts with a key frame of its own time, and no frame is written
\* twice, in this clip or an earlier one.
THEOREM ClipsTheorem == Spec => []ClipsPlayable
<1>1. RecorderInv => ClipsPlayable
  BY DEF RecorderInv
<1> QED
  BY <1>1, RecorderInvariant, PTL

\* Inside the recorder the buffer is used as AVBufferList says: no setter runs
\* inside PutData, and the writer asks with a time no newer than the oldest frame.
THEOREM BufferRefinement == Spec => ImplementsBuffer
<1>1. Init => AVInit
  BY DEF Init
<1>2. RecorderInv /\ [Next]_vars => [AVNext]_avVars
  BY StepOfBuffer
<1> QED
  BY <1>1, <1>2, RecorderInvariant, PTL DEF Spec, ImplementsBuffer, AVSpec

\* A full clip is reported to the handler only while it waits for one, so the
\* handler's guarantees hold in the composition.
THEOREM HandlerRefinement == Spec => ImplementsHandler
<1>1. Init => PushInit
  BY DEF Init
<1>2. [Next]_vars => [PushNext]_pushVars
  BY StepOfHandler
<1> QED
  BY <1>1, <1>2, PTL DEF Spec, ImplementsHandler, PushSpec

\* What holds of the buffer alone holds of the buffer in the recorder.
THEOREM RecorderBuffer == Spec => [](BufferConsistent /\ LentWholeGOPs)
BY BufferRefinement, BufferTheorem, LentTheorem, PTL DEF ImplementsBuffer

\* What holds of the handler alone holds of the handler in the recorder.
THEOREM RecorderHandler == Spec => [](ClipsInOrder /\ SnapshotNamesFresh)
BY HandlerRefinement, ClipsSafe, SnapshotsSafe, PTL DEF ImplementsHandler
=============================================================================
