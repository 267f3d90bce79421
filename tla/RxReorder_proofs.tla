-------------------------- MODULE RxReorder_proofs --------------------------
(***************************************************************************)
(* Proofs about RxReorder for every size of the numbers, the buffer, the   *)
(* window and the bitmap, and every number of frames.                      *)
(***************************************************************************)
EXTENDS RxReorder, NumberLemmas, TLAPS

----------------------------------------------------------------------------
(* Sequence numbers of frames                                              *)

LEMMA Sizes ==
  /\ SeqMod \in Nat \ {0} /\ BufSize \in Nat \ {0} /\ BmpSize \in Nat \ {0}
  /\ WinSize \in Nat /\ 2 <= WinSize /\ WinSize <= BufSize /\ 2 * BufSize <= BmpSize
  /\ FirstSeq \in Int /\ 0 <= FirstSeq /\ FirstSeq < SeqMod
  /\ MaxFrame \in Nat
  /\ Half \in Nat /\ 2 * Half <= SeqMod /\ SeqMod <= 2 * Half + 1
  /\ MaxFrame + 2 + BmpSize <= Half
<1>1. BufSize \in Nat \ {0} /\ WinSize \in 2..BufSize /\ BmpSize \in 2 * BufSize..SeqMod
      /\ FirstSeq \in 0..SeqMod - 1 /\ MaxFrame \in Nat /\ MaxFrame + 2 + BmpSize <= SeqMod \div 2
  BY SizesAssumption, FramesAssumption
<1>2. BmpSize \in Nat \ {0} /\ WinSize \in Nat /\ FirstSeq \in Int
  BY <1>1
<1>3. SeqMod \in Nat \ {0}
  BY SizesAssumption
<1>4. QED BY <1>1, <1>2, <1>3 DEF Half

LEMMA SeqIn == \A a \in Int : SeqOf(a) \in Seqs /\ SeqOf(a) \in Int
BY Sizes, ModRange DEF SeqOf, Seqs

LEMMA SeqAdd == \A a, b \in Int : Add(SeqOf(a), b) = SeqOf(a + b)
<1> SUFFICES ASSUME NEW a \in Int, NEW b \in Int PROVE Add(SeqOf(a), b) = SeqOf(a + b)
  OBVIOUS
<1>1. PICK x \in Int : x = FirstSeq + a
  BY Sizes
<1>2. ((x % SeqMod) + b) % SeqMod = (x + b) % SeqMod
  BY Sizes, ModAdd
<1>3. (FirstSeq + a) + b = FirstSeq + (a + b)
  BY Sizes
<1>4. QED BY <1>1, <1>2, <1>3 DEF Add, SeqOf

LEMMA SeqSub == \A a, b \in Int : Sub(SeqOf(a), b) = SeqOf(a - b)
<1> SUFFICES ASSUME NEW a \in Int, NEW b \in Int PROVE Sub(SeqOf(a), b) = SeqOf(a - b)
  OBVIOUS
<1>1. Add(SeqOf(a), -b) = SeqOf(a - b)
  BY SeqAdd
<1>2. SeqOf(a) + (-b) = SeqOf(a) - b
  BY SeqIn
<1>3. QED BY <1>1, <1>2 DEF Add, Sub

LEMMA SeqDist == \A a, b \in Int : Dist(SeqOf(a), SeqOf(b)) = (b - a) % SeqMod
<1> SUFFICES ASSUME NEW a \in Int, NEW b \in Int PROVE Dist(SeqOf(a), SeqOf(b)) = (b - a) % SeqMod
  OBVIOUS
<1>1. PICK x \in Int, y \in Int : x = FirstSeq + a /\ y = FirstSeq + b
  BY Sizes
<1>2. ((y % SeqMod) - (x % SeqMod)) % SeqMod = (y - x) % SeqMod
  BY Sizes, ModSub
<1>3. y - x = b - a
  BY <1>1, Sizes
<1>4. QED BY <1>1, <1>2, <1>3 DEF Dist, SeqOf

LEMMA SeqSame ==
  ASSUME NEW a \in Int, NEW b \in Int, a - b < SeqMod, b - a < SeqMod, SeqOf(a) = SeqOf(b)
  PROVE  a = b
<1>1. PICK x \in Int, y \in Int : x = FirstSeq + a /\ y = FirstSeq + b
  BY Sizes
<1>2. x % SeqMod = y % SeqMod /\ x - y < SeqMod /\ y - x < SeqMod
  BY <1>1, Sizes DEF SeqOf
<1>3. x = y
  BY <1>2, Sizes, ModSame
<1>4. QED BY <1>1, <1>3, Sizes

\* the distance of two frames that are less than SeqMod apart
LEMMA SeqDistIs ==
  ASSUME NEW a \in Int, NEW b \in Int, a <= b, b - a < SeqMod
  PROVE  Dist(SeqOf(a), SeqOf(b)) = b - a
<1>1. (b - a) % SeqMod = b - a
  BY Sizes
<1>2. QED BY <1>1, SeqDist

\* baw_seqno_lt and baw_seqno_leq compare as the frames do
LEMMA SeqOrder ==
  ASSUME NEW a \in Int, NEW b \in Int, a - b < Half, b - a < Half
  PROVE  /\ Lt(SeqOf(a), SeqOf(b)) <=> a < b
         /\ Leq(SeqOf(a), SeqOf(b)) <=> a <= b
<1>1. PICK x \in Int : x = SeqOf(a) /\ 0 <= x /\ x < SeqMod
  BY SeqIn, Sizes DEF Seqs
<1>2. PICK y \in Int : y = SeqOf(b) /\ 0 <= y /\ y < SeqMod
  BY SeqIn, Sizes DEF Seqs
<1>3. (b - a) % SeqMod = (y - x) % SeqMod
  BY <1>1, <1>2, SeqDist DEF Dist
<1>4. PICK u \in Int, v \in Int : u = b - a /\ v = y - x
  OBVIOUS
<1>5. PICK k \in Int : v = u + k * SeqMod
  <2>1. PICK i \in Int : u = i * SeqMod + (u % SeqMod)
    BY Sizes, ModSplit
  <2>2. PICK j \in Int : v = j * SeqMod + (v % SeqMod)
    BY Sizes, ModSplit
  <2>3. PICK r \in Int : r = u % SeqMod /\ r = v % SeqMod
    BY <1>3, <1>4, Sizes, ModRange
  <2>4. v = u + (j - i) * SeqMod
    BY <2>1, <2>2, <2>3, Sizes
  <2>5. QED BY <2>4
<1>6. k \in {-1, 0, 1}
  <2>1. ASSUME k >= 2 PROVE FALSE
    <3>1. k * SeqMod >= 2 * SeqMod
      BY <2>1, Sizes
    <3>2. QED BY <1>1, <1>2, <1>4, <1>5, <3>1, Sizes
  <2>2. ASSUME k <= -2 PROVE FALSE
    <3>1. k * SeqMod <= -2 * SeqMod
      BY <2>2, Sizes
    <3>2. QED BY <1>1, <1>2, <1>4, <1>5, <3>1, Sizes
  <2>3. QED BY <2>1, <2>2
<1>7. \/ y - x = b - a
      \/ y - x = b - a + SeqMod
      \/ y - x = b - a - SeqMod
  BY <1>4, <1>5, <1>6, Sizes
<1>8. QED BY <1>1, <1>2, <1>7, Sizes DEF Lt, Leq

LEMMA FrameOfSeq == \A f \in 0..MaxFrame + 1 : FrameOf(SeqOf(f)) = f
<1> SUFFICES ASSUME NEW f \in 0..MaxFrame + 1 PROVE FrameOf(SeqOf(f)) = f
  OBVIOUS
<1>1. FirstSeq = SeqOf(0)
  BY Sizes DEF SeqOf
<1>2. Dist(SeqOf(0), SeqOf(f)) = f
  BY Sizes, SeqDistIs
<1>3. QED BY <1>1, <1>2 DEF FrameOf, Dist

\* the slot and the bit of a frame
LEMMA SeqPlace ==
  ASSUME NEW D, D \in {BufSize, BmpSize}
  PROVE  /\ \A a \in Int : SeqOf(a) % D \in 0..D - 1 /\ SeqOf(a) % D = (FirstSeq + a) % D
         /\ \A a, b \in Int : a - b < D /\ b - a < D /\ SeqOf(a) % D = SeqOf(b) % D => a = b
<1>1. D \in Nat \ {0} /\ SeqMod % D = 0
  <2>1. SeqMod % BmpSize = 0 /\ BmpSize % BufSize = 0
    BY DivisorsAssumption
  <2>2. SeqMod \in Int /\ (SeqMod % BmpSize) % BufSize = SeqMod % BufSize
    <3>1. SeqMod \in Int
      BY Sizes
    <3>2. QED BY <2>1, <3>1, Sizes, ModDivisor
  <2>3. 0 % BufSize = 0
    BY Sizes
  <2>4. QED BY <2>1, <2>2, <2>3, Sizes
<1>2. \A a \in Int : SeqOf(a) % D = (FirstSeq + a) % D /\ SeqOf(a) % D \in 0..D - 1
  <2> SUFFICES ASSUME NEW a \in Int PROVE SeqOf(a) % D = (FirstSeq + a) % D /\ SeqOf(a) % D \in 0..D - 1
    OBVIOUS
  <2>1. PICK x \in Int : x = FirstSeq + a
    BY Sizes
  <2>2. (x % SeqMod) % D = x % D
    BY <1>1, Sizes, ModDivisor, ZenonT(30)
  <2>3. x % D \in 0..D - 1
    BY <1>1, ModRange
  <2>4. QED BY <2>1, <2>2, <2>3 DEF SeqOf
<1>3. ASSUME NEW a \in Int, NEW b \in Int, a - b < D, b - a < D, SeqOf(a) % D = SeqOf(b) % D
      PROVE  a = b
  <2>1. (FirstSeq + a) % D = (FirstSeq + b) % D
    BY <1>2, <1>3
  <2>2. PICK x \in Int, y \in Int : x = FirstSeq + a /\ y = FirstSeq + b
    BY Sizes
  <2>3. x % D = y % D /\ x - y < D /\ y - x < D
    BY <1>1, <1>3, <2>1, <2>2, Sizes
  <2>4. x = y
    BY <1>1, <2>3, ModSame
  <2>5. QED BY <2>2, <2>4, Sizes
<1>4. QED BY <1>2, <1>3

LEMMA SeqPeriod ==
  ASSUME NEW D, D \in {BufSize, BmpSize}, NEW a \in Int
  PROVE  SeqOf(a + D) % D = SeqOf(a) % D
<1>1. PICK b \in Nat \ {0} : b = D
  BY Sizes
<1>2. PICK x \in Int : x = FirstSeq + a
  BY Sizes
<1>3. SeqOf(a) % b = x % b
  BY <1>1, <1>2, SeqPlace
<1>4. SeqOf(a + b) % b = (x + b) % b
  <2>1. a + b \in Int /\ FirstSeq + (a + b) = x + b
    BY <1>2, Sizes
  <2>2. QED BY <1>1, <2>1, SeqPlace
<1>5. PICK i \in Int : x = i * b + (x % b)
  BY ModSplit
<1>6. PICK r \in 0..b - 1 : r = x % b
  BY ModRange
<1>7. x + b = (i + 1) * b + r /\ x + b \in Int /\ i + 1 \in Int
  BY <1>5, <1>6
<1>8. (x + b) % b = r
  BY <1>6, <1>7, ModIs
<1>9. QED BY <1>1, <1>3, <1>4, <1>6, <1>8

----------------------------------------------------------------------------
(* The reorder buffer: every frame is in the slot of its number.           *)

Reach == 0..Half - 1

Placed(sl) ==
  /\ sl \in [Slots -> Frames \cup {NoFrame}]
  /\ \A i \in Slots : sl[i] # NoFrame => SeqOf(sl[i]) % BufSize = i

Stored(sl) == {sl[i] : i \in InUse(sl)}

LEMMA InReach ==
  /\ \A f \in 0..MaxFrame + 1 + BufSize : f \in Reach
  /\ \A f, g \in Reach : f - g < Half /\ f - g < SeqMod
BY Sizes DEF Reach

LEMMA StoredIn ==
  ASSUME NEW sl, Placed(sl)
  PROVE  Stored(sl) \subseteq Frames /\ IsFiniteSet(Stored(sl)) /\ Cardinality(Stored(sl)) \in Nat
<1>1. Stored(sl) \subseteq Frames
  BY DEF Stored, InUse, Placed
<1>2. IsFiniteSet(Frames)
  BY FS_Interval, Sizes DEF Frames
<1>3. IsFiniteSet(Stored(sl))
  BY <1>1, <1>2, FS_Subset
<1>4. QED BY <1>1, <1>3, FS_CardinalityType

LEMMA PlaceIn == \A f \in Int : SeqOf(f) % BufSize \in Slots
BY SeqPlace DEF Slots

\* the search for a number finds the frame if it is held
LEMMA HasIff ==
  ASSUME NEW sl, Placed(sl), NEW f \in Reach
  PROVE  /\ Has(sl, SeqOf(f)) <=> f \in Stored(sl)
         /\ f \in Stored(sl) => sl[SeqOf(f) % BufSize] = f
<1>1. PICK p \in Slots : p = SeqOf(f) % BufSize
  BY PlaceIn DEF Reach
<1>2. ASSUME sl[p] # NoFrame, SeqOf(sl[p]) = SeqOf(f) PROVE f \in Stored(sl)
  <2>1. sl[p] \in Frames
    BY <1>2 DEF Placed
  <2>2. sl[p] \in Int /\ f \in Int /\ sl[p] - f < SeqMod /\ f - sl[p] < SeqMod
    BY <2>1, Sizes DEF Frames, Reach
  <2>3. sl[p] = f
    BY <1>2, <2>2, SeqSame
  <2>4. QED BY <1>2, <2>3 DEF Stored, InUse
<1>3. ASSUME f \in Stored(sl) PROVE sl[p] = f /\ f # NoFrame
  <2>1. PICK i \in Slots : sl[i] = f /\ sl[i] # NoFrame
    BY <1>3 DEF Stored, InUse
  <2>2. SeqOf(f) % BufSize = i
    BY <2>1 DEF Placed
  <2>3. QED BY <1>1, <2>1, <2>2
<1>4. QED BY <1>1, <1>2, <1>3 DEF Has

LEMMA GapIs ==
  ASSUME NEW sl, Placed(sl), NEW n \in 0..MaxFrame + 1, NEW m \in 0..MaxFrame + 1, n <= m
  PROVE  GapFrames(sl, SeqOf(n), SeqOf(m)) = {f \in Stored(sl) : n <= f /\ f < m}
<1>1. Dist(SeqOf(n), SeqOf(m)) = m - n
  BY Sizes, SeqDistIs
<1>2. \A j \in 0..(m - n) - 1 : Add(SeqOf(n), j) = SeqOf(n + j) /\ n + j \in Reach
  BY SeqAdd, Sizes DEF Reach
<1>3. GapFrames(sl, SeqOf(n), SeqOf(m))
        = {sl[SeqOf(n + i) % BufSize] : i \in {j \in 0..(m - n) - 1 : Has(sl, SeqOf(n + j))}}
  BY <1>1, <1>2 DEF GapFrames
<1> DEFINE I == {j \in 0..(m - n) - 1 : Has(sl, SeqOf(n + j))}
<1>4. \A j \in 0..(m - n) - 1 : /\ Has(sl, SeqOf(n + j)) <=> n + j \in Stored(sl)
                                /\ n + j \in Stored(sl) => sl[SeqOf(n + j) % BufSize] = n + j
  BY <1>2, HasIff
<1>5. ASSUME NEW f \in Stored(sl), n <= f, f < m
      PROVE  \E i \in I : f = sl[SeqOf(n + i) % BufSize]
  <2>1. f \in Int
    BY StoredIn DEF Frames
  <2>2. f - n \in 0..(m - n) - 1 /\ n + (f - n) = f
    BY <1>5, <2>1
  <2>3. QED BY <1>4, <1>5, <2>2
<1>6. ASSUME NEW i \in I
      PROVE  /\ sl[SeqOf(n + i) % BufSize] \in Stored(sl)
             /\ n <= sl[SeqOf(n + i) % BufSize] /\ sl[SeqOf(n + i) % BufSize] < m
  <2>1. i \in 0..(m - n) - 1 /\ n + i \in Stored(sl) /\ sl[SeqOf(n + i) % BufSize] = n + i
    BY <1>4, <1>6
  <2>2. n <= n + i /\ n + i < m
    BY <2>1
  <2>3. QED BY <2>1, <2>2
<1> HIDE DEF I
<1>7. {sl[SeqOf(n + i) % BufSize] : i \in I} = {f \in Stored(sl) : n <= f /\ f < m}
  BY <1>5, <1>6
<1>8. QED BY <1>3, <1>7 DEF I

LEMMA WithoutIs ==
  ASSUME NEW sl, Placed(sl), NEW S, S \subseteq Frames
  PROVE  Placed(Without(sl, S)) /\ Stored(Without(sl, S)) = Stored(sl) \ S
<1>1. NoFrame \notin S
  BY DEF Frames, NoFrame
<1> DEFINE w == Without(sl, S)
<1>2. w \in [Slots -> Frames \cup {NoFrame}] /\ \A i \in Slots : w[i] = IF sl[i] \in S THEN NoFrame ELSE sl[i]
  BY DEF Without, Placed
<1>3. Placed(w)
  BY <1>2 DEF Placed
<1>4. Stored(w) = Stored(sl) \ S
  <2> HIDE DEF w
  <2>1. \A i \in Slots : w[i] # NoFrame <=> sl[i] # NoFrame /\ sl[i] \notin S
    BY <1>1, <1>2
  <2>2. \A i \in Slots : w[i] # NoFrame => w[i] = sl[i]
    BY <1>2
  <2>3. QED BY <2>1, <2>2 DEF Stored, InUse
<1>5. QED BY <1>3, <1>4

\* the search for a gap ends within the buffer: one slot cannot hold two frames
LEMMA RunIs ==
  ASSUME NEW sl, Placed(sl), NEW q \in 0..MaxFrame + 1
  PROVE  \E k \in 0..BufSize :
           /\ RunLength(sl, SeqOf(q)) = k
           /\ q + k \in 0..MaxFrame + 1
           /\ \A i \in 0..k - 1 : q + i \in Stored(sl)
<1>1. \A j \in 0..BufSize : Add(SeqOf(q), j) = SeqOf(q + j) /\ q + j \in Reach
  BY SeqAdd, Sizes DEF Reach
<1>2. \A j \in 0..BufSize : Has(sl, Add(SeqOf(q), j)) <=> q + j \in Stored(sl)
  BY <1>1, HasIff
<1> DEFINE G == {j \in 0..BufSize : q + j \notin Stored(sl)}
<1>3. G # {}
  <2> SUFFICES ASSUME G = {} PROVE FALSE
    OBVIOUS
  <2>1. q \in Stored(sl) /\ q + BufSize \in Stored(sl)
    <3>1. 0 \in 0..BufSize /\ BufSize \in 0..BufSize /\ q + 0 = q
      BY Sizes
    <3>2. \A j \in 0..BufSize : q + j \in Stored(sl)
      OBVIOUS
    <3>3. QED BY <3>1, <3>2
  <2>2. SeqOf(q) % BufSize = SeqOf(q + BufSize) % BufSize
    <3>1. q \in Int
      OBVIOUS
    <3>2. QED BY <3>1, SeqPeriod
  <2>3. q \in Reach /\ q + BufSize \in Reach
    BY Sizes DEF Reach
  <2>4. sl[SeqOf(q) % BufSize] = q /\ sl[SeqOf(q + BufSize) % BufSize] = q + BufSize
    BY <2>1, <2>3, HasIff
  <2>5. QED BY <2>2, <2>4, Sizes
<1>4. PICK k \in G : \A j \in G : k <= j
  <2>1. BufSize \in Nat /\ G \in SUBSET (0..BufSize)
    BY Sizes
  <2> HIDE DEF G
  <2>2. Min(G) \in G /\ \A j \in G : Min(G) <= j
    BY <1>3, <2>1, LowestIndex
  <2>3. QED BY <2>2
<1>5. \A i \in 0..k - 1 : q + i \in Stored(sl)
  <2> SUFFICES ASSUME NEW i \in 0..k - 1, q + i \notin Stored(sl) PROVE FALSE
    OBVIOUS
  <2>1. i \in 0..BufSize /\ i < k
    BY <1>4, Sizes
  <2>2. QED BY <1>4, <2>1
<1>6. RunLength(sl, SeqOf(q)) = k
  <2> DEFINE IsRun(l) == /\ \A i \in 0..l - 1 : Has(sl, Add(SeqOf(q), i))
                         /\ ~Has(sl, Add(SeqOf(q), l))
  <2>1. k \in 0..BufSize /\ IsRun(k)
    BY <1>2, <1>4, <1>5, Sizes
  <2>2. ASSUME NEW l \in 0..BufSize, IsRun(l) PROVE l = k
    <3>1. l \in G
      BY <1>2, <2>2
    <3>2. ~ k < l
      BY <2>1, <2>2
    <3>3. QED BY <1>4, <3>1, <3>2
  <2>3. RunLength(sl, SeqOf(q)) = CHOOSE l \in 0..BufSize : IsRun(l)
    BY DEF RunLength
  <2> HIDE DEF IsRun
  <2>4. QED BY <2>1, <2>2, <2>3
<1>7. q + k \in 0..MaxFrame + 1
  <2>1. CASE k = 0
    BY <2>1
  <2>2. CASE k > 0
    <3>1. k - 1 \in 0..k - 1
      BY <2>2
    <3>2. q + (k - 1) \in Stored(sl)
      BY <1>5, <3>1
    <3>3. q + (k - 1) \in 0..MaxFrame
      BY <3>2, StoredIn DEF Frames
    <3>4. QED BY <3>3, Sizes
  <2>3. QED BY <2>1, <2>2
<1>8. QED BY <1>5, <1>6, <1>7

LEMMA StoreIs ==
  ASSUME NEW f \in Frames, Placed(slot)
  PROVE  /\ Placed(Buffer(f))
         /\ Stored(Buffer(f)) = (Stored(slot) \ {slot[SeqOf(f) % BufSize]}) \cup {f}
         /\ cnt = Cardinality(Stored(slot)) => BufferCnt(f) = Cardinality(Stored(Buffer(f)))
<1>1. f \in Int /\ f # NoFrame
  BY DEF Frames, NoFrame
<1>2. PICK p \in Slots : p = SeqOf(f) % BufSize
  BY <1>1, PlaceIn
<1>3. PICK g : g = slot[p]
  OBVIOUS
<1> DEFINE b == Buffer(f)
<1>4. b \in [Slots -> Frames \cup {NoFrame}] /\ \A i \in Slots : b[i] = IF i = p THEN f ELSE slot[i]
  BY <1>2 DEF Buffer, Placed
<1>5. Placed(b)
  BY <1>2, <1>4 DEF Placed
<1>6. \A i \in Slots : i # p /\ slot[i] # NoFrame => slot[i] # f /\ slot[i] # g
  BY <1>2, <1>3 DEF Placed
<1>7. Stored(b) = (Stored(slot) \ {g}) \cup {f}
  <2> HIDE DEF b
  <2>1. ASSUME NEW x \in Stored(b) PROVE x \in (Stored(slot) \ {g}) \cup {f}
    <3>1. PICK i \in Slots : b[i] = x /\ x # NoFrame
      BY <2>1 DEF Stored, InUse
    <3>2. QED BY <1>4, <1>6, <3>1 DEF Stored, InUse
  <2>2. ASSUME NEW x \in Stored(slot), x # g PROVE x \in Stored(b)
    <3>1. PICK i \in Slots : slot[i] = x /\ x # NoFrame
      BY <2>2 DEF Stored, InUse
    <3>2. i # p
      BY <1>3, <2>2, <3>1
    <3>3. QED BY <1>4, <3>1, <3>2 DEF Stored, InUse
  <2>3. f \in Stored(b)
    BY <1>1, <1>2, <1>4 DEF Stored, InUse
  <2>4. QED BY <2>1, <2>2, <2>3
<1>8. f \notin Stored(slot) \ {g}
  BY <1>3, <1>6 DEF Stored, InUse
<1>9. g \in Stored(slot) <=> g # NoFrame
  BY <1>3 DEF Stored, InUse
<1>10. ASSUME cnt = Cardinality(Stored(slot)) PROVE BufferCnt(f) = Cardinality(Stored(b))
  <2> DEFINE T == Stored(slot)
  <2> HIDE DEF b, T
  <2>1. IsFiniteSet(T) /\ Cardinality(T) \in Nat
    BY StoredIn DEF T
  <2>2. IsFiniteSet(T \ {g}) /\ Cardinality(T \ {g}) = IF g \in T THEN Cardinality(T) - 1 ELSE Cardinality(T)
    BY <2>1, FS_RemoveElement
  <2>3. Cardinality((T \ {g}) \cup {f}) = Cardinality(T \ {g}) + 1
    BY <1>8, <2>2, FS_AddElement DEF T
  <2>4. Cardinality(Stored(b)) = IF g = NoFrame THEN cnt + 1 ELSE cnt
    BY <1>7, <1>9, <1>10, <2>1, <2>2, <2>3 DEF T
  <2>5. QED BY <1>2, <1>3, <2>4 DEF BufferCnt
<1>11. QED BY <1>2, <1>3, <1>5, <1>7, <1>10

----------------------------------------------------------------------------
(* The bitmap: from head on, exactly the bits of the frames that were      *)
(* passed are set.                                                         *)

Bits(hd, bm, up, n, h) ==
  /\ h \in -BmpSize..n - BmpSize + 1 /\ hd = SeqOf(h)
  /\ bm \in SUBSET (0..BmpSize - 1) /\ up \in SUBSET Frames
  /\ \A f \in up : f < n /\ f < h + BmpSize
  /\ \A f \in h..h + BmpSize - 1 : SeqOf(f) % BmpSize \in bm <=> f \in up

LEMMA WithinIff ==
  ASSUME NEW h \in -BmpSize..MaxFrame + 2, NEW f \in 0..MaxFrame + 1
  PROVE  Within(SeqOf(h), SeqOf(f)) <=> h <= f /\ f < h + BmpSize
<1>1. h \in Int /\ f \in Int /\ f - h \in Int
  BY Sizes
<1>2. CASE h <= f
  <2>1. f - h < SeqMod
    BY <1>2, Sizes
  <2>2. Dist(SeqOf(h), SeqOf(f)) = f - h
    BY <1>1, <1>2, <2>1, SeqDistIs
  <2>3. QED BY <1>2, <2>2, Sizes DEF Within
<1>3. CASE f < h
  <2>1. PICK d \in Int : d = f - h + SeqMod
    BY Sizes
  <2>2. d \in 0..SeqMod - 1 /\ d >= BmpSize
    BY <1>3, <2>1, Sizes
  <2>3. f - h = (-1) * SeqMod + d
    BY <2>1, Sizes
  <2>4. (f - h) % SeqMod = d
    BY <1>1, <2>2, <2>3, Sizes, ModIs
  <2>5. Dist(SeqOf(h), SeqOf(f)) = d
    BY <1>1, <2>4, SeqDist
  <2>6. QED BY <1>3, <2>2, <2>5, Sizes DEF Within
<1>4. QED BY <1>1, <1>2, <1>3

\* the bits the bitmap moves over, and those it sets
Passed(bm, S, h, g) ==
  (bm \ {SeqOf(f) % BmpSize : f \in h..g - 1})
    \cup {SeqOf(f) % BmpSize : f \in {e \in S : g <= e /\ e < g + BmpSize}}

LEMMA BitsMove ==
  ASSUME NEW n \in 0..MaxFrame + 1, NEW m \in n..MaxFrame + 1, NEW h,
         NEW hd, NEW bm, NEW up, Bits(hd, bm, up, n, h),
         NEW S \in SUBSET Frames, \A f \in S : f < m
  PROVE  LET g == m - BmpSize + 1 IN Bits(SeqOf(g), Passed(bm, S, h, g), up \cup S, m, g)
<1> DEFINE g == m - BmpSize + 1
           bm2 == Passed(bm, S, h, g)
<1>1. /\ h \in -BmpSize..n - BmpSize + 1 /\ h \in Int /\ h <= g
      /\ g \in -BmpSize..m - BmpSize + 1 /\ g \in Int
      /\ m \in Int /\ n \in Int /\ n <= m
  BY Sizes DEF Bits
<1>2. bm \in SUBSET (0..BmpSize - 1) /\ up \in SUBSET Frames
  BY DEF Bits
<1>3. bm2 \in SUBSET (0..BmpSize - 1)
  <2>1. \A f \in Int : SeqOf(f) % BmpSize \in 0..BmpSize - 1
    BY SeqPlace
  <2>2. S \subseteq Int /\ h..g - 1 \subseteq Int
    BY DEF Frames
  <2> HIDE DEF g
  <2>3. QED BY <1>2, <2>1, <2>2 DEF Passed
<1>4. \A f \in up \cup S : f < m /\ f < g + BmpSize
  <2>1. ASSUME NEW f \in up PROVE f < m /\ f < g + BmpSize
    <3>1. f \in Int /\ f < n
      BY <1>2 DEF Bits, Frames
    <3>2. QED BY <1>1, <3>1, Sizes
  <2>2. ASSUME NEW f \in S PROVE f < m /\ f < g + BmpSize
    <3>1. f \in Int /\ f < m
      BY DEF Frames
    <3>2. QED BY <1>1, <3>1, Sizes
  <2>3. QED BY <2>1, <2>2
<1>5. ASSUME NEW f \in g..g + BmpSize - 1
      PROVE  SeqOf(f) % BmpSize \in bm2 <=> f \in up \cup S
  <2>1. f \in Int /\ g <= f /\ f < g + BmpSize /\ h <= f
    BY <1>1, <1>5, Sizes
  <2> HIDE DEF g
  <2> DEFINE left == {SeqOf(e) % BmpSize : e \in h..g - 1}
             set == {SeqOf(e) % BmpSize : e \in {d \in S : g <= d /\ d < g + BmpSize}}
  <2>2. SeqOf(f) % BmpSize \in set <=> f \in S
    <3>1. ASSUME f \in S PROVE SeqOf(f) % BmpSize \in set
      BY <2>1, <3>1
    <3>2. ASSUME NEW e \in S, g <= e, e < g + BmpSize, SeqOf(f) % BmpSize = SeqOf(e) % BmpSize
          PROVE  e = f
      <4>1. e \in Int
        BY DEF Frames
      <4>2. e - f < BmpSize /\ f - e < BmpSize
        BY <1>1, <2>1, <3>2, <4>1, Sizes
      <4>3. QED BY <2>1, <3>2, <4>1, <4>2, SeqPlace
    <3>3. QED BY <3>1, <3>2
  <2>3. CASE f < h + BmpSize
    <3>1. SeqOf(f) % BmpSize \in bm <=> f \in up
      <4>1. f \in h..h + BmpSize - 1
        BY <1>1, <2>1, <2>3, Sizes
      <4>2. QED BY <4>1 DEF Bits
    <3>2. SeqOf(f) % BmpSize \notin left
      <4> SUFFICES ASSUME NEW e \in h..g - 1, SeqOf(f) % BmpSize = SeqOf(e) % BmpSize PROVE FALSE
        OBVIOUS
      <4>1. e \in Int /\ e - f < BmpSize /\ f - e < BmpSize /\ e # f
        BY <1>1, <2>1, <2>3, Sizes
      <4>2. QED BY <2>1, <4>1, SeqPlace
    <3>3. QED BY <2>2, <3>1, <3>2 DEF Passed
  <2>4. CASE f >= h + BmpSize
    <3>1. f \notin up
      BY <1>1, <2>1, <2>4, Sizes DEF Bits
    <3>2. SeqOf(f) % BmpSize \in left
      <4>1. f - BmpSize \in h..g - 1 /\ f - BmpSize \in Int /\ (f - BmpSize) + BmpSize = f
        BY <1>1, <2>1, <2>4, Sizes
      <4>2. SeqOf(f - BmpSize) % BmpSize = SeqOf(f) % BmpSize
        BY <4>1, SeqPeriod
      <4>3. QED BY <4>1, <4>2
    <3>3. QED BY <2>2, <3>1, <3>2 DEF Passed
  <2>5. QED BY <1>1, <2>1, <2>3, <2>4, Sizes
<1>6. up \cup S \in SUBSET Frames
  BY <1>2
<1> HIDE DEF bm2, g
<1>7. Bits(SeqOf(g), bm2, up \cup S, m, g)
  BY <1>1, <1>3, <1>4, <1>5, <1>6 DEF Bits
<1>8. QED BY <1>7 DEF bm2, g

\* hmac_ba_update_rx_bitmap
LEMMA PassUpIs ==
  ASSUME NEW n \in 0..MaxFrame + 1, NEW m \in n..MaxFrame + 1, NEW h,
         Bits(head, bitmap, passed, n, h),
         NEW S \in SUBSET Frames, \A f \in S : f < m,
         PassUp(S, SeqOf(m))
  PROVE  /\ ToStack(S)
         /\ \E g : Bits(head', bitmap', passed', m, g)
<1>1. ToStack(S) /\ passed' = passed \cup S
  BY DEF PassUp, ToStack
<1>2. /\ h \in -BmpSize..n - BmpSize + 1 /\ h \in Int /\ head = SeqOf(h)
      /\ m \in Int /\ n \in Int /\ n <= m /\ m <= MaxFrame + 1
  BY Sizes DEF Bits
<1>3. CASE S = {}
  <2>1. head' = head /\ bitmap' = bitmap /\ passed' = passed
    BY <1>1, <1>3 DEF PassUp, bmpVars
  <2>2. passed \in SUBSET Frames /\ \A f \in passed : f < n
    BY DEF Bits
  <2>3. \A f \in passed : f < m
    BY <1>2, <2>2, Sizes DEF Frames
  <2>4. h \in -BmpSize..m - BmpSize + 1
    BY <1>2, Sizes
  <2>5. Bits(head, bitmap, passed, m, h)
    BY <2>3, <2>4 DEF Bits
  <2>6. QED BY <1>1, <2>1, <2>5
<1>4. CASE S # {}
  <2> DEFINE g == m - BmpSize + 1
             goal == Sub(SeqOf(m), BmpSize - 1)
             moved == IF Lt(head, goal) THEN goal ELSE head
  <2>1. g \in Int /\ h <= g /\ g - h < Half /\ h - g < Half /\ g - h < SeqMod
        /\ g \in -BmpSize..MaxFrame + 2
    BY <1>2, Sizes
  <2>2. goal = SeqOf(g)
    <3>1. BmpSize - 1 \in Int /\ m - (BmpSize - 1) = g
      BY <1>2, Sizes
    <3>2. QED BY <1>2, <3>1, SeqSub
  <2> HIDE DEF g, goal
  <2>3. moved = SeqOf(g)
    <3>1. Lt(head, goal) <=> h < g
      BY <1>2, <2>1, <2>2, SeqOrder
    <3>2. CASE h < g
      BY <2>2, <3>1, <3>2
    <3>3. CASE h = g
      BY <1>2, <2>1, <2>2, <3>1, <3>3
    <3>4. QED BY <1>2, <2>1, <3>2, <3>3
  <2> HIDE DEF moved
  <2>4. {Add(head, i) % BmpSize : i \in 0..Dist(head, moved) - 1} = {SeqOf(f) % BmpSize : f \in h..g - 1}
    <3>1. Dist(head, moved) = g - h
      BY <1>2, <2>1, <2>3, SeqDistIs
    <3>2. \A i \in 0..(g - h) - 1 : Add(head, i) = SeqOf(h + i) /\ h + i \in h..g - 1
      BY <1>2, <2>1, SeqAdd
    <3>3. \A f \in h..g - 1 : f - h \in 0..(g - h) - 1 /\ h + (f - h) = f
      BY <1>2, <2>1
    <3>4. QED BY <3>1, <3>2, <3>3
  <2>5. {f \in S : Within(moved, SeqOf(f))} = {e \in S : g <= e /\ e < g + BmpSize}
    <3>1. \A f \in S : f \in 0..MaxFrame + 1
      BY Sizes DEF Frames
    <3>2. QED BY <2>1, <2>3, <3>1, WithinIff
  <2>6. head' = moved /\ bitmap' = Passed(bitmap, S, h, g)
    BY <1>4, <2>4, <2>5 DEF PassUp, Passed, moved, goal
  <2>7. Bits(SeqOf(g), Passed(bitmap, S, h, g), passed \cup S, m, g)
    BY BitsMove DEF g
  <2>8. QED BY <1>1, <2>3, <2>6, <2>7
<1>5. QED BY <1>3, <1>4

----------------------------------------------------------------------------
(* The window moves on to frame m: what is before m of the frames S goes   *)
(* up, the rest is in the buffer.                                          *)

Advance(S, m) ==
  /\ start' = SeqOf(m) /\ end' = SeqOf(m + WinSize - 1)
  /\ Placed(slot') /\ Stored(slot') = {f \in S : f >= m}
  /\ cnt' = Cardinality(Stored(slot'))
  /\ ToStack({f \in S : f < m})
  /\ \E g : Bits(head', bitmap', passed', m, g)

\* taking the frames before m out of the buffer
LEMMA TakenOut ==
  ASSUME NEW sl, Placed(sl), NEW m \in Int
  PROVE  LET S == {f \in Stored(sl) : f < m} IN
         /\ Placed(Without(sl, S)) /\ Stored(Without(sl, S)) = {f \in Stored(sl) : f >= m}
         /\ Cardinality(Stored(Without(sl, S))) = Cardinality(Stored(sl)) - Cardinality(S)
         /\ Cardinality(S) \in Nat
<1> DEFINE T == Stored(sl)
           S == {f \in T : f < m}
           R == {f \in T : f >= m}
<1>1. T \subseteq Frames /\ IsFiniteSet(T) /\ Cardinality(T) \in Nat
  BY StoredIn
<1>2. T \subseteq Int
  BY <1>1 DEF Frames
<1> HIDE DEF T
<1>3. S \subseteq Frames /\ T \ S = R /\ S \cup R = T /\ S \cap R = {}
  <2>1. \A f \in T : ~(f < m) <=> f >= m
    BY <1>2
  <2>2. QED BY <1>1, <2>1
<1>4. Placed(Without(sl, S)) /\ Stored(Without(sl, S)) = R
  BY <1>3, WithoutIs DEF T
<1>5. IsFiniteSet(S) /\ IsFiniteSet(R)
  BY <1>1, FS_Subset
<1> HIDE DEF S, R
<1>6. Cardinality(S) \in Nat /\ Cardinality(R) \in Nat
  BY <1>5, FS_CardinalityType
<1>7. Cardinality(T) = Cardinality(S) + Cardinality(R)
  <2>1. Cardinality(S \cap R) = 0
    BY <1>3, FS_EmptySet
  <2>2. Cardinality(S \cup R) = Cardinality(S) + Cardinality(R) - Cardinality(S \cap R)
    BY <1>5, FS_Union
  <2>3. QED BY <1>3, <1>6, <2>1, <2>2
<1>8. Cardinality(Stored(Without(sl, S))) = Cardinality(T) - Cardinality(S)
  <2>1. Cardinality(R) = Cardinality(T) - Cardinality(S)
    BY <1>6, <1>7
  <2>2. QED BY <1>4, <2>1
<1>9. /\ Placed(Without(sl, S)) /\ Stored(Without(sl, S)) = R
      /\ Cardinality(Stored(Without(sl, S))) = Cardinality(T) - Cardinality(S)
      /\ Cardinality(S) \in Nat
  BY <1>4, <1>6, <1>8
<1>10. QED BY <1>9 DEF S, R, T

\* hmac_ba_send_frames_with_gap and hmac_ba_send_frames_in_order; when tail is the last of
\* them the buffer is empty, so that "sync loss" frees nothing
LEMMA SlideIs ==
  ASSUME NEW n \in 0..MaxFrame + 1, NEW h, Bits(head, bitmap, passed, n, h), start = SeqOf(n),
         NEW sl, Placed(sl), NEW c, c = Cardinality(Stored(sl)),
         NEW t \in Int, \A f \in Stored(sl) : n <= f /\ f <= t,
         NEW q \in n..MaxFrame + 1, NEW data \in BOOLEAN,
         SlideTo(sl, c, SeqOf(q), data), data => tail' = SeqOf(t) /\ t \in -1..MaxFrame
  PROVE  \E m \in q..MaxFrame + 1 : Advance(Stored(sl), m) /\ (m = q \/ m - 1 \in Stored(sl))
<1>1. q \in 0..MaxFrame + 1 /\ q \in Int /\ n \in Int
  OBVIOUS
<1>2. PICK k \in 0..BufSize :
        /\ RunLength(sl, SeqOf(q)) = k
        /\ q + k \in 0..MaxFrame + 1
        /\ \A i \in 0..k - 1 : q + i \in Stored(sl)
  BY <1>1, RunIs
<1>3. PICK m \in 0..MaxFrame + 1 : m = q + k
  BY <1>2
<1>4. m \in q..MaxFrame + 1 /\ m \in n..MaxFrame + 1 /\ m \in Int
  BY <1>1, <1>2, <1>3, Sizes
<1>5. m = q \/ m - 1 \in Stored(sl)
  <2>1. CASE k = 0
    BY <1>1, <1>3, <2>1
  <2>2. CASE k # 0
    <3>1. k - 1 \in 0..k - 1 /\ m - 1 = q + (k - 1)
      BY <1>1, <1>2, <1>3, <2>2, Sizes
    <3>2. QED BY <1>2, <3>1
  <2>3. QED BY <2>1, <2>2
<1>6. Add(SeqOf(q), RunLength(sl, SeqOf(q))) = SeqOf(m)
  BY <1>1, <1>2, <1>3, SeqAdd
<1> DEFINE S == GapFrames(sl, start, SeqOf(m))
<1>7. S = {f \in Stored(sl) : f < m}
  <2>1. S = {f \in Stored(sl) : n <= f /\ f < m}
    BY <1>4, GapIs
  <2>2. QED BY <2>1
<1>8. /\ Placed(Without(sl, S)) /\ Stored(Without(sl, S)) = {f \in Stored(sl) : f >= m}
      /\ Cardinality(Stored(Without(sl, S))) = c - Cardinality(S)
      /\ Cardinality(S) \in Nat /\ S \in SUBSET Frames /\ \A f \in S : f < m
  BY <1>4, <1>7, TakenOut, StoredIn
<1> HIDE DEF S
<1> DEFINE lost == data /\ tail' = Sub(SeqOf(m), 1) /\ c > Cardinality(S)
<1>9. ~lost
  <2> SUFFICES ASSUME lost PROVE FALSE
    OBVIOUS
  <2>1. SeqOf(t) = SeqOf(m - 1) /\ t \in -1..MaxFrame
    BY <1>4, SeqSub
  <2>2. t = m - 1
    <3>1. t \in Int /\ m - 1 \in Int /\ t - (m - 1) < SeqMod /\ (m - 1) - t < SeqMod
      BY <1>1, <1>3, <2>1, Sizes
    <3>2. QED BY <2>1, <3>1, SeqSame
  <2>3. S = Stored(sl)
    <3>1. \A f \in Stored(sl) : f \in Int /\ f <= t
      BY StoredIn DEF Frames
    <3>2. QED BY <1>4, <1>7, <2>2, <3>1
  <2>4. QED BY <1>8, <2>3
<1>10. /\ start' = SeqOf(m) /\ end' = Add(SeqOf(m), WinSize - 1)
       /\ slot' = Without(sl, S) /\ cnt' = c - Cardinality(S)
       /\ PassUp(S, SeqOf(m))
  <2>1. /\ start' = SeqOf(m) /\ end' = Add(SeqOf(m), WinSize - 1)
        /\ slot' = (IF lost THEN [i \in Slots |-> NoFrame] ELSE Without(sl, S))
        /\ cnt' = c - Cardinality(S) - (IF lost THEN Cardinality(InUse(Without(sl, S))) ELSE 0)
        /\ PassUp(S, SeqOf(m))
    BY <1>6 DEF SlideTo, S
  <2>2. c \in Nat
    BY StoredIn
  <2> HIDE DEF lost
  <2>3. slot' = Without(sl, S) /\ cnt' = c - Cardinality(S) - 0
    BY <1>9, <2>1
  <2>4. QED BY <1>8, <2>1, <2>2, <2>3
<1>11. ToStack(S) /\ \E g : Bits(head', bitmap', passed', m, g)
  BY <1>4, <1>8, <1>10, PassUpIs
<1>12. end' = SeqOf(m + WinSize - 1)
  <2>1. WinSize - 1 \in Int /\ m + (WinSize - 1) = m + WinSize - 1
    BY <1>4, Sizes
  <2>2. QED BY <1>4, <1>10, <2>1, SeqAdd
<1>13. Advance(Stored(sl), m)
  BY <1>7, <1>8, <1>10, <1>11, <1>12 DEF Advance
<1>14. QED BY <1>4, <1>5, <1>13

----------------------------------------------------------------------------
(* The inductive invariant: the window begins at frame n, the greatest     *)
(* number is that of frame t, and the bitmap begins at frame h.            *)

Window(n, t) ==
  /\ n \in 0..MaxFrame + 1 /\ t \in -1..MaxFrame
  /\ start = SeqOf(n) /\ end = SeqOf(n + WinSize - 1) /\ tail = SeqOf(t)
  /\ Placed(slot) /\ cnt = Cardinality(Stored(slot))
  /\ \A f \in Stored(slot) : n <= f /\ f < n + WinSize /\ f <= t
  /\ t < base + WinSize /\ n <= base + WinSize

Flags ==
  /\ triggered \in BOOLEAN /\ enabled \in BOOLEAN /\ armed \in BOOLEAN /\ stopBa \in BOOLEAN
  /\ events \in 0..MaxEvents
  /\ base \in 0..MaxFrame + 1
  /\ taken \in SUBSET Frames /\ odd \in BOOLEAN

IInv ==
  /\ Flags
  /\ \E n, t, h : Window(n, t) /\ Bits(head, bitmap, passed, n, h)

LEMMA WindowIff ==
  ASSUME NEW n, NEW t, Window(n, t), NEW f \in 0..MaxFrame + 1
  PROVE  /\ IsOld(f) <=> f < n
         /\ InWindow(SeqOf(f)) <=> n <= f /\ f < n + WinSize
         /\ BeyondWindow(SeqOf(f)) <=> f >= n + WinSize
         /\ SeqOf(f) = start <=> f = n
         /\ FrameOf(start) = n
<1>1. n \in 0..MaxFrame + 1 /\ start = SeqOf(n) /\ end = SeqOf(n + WinSize - 1)
  BY DEF Window
<1>2. PICK e \in Int : e = n + WinSize - 1
  BY <1>1, Sizes
<1>3. /\ n \in Int /\ f \in Int /\ f - n < Half /\ n - f < Half
      /\ f - e < Half /\ e - f < Half /\ f - n < SeqMod /\ n - f < SeqMod
  BY <1>1, <1>2, Sizes
<1>4. IsOld(f) <=> f < n
  BY <1>1, <1>3, SeqOrder DEF IsOld
<1>5. Leq(start, SeqOf(f)) <=> n <= f
  BY <1>1, <1>3, SeqOrder
<1>6. Leq(SeqOf(f), end) <=> f <= e
  BY <1>1, <1>2, <1>3, SeqOrder
<1>7. f <= e <=> f < n + WinSize
  BY <1>2, <1>3, Sizes
<1>8. ~(f <= e) <=> f >= n + WinSize
  BY <1>2, <1>3, Sizes
<1>9. SeqOf(f) = start <=> f = n
  BY <1>1, <1>3, SeqSame
<1>10. FrameOf(start) = n
  BY <1>1, FrameOfSeq
<1>11. QED BY <1>4, <1>5, <1>6, <1>7, <1>8, <1>9, <1>10 DEF InWindow, BeyondWindow

LEMMA NewTailIs ==
  ASSUME NEW n, NEW t, Window(n, t), NEW f \in Frames, NewTail(f)
  PROVE  \E u \in -1..MaxFrame : tail' = SeqOf(u) /\ (u = t \/ u = f) /\ t <= u /\ f <= u
<1>1. t \in Int /\ f \in Int /\ t - f < Half /\ f - t < Half /\ f \in -1..MaxFrame /\ t \in -1..MaxFrame
  BY Sizes DEF Window, Frames
<1>2. Lt(tail, SeqOf(f)) <=> t < f
  BY <1>1, SeqOrder DEF Window
<1>3. CASE t < f
  BY <1>1, <1>2, <1>3 DEF NewTail
<1>4. CASE ~(t < f)
  BY <1>1, <1>2, <1>4 DEF NewTail, Window
<1>5. QED BY <1>3, <1>4

\* the window after a step in which it moves on to m
LEMMA WindowMoves ==
  ASSUME NEW n, NEW t, Window(n, t), base \in Int, base' = base,
         NEW m \in 0..MaxFrame + 1, NEW u \in -1..MaxFrame, tail' = SeqOf(u),
         NEW S \in SUBSET Frames, \A f \in S : f < m + WinSize /\ f <= u,
         Advance(S, m), u < base + WinSize, m <= base + WinSize
  PROVE  Window(m, u)'
<1>1. \A f \in Stored(slot') : m <= f /\ f < m + WinSize /\ f <= u
  <2> SUFFICES ASSUME NEW f \in Stored(slot') PROVE m <= f /\ f < m + WinSize /\ f <= u
    OBVIOUS
  <2>1. Stored(slot') = {e \in S : e >= m}
    BY DEF Advance
  <2>2. f \in S /\ f >= m
    BY <2>1
  <2>3. f \in Int /\ f < m + WinSize /\ f <= u
    BY <2>2 DEF Frames
  <2>4. QED BY <2>2, <2>3
<1>2. QED BY <1>1 DEF Window, Advance, Stored, InUse, Placed

----------------------------------------------------------------------------
(* What each handler does to the window.                                   *)

\* a frame of the window or beyond it
Received(f, n) ==
  /\ n <= f
  /\ \E m \in n..MaxFrame + 1, u \in -1..MaxFrame :
       LET S == (Stored(slot) \ {slot[SeqOf(f) % BufSize]}) \cup {f} IN
       /\ tail' = SeqOf(u) /\ u < base + WinSize /\ m <= base + WinSize
       /\ \A e \in S : e < m + WinSize /\ e <= u
       /\ Advance(S, m)
  /\ taken' = taken \cup {f}
  /\ triggered' = (triggered /\ start' = start)

\* a frame from before the window
ReceivedLate(f, n) ==
  /\ f < n /\ (triggered \/ ~IsSet(SeqOf(f)))
  /\ ToStack({f}) /\ \E g : Bits(head', bitmap', passed', n, g)
  /\ taken' = taken \cup {f}
  /\ UNCHANGED winVars

\* the window moves on with what is in the buffer
Forced(n) ==
  /\ \E m \in n..MaxFrame + 1 : m <= base + WinSize /\ Advance(Stored(slot), m)
  /\ UNCHANGED <<tail, base, taken>>

\* the frame at the beginning of the window with an empty buffer
LEMMA DirectIs ==
  ASSUME NEW n, NEW t, NEW h, Window(n, t), Bits(head, bitmap, passed, n, h), Flags,
         NEW f \in Frames, f < base + WinSize, RxDirect(f)
  PROVE  Received(f, n)
<1>1. f \in 0..MaxFrame + 1 /\ f \in Int /\ n \in Int
  BY Sizes DEF Frames, Window
<1>2. f = n /\ cnt = 0 /\ start = SeqOf(n)
  BY <1>1, WindowIff DEF RxDirect, Window
<1>3. Placed(slot) /\ Stored(slot) = {}
  <2>1. Placed(slot) /\ Cardinality(Stored(slot)) = 0
    BY <1>2 DEF Window
  <2>2. QED BY <2>1, StoredIn, FS_EmptySet
<1>4. PICK m \in n..MaxFrame + 1 : m = n + 1
  BY <1>1, <1>2, Sizes DEF Frames
<1>5. Add(start, 1) = SeqOf(m) /\ Add(end, 1) = SeqOf(m + WinSize - 1)
  <2>1. PICK e \in Int : e = n + WinSize - 1
    BY <1>1, Sizes
  <2>2. Add(SeqOf(n), 1) = SeqOf(n + 1) /\ Add(SeqOf(e), 1) = SeqOf(e + 1)
    BY <1>1, <2>1, SeqAdd
  <2>3. e + 1 = m + WinSize - 1
    BY <1>1, <1>4, <2>1, Sizes
  <2>4. QED BY <1>2, <1>4, <2>1, <2>2, <2>3 DEF Window
<1>6. PICK u \in -1..MaxFrame : tail' = SeqOf(u) /\ (u = t \/ u = f) /\ t <= u /\ f <= u
  BY NewTailIs DEF RxDirect
<1>7. ToStack({f}) /\ \E g : Bits(head', bitmap', passed', m, g)
  <2>1. PassUp({f}, SeqOf(m))
    BY <1>5 DEF RxDirect
  <2>2. {f} \in SUBSET Frames /\ \A e \in {f} : e < m
    BY <1>1, <1>2, <1>4
  <2>3. n \in 0..MaxFrame + 1
    BY DEF Window
  <2>4. QED BY <2>1, <2>2, <2>3, PassUpIs
<1>8. Advance({f}, m)
  <2>1. {e \in {f} : e >= m} = {} /\ {e \in {f} : e < m} = {f}
    BY <1>1, <1>2, <1>4
  <2>2. start' = SeqOf(m) /\ end' = SeqOf(m + WinSize - 1) /\ slot' = slot /\ cnt' = cnt
    BY <1>5 DEF RxDirect
  <2>3. Placed(slot') /\ Stored(slot') = {} /\ cnt' = Cardinality(Stored(slot'))
    BY <1>2, <1>3, <2>2, FS_EmptySet
  <2>4. QED BY <1>7, <2>1, <2>2, <2>3 DEF Advance
<1>9. (Stored(slot) \ {slot[SeqOf(f) % BufSize]}) \cup {f} = {f}
  BY <1>3
<1>10. start' # start
  <2>1. start' = SeqOf(m) /\ m \in Int /\ n - m < SeqMod /\ m - n < SeqMod /\ m # n
    BY <1>1, <1>4, <1>8, Sizes DEF Advance
  <2>2. QED BY <1>1, <1>2, <2>1, SeqSame
<1>11. base \in Int /\ u < base + WinSize /\ m <= base + WinSize
  BY <1>1, <1>2, <1>4, <1>6, Sizes DEF Flags, Window
<1>12. \A e \in {f} : e < m + WinSize /\ e <= u
  BY <1>1, <1>2, <1>4, <1>6, Sizes
<1>13. taken' = taken \cup {f} /\ triggered' = (triggered /\ start' = start)
  BY <1>10 DEF RxDirect
<1>14. n <= f
  BY <1>1, <1>2
<1>15. QED BY <1>6, <1>8, <1>9, <1>11, <1>12, <1>13, <1>14 DEF Received

\* a frame that is buffered, in the window or beyond it, when the window then begins at
\* frame q or later
LEMMA BufferedIs ==
  ASSUME NEW n, NEW t, NEW h, Window(n, t), Bits(head, bitmap, passed, n, h), Flags,
         NEW f \in Frames, n <= f, f < base + WinSize,
         NEW q \in n..MaxFrame + 1, q <= base + WinSize, f < q + WinSize,
         NewTail(f), SlideTo(Buffer(f), BufferCnt(f), SeqOf(q), TRUE),
         taken' = taken \cup {f}, triggered' = (triggered /\ start' = start)
  PROVE  Received(f, n)
<1> DEFINE S == (Stored(slot) \ {slot[SeqOf(f) % BufSize]}) \cup {f}
<1>1. f \in Int /\ n \in Int /\ n \in 0..MaxFrame + 1 /\ q \in Int /\ base \in Int
  BY DEF Frames, Window, Flags
<1>2. Placed(slot) /\ start = SeqOf(n) /\ cnt = Cardinality(Stored(slot))
  BY DEF Window
<1>3. Placed(Buffer(f)) /\ Stored(Buffer(f)) = S /\ BufferCnt(f) = Cardinality(Stored(Buffer(f)))
  BY <1>2, StoreIs
<1>4. PICK u \in -1..MaxFrame : tail' = SeqOf(u) /\ (u = t \/ u = f) /\ t <= u /\ f <= u
  BY NewTailIs
<1>5. Stored(slot) \subseteq Frames /\ \A e \in Stored(slot) : n <= e /\ e < n + WinSize /\ e <= t
  BY <1>2, StoredIn DEF Window
<1>6. S \in SUBSET Frames
  BY <1>5
<1>7. \A e \in S : n <= e /\ e < q + WinSize /\ e <= u
  <2> SUFFICES ASSUME NEW e \in S PROVE n <= e /\ e < q + WinSize /\ e <= u
    OBVIOUS
  <2>1. CASE e = f
    BY <1>4, <2>1
  <2>2. CASE e # f
    <3>1. e \in Stored(slot)
      BY <2>2
    <3>2. e \in Int /\ n <= e /\ e < n + WinSize /\ e <= t
      BY <1>5, <3>1 DEF Frames
    <3>3. t \in Int
      BY DEF Window
    <3>4. QED BY <1>1, <1>4, <3>2, <3>3, Sizes
  <2>3. QED BY <2>1, <2>2
<1> HIDE DEF S
<1>8. PICK m \in q..MaxFrame + 1 : Advance(S, m) /\ (m = q \/ m - 1 \in S)
  <2>1. PICK sl : sl = Buffer(f)
    OBVIOUS
  <2>2. PICK c : c = BufferCnt(f)
    OBVIOUS
  <2>3. Placed(sl) /\ Stored(sl) = S /\ c = Cardinality(Stored(sl)) /\ SlideTo(sl, c, SeqOf(q), TRUE)
    BY <1>3, <2>1, <2>2
  <2>4. u \in Int /\ \A e \in Stored(sl) : n <= e /\ e <= u
    BY <1>7, <2>3
  <2>5. \E m \in q..MaxFrame + 1 : Advance(Stored(sl), m) /\ (m = q \/ m - 1 \in Stored(sl))
    BY <1>1, <1>2, <1>4, <2>3, <2>4, SlideIs
  <2>6. QED BY <2>3, <2>5
<1>9. m \in n..MaxFrame + 1
  BY <1>1
<1>10. u < base + WinSize
  BY <1>1, <1>4, Sizes DEF Window
<1>11. m <= base + WinSize
  <2>1. CASE m = q
    BY <2>1
  <2>2. CASE m - 1 \in S
    <3>1. m - 1 <= u /\ m \in Int
      BY <1>7, <2>2
    <3>2. QED BY <1>1, <1>10, <3>1, Sizes
  <2>3. QED BY <1>8, <2>1, <2>2
<1>12. \A e \in S : e < m + WinSize /\ e <= u
  <2> SUFFICES ASSUME NEW e \in S PROVE e < m + WinSize /\ e <= u
    OBVIOUS
  <2>1. e \in Int /\ e < q + WinSize /\ e <= u
    BY <1>6, <1>7 DEF Frames
  <2>2. m \in Int /\ q <= m
    BY <1>1
  <2>3. QED BY <1>1, <2>1, <2>2, Sizes
<1>13. QED BY <1>4, <1>8, <1>9, <1>10, <1>11, <1>12 DEF Received, S

LEMMA RxFrameIs ==
  ASSUME NEW n, NEW t, NEW h, Window(n, t), Bits(head, bitmap, passed, n, h), Flags,
         NEW f \in Frames, RxFrame(f)
  PROVE  /\ base - Delay <= f /\ f <= n + WinSize - 1 + MaxAhead
         /\ \/ UNCHANGED <<winVars, bmpVars, taken, upVars>>
            \/ ReceivedLate(f, n)
            \/ Received(f, n)
<1>1. f \in Int /\ n \in Int /\ n \in 0..MaxFrame + 1 /\ f \in 0..MaxFrame + 1 /\ base \in 0..MaxFrame + 1
      /\ start = SeqOf(n)
  BY Sizes DEF Frames, Window, Flags
<1>2. base - Delay <= f /\ f < base + WinSize
  <2>1. f \in base - Delay..base + WinSize - 1
    BY DEF RxFrame
  <2>2. QED BY <1>1, <2>1, Sizes
<1>3. f <= n + WinSize - 1 + MaxAhead
  BY WindowIff, <1>1 DEF RxFrame
<1>4. CASE RxDuplicate(f)
  BY <1>2, <1>3, <1>4 DEF RxDuplicate
<1>5. CASE RxLate(f)
  <2>1. f < n /\ (triggered \/ ~IsSet(SeqOf(f))) /\ PassUp({f}, start)
        /\ taken' = taken \cup {f} /\ UNCHANGED winVars
    BY <1>1, <1>5, WindowIff DEF RxLate
  <2>2. n \in n..MaxFrame + 1 /\ {f} \in SUBSET Frames /\ \A e \in {f} : e < n
    BY <1>1, <2>1
  <2>3. ToStack({f}) /\ \E g : Bits(head', bitmap', passed', n, g)
    BY <1>1, <2>1, <2>2, PassUpIs
  <2>4. ReceivedLate(f, n)
    BY <2>1, <2>3 DEF ReceivedLate
  <2>5. QED BY <1>2, <1>3, <2>4
<1>6. CASE RxDirect(f)
  BY <1>2, <1>3, <1>6, DirectIs
<1>7. CASE RxInWindow(f)
  <2>1. n <= f /\ f < n + WinSize
    BY <1>1, <1>7, WindowIff DEF RxInWindow
  <2>2. n \in n..MaxFrame + 1 /\ n <= base + WinSize
    BY <1>1 DEF Window
  <2>3. Received(f, n)
    BY <1>1, <1>2, <1>7, <2>1, <2>2, BufferedIs DEF RxInWindow
  <2>4. QED BY <1>2, <1>3, <2>3
<1>8. CASE RxBeyond(f)
  <2>1. f >= n + WinSize
    BY <1>1, <1>8, WindowIff DEF RxBeyond
  <2>2. PICK q \in Int : q = f - (WinSize - 1)
    BY <1>1, Sizes
  <2>3. q \in n..MaxFrame + 1 /\ q <= base + WinSize /\ f < q + WinSize /\ n <= f
    BY <1>1, <1>2, <2>1, <2>2, Sizes
  <2>4. Sub(SeqOf(f), WinSize - 1) = SeqOf(q)
    <3>1. WinSize - 1 \in Int
      BY Sizes
    <3>2. QED BY <1>1, <2>2, <3>1, SeqSub
  <2>5. Received(f, n)
    BY <1>2, <1>8, <2>3, <2>4, BufferedIs DEF RxBeyond
  <2>6. QED BY <1>2, <1>3, <2>5
<1>9. QED BY <1>2, <1>3, <1>4, <1>5, <1>6, <1>7, <1>8 DEF RxFrame

LEMMA RxBarIs ==
  ASSUME NEW n, NEW t, NEW h, Window(n, t), Bits(head, bitmap, passed, n, h), Flags,
         NEW f \in 0..MaxFrame + 1, RxBar(f)
  PROVE  Forced(n) /\ UNCHANGED <<timerVars, triggered>>
<1>1. f \in Int /\ n \in Int /\ n \in 0..MaxFrame + 1 /\ base \in 0..MaxFrame + 1 /\ t \in Int
      /\ start = SeqOf(n)
  BY Sizes DEF Window, Flags
<1>2. f <= base
  <2>1. f \in base - Delay..base
    BY DEF RxBar
  <2>2. QED BY <1>1, <2>1
<1>3. n <= f
  BY WindowIff DEF RxBar
<1>4. f \in n..MaxFrame + 1
  BY <1>1, <1>3
<1>5. Placed(slot) /\ cnt = Cardinality(Stored(slot)) /\ \A e \in Stored(slot) : n <= e /\ e <= t
  BY DEF Window
<1>6. SlideTo(slot, cnt, SeqOf(f), FALSE) /\ UNCHANGED <<tail, triggered, timerVars, base, taken>>
  BY DEF RxBar
<1>7. PICK m \in f..MaxFrame + 1 : Advance(Stored(slot), m) /\ (m = f \/ m - 1 \in Stored(slot))
  BY <1>1, <1>4, <1>5, <1>6, SlideIs
<1>8. m \in n..MaxFrame + 1 /\ m \in Int
  BY <1>1, <1>3
<1>9. m <= base + WinSize
  <2>1. CASE m = f
    BY <1>1, <1>2, <2>1, Sizes
  <2>2. CASE m - 1 \in Stored(slot)
    <3>1. m - 1 <= t /\ t < base + WinSize
      BY <1>5, <2>2 DEF Window
    <3>2. QED BY <1>1, <1>8, <3>1, Sizes
  <2>3. QED BY <1>7, <2>1, <2>2
<1>10. QED BY <1>6, <1>7, <1>8, <1>9 DEF Forced

LEMMA TimeoutIs ==
  ASSUME NEW n, NEW t, NEW h, Window(n, t), Bits(head, bitmap, passed, n, h), Flags,
         NEW i \in 0..BufSize - 1, TimeoutPasses(i), UNCHANGED <<base, taken>>
  PROVE  Forced(n) /\ triggered' = TRUE
<1>1. n \in Int /\ n \in 0..MaxFrame + 1 /\ base \in 0..MaxFrame + 1 /\ t \in Int /\ i \in Int
      /\ start = SeqOf(n) /\ Placed(slot) /\ cnt = Cardinality(Stored(slot))
  BY Sizes DEF Window, Flags
<1>2. n + i \in Stored(slot)
  <2>1. Has(slot, Add(start, i))
    BY DEF TimeoutPasses, Waiting
  <2>2. Add(start, i) = SeqOf(n + i) /\ n + i \in Reach
    BY <1>1, SeqAdd, Sizes DEF Reach
  <2>3. QED BY <1>1, <2>1, <2>2, HasIff
<1>3. n + i \in 0..MaxFrame /\ n + i <= t /\ t < base + WinSize
  BY <1>1, <1>2, StoredIn DEF Window, Frames
<1>4. PICK m \in n..MaxFrame + 1 : m = n + (i + 1)
  BY <1>1, <1>3, Sizes
<1>5. m \in 0..MaxFrame + 1 /\ m \in Int /\ n <= m /\ m <= base + WinSize
  BY <1>1, <1>3, <1>4, Sizes
<1>6. Add(start, i + 1) = SeqOf(m)
  BY <1>1, <1>4, SeqAdd
<1> DEFINE S == GapFrames(slot, start, SeqOf(m))
<1>7. S = {f \in Stored(slot) : f < m}
  <2>1. S = {f \in Stored(slot) : n <= f /\ f < m}
    BY <1>1, <1>5, GapIs
  <2>2. QED BY <2>1 DEF Window
<1>8. /\ Placed(Without(slot, S)) /\ Stored(Without(slot, S)) = {f \in Stored(slot) : f >= m}
      /\ Cardinality(Stored(Without(slot, S))) = cnt - Cardinality(S)
      /\ S \in SUBSET Frames /\ \A f \in S : f < m
  BY <1>1, <1>5, <1>7, TakenOut, StoredIn
<1>9. /\ start' = SeqOf(m) /\ end' = Add(SeqOf(m), WinSize - 1)
      /\ slot' = Without(slot, S) /\ cnt' = cnt - Cardinality(S)
      /\ triggered' = TRUE /\ tail' = tail /\ PassUp(S, SeqOf(m))
  BY <1>6 DEF TimeoutPasses
<1> HIDE DEF S
<1>10. ToStack(S) /\ \E g : Bits(head', bitmap', passed', m, g)
  BY <1>1, <1>5, <1>8, <1>9, PassUpIs
<1>11. end' = SeqOf(m + WinSize - 1)
  <2>1. WinSize - 1 \in Int /\ m + (WinSize - 1) = m + WinSize - 1
    BY <1>5, Sizes
  <2>2. QED BY <1>5, <1>9, <2>1, SeqAdd
<1>12. Advance(Stored(slot), m)
  BY <1>7, <1>8, <1>9, <1>10, <1>11 DEF Advance
<1>13. QED BY <1>5, <1>9, <1>12 DEF Forced

----------------------------------------------------------------------------
(* The invariant holds in every state.                                     *)

LEMMA InitIInv == Init => IInv
<1> SUFFICES ASSUME Init PROVE IInv
  OBVIOUS
<1>1. SeqOf(0) = FirstSeq
  BY Sizes DEF SeqOf
<1>2. /\ end = SeqOf(0 + WinSize - 1) /\ tail = SeqOf(-1) /\ head = SeqOf(-BmpSize)
  <2>1. WinSize - 1 \in Int /\ 0 + (WinSize - 1) = 0 + WinSize - 1 /\ BmpSize \in Int /\ 0 - BmpSize = -BmpSize
        /\ 0 \in Int /\ 1 \in Int /\ 0 - 1 = -1
    BY Sizes
  <2>2. Add(SeqOf(0), WinSize - 1) = SeqOf(0 + (WinSize - 1))
    BY <2>1, SeqAdd
  <2>3. Sub(SeqOf(0), 1) = SeqOf(0 - 1) /\ Sub(SeqOf(0), BmpSize) = SeqOf(0 - BmpSize)
    BY <2>1, SeqSub
  <2>4. QED BY <1>1, <2>1, <2>2, <2>3 DEF Init
<1>3. Placed(slot) /\ Stored(slot) = {}
  BY DEF Init, Placed, Stored, InUse
<1>4. cnt = Cardinality(Stored(slot))
  BY <1>3, FS_EmptySet DEF Init
<1>5. Window(0, -1)
  <2>1. 0 \in 0..MaxFrame + 1 /\ -1 \in -1..MaxFrame /\ -1 < base + WinSize /\ 0 <= base + WinSize
    BY Sizes DEF Init
  <2>2. start = SeqOf(0)
    BY <1>1 DEF Init
  <2>3. QED BY <1>2, <1>3, <1>4, <2>1, <2>2 DEF Window
<1>6. Bits(head, bitmap, passed, 0, -BmpSize)
  <2>1. -BmpSize \in -BmpSize..0 - BmpSize + 1
    BY Sizes
  <2>2. bitmap = {} /\ passed = {}
    BY DEF Init
  <2>3. QED BY <1>2, <2>1, <2>2 DEF Bits
<1>7. Flags
  <2>1. 0 \in 0..MaxFrame + 1 /\ 0 \in 0..MaxEvents
    BY Sizes, EventsAssumption
  <2>2. QED BY <2>1 DEF Init, Flags
<1>8. QED BY <1>5, <1>6, <1>7 DEF IInv

LEMMA Later ==
  \A x, a, b, w \in Int : a <= b => (x < a + w => x < b + w) /\ (x <= a + w => x <= b + w)
OBVIOUS

LEMMA WindowStays ==
  ASSUME NEW n, NEW t, Window(n, t), base \in Int, base' \in Int, base <= base', UNCHANGED winVars
  PROVE  Window(n, t)'
<1>1. n \in Int /\ t \in Int /\ t < base + WinSize /\ n <= base + WinSize
  BY Sizes DEF Window
<1>2. t < base' + WinSize /\ n <= base' + WinSize
  <2>1. WinSize \in Int
    BY Sizes
  <2>2. QED BY <1>1, <2>1, Later
<1>3. UNCHANGED <<start, end, tail, slot, cnt, triggered>>
  BY DEF winVars
<1>4. QED BY <1>2, <1>3 DEF Window, Placed, Stored, InUse

LEMMA OddStays == ASSUME NEW S, ToStack(S) PROVE odd' \in BOOLEAN
BY Zenon DEF ToStack

LEMMA ReceivedKeeps ==
  ASSUME NEW n, NEW t, NEW h, Window(n, t), Bits(head, bitmap, passed, n, h), Flags,
         NEW f \in Frames, Received(f, n), UNCHANGED <<timerVars, base>>
  PROVE  IInv'
<1> DEFINE S == (Stored(slot) \ {slot[SeqOf(f) % BufSize]}) \cup {f}
<1>1. PICK m \in n..MaxFrame + 1, u \in -1..MaxFrame :
        /\ tail' = SeqOf(u) /\ u < base + WinSize /\ m <= base + WinSize
        /\ \A e \in S : e < m + WinSize /\ e <= u
        /\ Advance(S, m)
  BY DEF Received
<1>2. S \in SUBSET Frames
  BY StoredIn DEF Window
<1>3. m \in 0..MaxFrame + 1
  BY DEF Window
<1>4. base \in Int /\ base' = base
  BY DEF Flags
<1> HIDE DEF S
<1>5. Window(m, u)'
  BY <1>1, <1>2, <1>3, <1>4, WindowMoves
<1>6. PICK g : Bits(head', bitmap', passed', m, g)
  BY <1>1 DEF Advance
<1>7. odd' \in BOOLEAN
  BY <1>1, OddStays DEF Advance
<1>8. Flags'
  BY <1>7 DEF Flags, Received, timerVars
<1>9. QED BY <1>5, <1>6, <1>8 DEF IInv

LEMMA ForcedKeeps ==
  ASSUME NEW n, NEW t, NEW h, Window(n, t), Bits(head, bitmap, passed, n, h), Flags,
         Forced(n), triggered' \in BOOLEAN, enabled' \in BOOLEAN, armed' \in BOOLEAN,
         stopBa' \in BOOLEAN, events' \in 0..MaxEvents
  PROVE  IInv'
<1>1. PICK m \in n..MaxFrame + 1 : m <= base + WinSize /\ Advance(Stored(slot), m)
  BY DEF Forced
<1>2. Stored(slot) \in SUBSET Frames
  BY StoredIn DEF Window
<1>3. m \in 0..MaxFrame + 1 /\ m \in Int /\ n \in Int /\ n <= m
  BY DEF Window
<1>4. base \in Int /\ base' = base /\ taken' = taken /\ tail' = tail
  BY DEF Flags, Forced
<1>5. \A e \in Stored(slot) : e < m + WinSize /\ e <= t
  <2> SUFFICES ASSUME NEW e \in Stored(slot) PROVE e < m + WinSize /\ e <= t
    OBVIOUS
  <2>1. e \in Int /\ e < n + WinSize /\ e <= t
    BY <1>2 DEF Window, Frames
  <2>2. QED BY <1>3, <2>1, Sizes
<1>6. t \in -1..MaxFrame /\ tail' = SeqOf(t) /\ t < base + WinSize
  BY <1>4 DEF Window
<1>7. Window(m, t)'
  BY <1>1, <1>2, <1>3, <1>4, <1>5, <1>6, WindowMoves
<1>8. PICK g : Bits(head', bitmap', passed', m, g)
  BY <1>1 DEF Advance
<1>9. odd' \in BOOLEAN
  BY <1>1, OddStays DEF Advance
<1>10. Flags'
  BY <1>4, <1>9 DEF Flags
<1>11. QED BY <1>7, <1>8, <1>10 DEF IInv

LEMMA StaysKeeps ==
  ASSUME IInv, UNCHANGED <<winVars, bmpVars, upVars, taken>>, enabled' \in BOOLEAN,
         armed' \in BOOLEAN, stopBa' \in BOOLEAN, events' \in 0..MaxEvents,
         base' \in 0..MaxFrame + 1, base <= base'
  PROVE  IInv'
<1>1. PICK n, t, h : Window(n, t) /\ Bits(head, bitmap, passed, n, h)
  BY DEF IInv
<1>2. Flags /\ base \in Int /\ base' \in Int
  BY DEF IInv, Flags
<1>3. Window(n, t)'
  BY <1>1, <1>2, WindowStays
<1>4. Bits(head', bitmap', passed', n, h)
  BY <1>1 DEF bmpVars, upVars
<1>5. Flags'
  BY <1>2 DEF Flags, winVars, upVars
<1>6. QED BY <1>3, <1>4, <1>5 DEF IInv

LEMMA StepIInv == IInv /\ [Next]_vars => IInv'
<1> SUFFICES ASSUME IInv, [Next]_vars PROVE IInv'
  OBVIOUS
<1> PICK n, t, h : Window(n, t) /\ Bits(head, bitmap, passed, n, h)
  BY DEF IInv
<1>1. Flags
  BY DEF IInv
<1>2. CASE UNCHANGED vars
  BY <1>1, <1>2, StaysKeeps DEF vars, timerVars, Flags
<1>3. ASSUME NEW f \in Frames, RxFrame(f) PROVE IInv'
  <2>1. UNCHANGED <<timerVars, base>>
    BY <1>3 DEF RxFrame
  <2>2. CASE UNCHANGED <<winVars, bmpVars, taken, upVars>>
    BY <1>1, <2>1, <2>2, StaysKeeps DEF timerVars, Flags
  <2>3. CASE ReceivedLate(f, n)
    <3>1. Window(n, t)'
      BY <1>1, <2>1, <2>3, WindowStays DEF ReceivedLate, Flags
    <3>2. PICK g : Bits(head', bitmap', passed', n, g)
      BY <2>3 DEF ReceivedLate
    <3>3. odd' \in BOOLEAN
      BY <2>3, OddStays DEF ReceivedLate
    <3>4. Flags'
      BY <1>1, <2>1, <2>3, <3>3 DEF Flags, ReceivedLate, timerVars, winVars
    <3>5. QED BY <3>1, <3>2, <3>4 DEF IInv
  <2>4. CASE Received(f, n)
    BY <1>1, <2>1, <2>4, ReceivedKeeps
  <2>5. QED BY <1>1, <1>3, <2>2, <2>3, <2>4, RxFrameIs
<1>4. ASSUME NEW f \in 0..MaxFrame + 1, RxBar(f) PROVE IInv'
  BY <1>1, <1>4, RxBarIs, ForcedKeeps DEF timerVars, Flags
<1>5. CASE TimerExpires
  <2>1. UNCHANGED <<winVars, bmpVars, upVars, taken>> /\ base' = base /\ base <= base'
    BY <1>1, <1>5 DEF TimerExpires, Flags
  <2>2. events' \in 0..MaxEvents
    BY <1>1, <1>5, EventsAssumption DEF TimerExpires, Flags
  <2>3. enabled' \in BOOLEAN /\ armed' \in BOOLEAN /\ stopBa' \in BOOLEAN /\ base' \in 0..MaxFrame + 1
    BY <1>1, <1>5 DEF TimerExpires, Flags
  <2>4. QED BY <2>1, <2>2, <2>3, StaysKeeps
<1>6. CASE TimerHandled
  <2>1. events' \in 0..MaxEvents /\ UNCHANGED <<stopBa, base, taken>>
    BY <1>1, <1>6, EventsAssumption DEF TimerHandled, Flags
  <2>2. enabled' \in BOOLEAN /\ armed' \in BOOLEAN
    BY <1>1, <1>6 DEF TimerHandled, Restart, Flags
  <2>3. CASE UNCHANGED <<winVars, bmpVars, upVars>>
    BY <1>1, <2>1, <2>2, <2>3, StaysKeeps DEF Flags
  <2>4. ASSUME NEW i \in 0..BufSize - 1, TimeoutPasses(i) PROVE IInv'
    <3>1. Forced(n) /\ triggered' = TRUE
      BY <1>1, <2>1, <2>4, TimeoutIs
    <3>2. QED BY <1>1, <2>1, <2>2, <3>1, ForcedKeeps DEF Flags
  <2>5. QED BY <1>6, <2>3, <2>4 DEF TimerHandled, TimeoutWaits
<1>7. CASE DeepSleep
  <2>1. UNCHANGED <<winVars, bmpVars, upVars, taken>> /\ base' = base /\ base <= base'
    BY <1>1, <1>7 DEF DeepSleep, Flags
  <2>2. /\ enabled' \in BOOLEAN /\ armed' \in BOOLEAN /\ stopBa' \in BOOLEAN
        /\ base' \in 0..MaxFrame + 1 /\ events' \in 0..MaxEvents
    BY <1>1, <1>7 DEF DeepSleep, Flags
  <2>3. QED BY <2>1, <2>2, StaysKeeps
<1>8. CASE Work
  <2>1. stopBa' = FALSE /\ enabled' = TRUE /\ armed' = TRUE /\ UNCHANGED <<events, base, taken>>
    BY <1>8 DEF Work
  <2>2. CASE TimeoutWaits
    <3>1. UNCHANGED <<winVars, bmpVars, upVars, taken>> /\ base' = base /\ base <= base'
      BY <1>1, <2>1, <2>2 DEF TimeoutWaits, Flags
    <3>2. /\ enabled' \in BOOLEAN /\ armed' \in BOOLEAN /\ stopBa' \in BOOLEAN
          /\ base' \in 0..MaxFrame + 1 /\ events' \in 0..MaxEvents
      BY <1>1, <2>1 DEF Flags
    <3>3. QED BY <3>1, <3>2, StaysKeeps
  <2>3. ASSUME NEW i \in 0..BufSize - 1, TimeoutPasses(i) PROVE IInv'
    <3>1. Forced(n) /\ triggered' = TRUE
      BY <1>1, <2>1, <2>3, TimeoutIs
    <3>2. QED BY <1>1, <2>1, <3>1, ForcedKeeps DEF Flags
  <2>4. QED BY <1>8, <2>2, <2>3 DEF Work
<1>9. CASE PeerMovesOn
  <2>1. base' \in 0..MaxFrame + 1 /\ base <= base'
    BY <1>1, <1>9, Sizes DEF PeerMovesOn, Flags
  <2>2. QED BY <1>1, <1>9, <2>1, StaysKeeps DEF PeerMovesOn, timerVars, Flags
<1>10. QED BY <1>2, <1>3, <1>4, <1>5, <1>6, <1>7, <1>8, <1>9 DEF Next

LEMMA AlwaysIInv == Spec => []IInv
BY InitIInv, StepIInv, PTL DEF Spec

----------------------------------------------------------------------------
(* Types, buffer and bitmap                                                *)

LEMMA IInvTypeOK == IInv => TypeOK
<1> SUFFICES ASSUME IInv PROVE TypeOK
  OBVIOUS
<1> PICK n, t, h : Window(n, t) /\ Bits(head, bitmap, passed, n, h)
  BY DEF IInv
<1>1. Flags
  BY DEF IInv
<1>2. start \in Seqs /\ end \in Seqs /\ tail \in Seqs /\ head \in Seqs
  <2>1. n \in Int /\ n + WinSize - 1 \in Int /\ t \in Int
    BY Sizes DEF Window
  <2>2. h \in Int
    BY DEF Bits
  <2>3. QED BY <2>1, <2>2, SeqIn DEF Window, Bits
<1>3. slot \in [Slots -> Frames \cup {NoFrame}]
  BY DEF Window, Placed
<1>4. cnt \in 0..BufSize
  <2>1. n \in Int /\ n + WinSize - 1 \in Int
    BY Sizes DEF Window
  <2> DEFINE I == n..n + WinSize - 1
  <2>2. IsFiniteSet(I) /\ Cardinality(I) = WinSize
    <3>1. (IF n > n + WinSize - 1 THEN 0 ELSE (n + WinSize - 1) - n + 1) = WinSize
      BY <2>1, Sizes
    <3>2. QED BY <2>1, <3>1, FS_Interval
  <2>3. Stored(slot) \in SUBSET I
    <3> SUFFICES ASSUME NEW f \in Stored(slot) PROVE f \in I
      OBVIOUS
    <3>1. f \in Int /\ n <= f /\ f < n + WinSize
      BY StoredIn DEF Window, Frames
    <3>2. QED BY <2>1, <3>1, Sizes
  <2> HIDE DEF I
  <2>4. Cardinality(Stored(slot)) <= WinSize /\ Cardinality(Stored(slot)) \in Nat
    BY <2>2, <2>3, FS_Subset, StoredIn DEF Window
  <2>5. cnt \in Nat /\ cnt <= WinSize
    BY <2>4 DEF Window
  <2>6. QED BY <2>5, Sizes
<1>5. bitmap \in SUBSET (0..BmpSize - 1) /\ passed \in SUBSET Frames
  BY DEF Bits
<1>6. QED BY <1>1, <1>2, <1>3, <1>4, <1>5 DEF TypeOK, Flags

\* the window, the slots, the bitmap and the timer of a session have the types that
\* hmac_mgmt_rx_addba_req_init gave them
THEOREM RxTypeCorrect == Spec => []TypeOK
BY AlwaysIInv, IInvTypeOK, PTL

LEMMA IInvBufferSound == IInv => BufferSound
<1> SUFFICES ASSUME IInv PROVE BufferSound
  OBVIOUS
<1> PICK n, t, h : Window(n, t) /\ Bits(head, bitmap, passed, n, h)
  BY DEF IInv
<1>1. n \in Int /\ t \in Int
  BY DEF Window
<1>2. end = Add(start, WinSize - 1)
  <2>1. WinSize - 1 \in Int /\ n + (WinSize - 1) = n + WinSize - 1
    BY <1>1, Sizes
  <2>2. QED BY <1>1, <2>1, SeqAdd DEF Window
<1>3. cnt = Cardinality(Held)
  BY DEF Window, Held, Stored
<1>4. ASSUME NEW i \in Slots, slot[i] # NoFrame
      PROVE  SeqOf(slot[i]) % BufSize = i /\ InWindow(SeqOf(slot[i])) /\ Leq(SeqOf(slot[i]), tail)
  <2>1. PICK f : f = slot[i]
    OBVIOUS
  <2>2. f \in Stored(slot) /\ SeqOf(f) % BufSize = i
    BY <1>4, <2>1 DEF Stored, InUse, Window, Placed
  <2>3. n <= f /\ f < n + WinSize /\ f <= t /\ f \in Frames
    BY <2>2, StoredIn DEF Window
  <2>4. f \in 0..MaxFrame + 1 /\ f \in Int /\ f - t < Half /\ t - f < Half
    BY <1>1, <2>3, Sizes DEF Frames, Window
  <2>5. InWindow(SeqOf(f))
    BY <2>3, <2>4, WindowIff
  <2>6. Leq(SeqOf(f), tail)
    BY <1>1, <2>3, <2>4, SeqOrder DEF Window
  <2>7. QED BY <2>1, <2>2, <2>5, <2>6
<1>5. QED BY <1>2, <1>3, <1>4 DEF BufferSound

\* mpdu_cnt counts what is in the slots, and every frame in a slot is within the window, at
\* most us_baw_tail and where hmac_ba_send_frames_in_order and the time-out look for it
THEOREM BufferAlwaysSound == Spec => []BufferSound
BY AlwaysIInv, IInvBufferSound, PTL

LEMMA IInvBitmapTrue == IInv => BitmapTrue
<1> SUFFICES ASSUME IInv, NEW f \in Frames, IsSet(SeqOf(f)) PROVE f \in passed
  BY DEF BitmapTrue
<1> PICK n, t, h : Window(n, t) /\ Bits(head, bitmap, passed, n, h)
  BY DEF IInv
<1>1. n \in 0..MaxFrame + 1 /\ h \in -BmpSize..n - BmpSize + 1 /\ head = SeqOf(h)
  BY DEF Window, Bits
<1>2. h \in -BmpSize..MaxFrame + 2 /\ f \in 0..MaxFrame + 1 /\ f \in Int /\ h \in Int
  BY <1>1, Sizes DEF Frames
<1>3. h <= f /\ f < h + BmpSize /\ SeqOf(f) % BmpSize \in bitmap
  BY <1>1, <1>2, WithinIff DEF IsSet
<1>4. f \in h..h + BmpSize - 1
  BY <1>2, <1>3, Sizes
<1>5. QED BY <1>3, <1>4 DEF Bits

\* hmac_ba_isset finds a bit set only for a frame that was passed up, although
\* the bits of numbers BmpSize apart are the same
THEOREM BitmapAlwaysTrue == Spec => []BitmapTrue
BY AlwaysIInv, IInvBitmapTrue, PTL

----------------------------------------------------------------------------
(* No frame is forgotten in the buffer: what HeldEnds needs besides        *)
(* fairness.                                                               *)

\* the frame at an offset of the window
FrameAt(i) == slot[Add(start, i) % BufSize]

HeldAreSeen == \A f \in Held : \E i \in Waiting : i \in 0..BufSize - 1 /\ FrameAt(i) = f

LEMMA IInvHeldAreSeen == IInv => HeldAreSeen
<1> SUFFICES ASSUME IInv, NEW f \in Held
             PROVE  \E i \in Waiting : i \in 0..BufSize - 1 /\ FrameAt(i) = f
  BY DEF HeldAreSeen
<1> PICK n, t, h : Window(n, t) /\ Bits(head, bitmap, passed, n, h)
  BY DEF IInv
<1>1. f \in Stored(slot) /\ Placed(slot) /\ start = SeqOf(n) /\ tail = SeqOf(t)
  BY DEF Held, Stored, Window
<1>2. n \in Int /\ t \in Int /\ f \in Int /\ f \in 0..MaxFrame /\ n \in 0..MaxFrame + 1 /\ t \in -1..MaxFrame
      /\ n <= f /\ f < n + WinSize /\ f <= t
  BY <1>1, StoredIn DEF Window, Frames
<1>3. PICK i \in Nat : i = f - n /\ i < WinSize
  BY <1>2, Sizes
<1>4. i \in 0..BufSize - 1 /\ n + i = f
  BY <1>2, <1>3, Sizes
<1>5. Add(start, i) = SeqOf(f)
  <2>1. i \in Int
    BY <1>3
  <2>2. Add(SeqOf(n), i) = SeqOf(n + i)
    BY <1>2, <2>1, SeqAdd
  <2>3. QED BY <1>1, <1>4, <2>2
<1>6. Has(slot, SeqOf(f)) /\ slot[SeqOf(f) % BufSize] = f
  <2>1. f \in Reach
    BY <1>2, Sizes DEF Reach
  <2>2. QED BY <1>1, <2>1, HasIff
<1>7. cnt # 0
  <2>1. cnt = Cardinality(Stored(slot)) /\ IsFiniteSet(Stored(slot))
    BY <1>1, StoredIn DEF Window
  <2>2. QED BY <1>1, <2>1, FS_EmptySet
<1>8. Dist(start, Add(tail, 1)) = t + 1 - n
  <2>1. Add(tail, 1) = SeqOf(t + 1)
    BY <1>1, <1>2, SeqAdd
  <2>2. t + 1 \in Int /\ n <= t + 1 /\ (t + 1) - n < SeqMod
    BY <1>2, Sizes
  <2>3. QED BY <1>1, <1>2, <2>1, <2>2, SeqDistIs
<1>9. i \in 0..(t + 1 - n) - 1
  BY <1>2, <1>3
<1>10. i \in Waiting
  BY <1>5, <1>6, <1>7, <1>8, <1>9 DEF Waiting
<1>11. QED BY <1>4, <1>5, <1>6, <1>10 DEF FrameAt

\* Every frame in the buffer is one the time-out looks at, at its place in the window: the search
\* of hmac_ba_send_reorder_timeout from us_baw_start to us_baw_tail misses none, though both
\* numbers wrap and the buffer is addressed modulo its size.
THEOREM HeldFramesAreSeen == Spec => []HeldAreSeen
BY AlwaysIInv, IInvHeldAreSeen, PTL

\* the time-out for one frame, old enough, passes that frame up
TimeoutDelivers ==
  \A i \in 0..BufSize - 1 : TimeoutPasses(i) => FrameAt(i) \in passed' \ Held' /\ start' # start

\* Whenever the time-out finds a frame old enough, that frame goes up in the same step and is no
\* longer held, and the window moves on (hmac_ba_send_reorder_timeout).
THEOREM TimeoutAlwaysDelivers == Spec => [][TimeoutDelivers]_vars
<1>1. IInv /\ [Next]_vars => [TimeoutDelivers]_vars
  <2> SUFFICES ASSUME IInv, NEW i \in 0..BufSize - 1, TimeoutPasses(i)
               PROVE  FrameAt(i) \in passed' \ Held' /\ start' # start
    BY DEF TimeoutDelivers
  <2> PICK n, t, h : Window(n, t) /\ Bits(head, bitmap, passed, n, h)
    BY DEF IInv
  <2>1. n \in Int /\ n \in 0..MaxFrame + 1 /\ start = SeqOf(n) /\ Placed(slot) /\ i \in Int /\ i + 1 \in Int
    BY Sizes DEF Window
  <2> DEFINE S == GapFrames(slot, start, Add(start, i + 1))
  <2>2. /\ start' = Add(start, i + 1) /\ slot' = Without(slot, S)
        /\ PassUp(S, Add(start, i + 1)) /\ Has(slot, Add(start, i))
    BY DEF TimeoutPasses, Waiting
  <2>3. Dist(start, Add(start, i + 1)) = i + 1
    <3>1. Add(start, i + 1) = SeqOf(n + (i + 1))
      BY <2>1, SeqAdd
    <3>2. n + (i + 1) \in Int /\ n <= n + (i + 1) /\ (n + (i + 1)) - n < SeqMod /\ (n + (i + 1)) - n = i + 1
      BY <2>1, Sizes
    <3>3. QED BY <2>1, <3>1, <3>2, SeqDistIs
  <2>4. FrameAt(i) \in S
    <3>1. i \in 0..(i + 1) - 1
      OBVIOUS
    <3>2. QED BY <2>2, <2>3, <3>1 DEF FrameAt, GapFrames
  <2> HIDE DEF S
  <2>5. FrameAt(i) # NoFrame
    BY <2>2 DEF Has, FrameAt
  <2>6. FrameAt(i) \in passed'
    BY <2>2, <2>4 DEF PassUp, ToStack
  <2>7. FrameAt(i) \notin Held'
    <3>1. \A j \in Slots : slot'[j] # NoFrame => slot'[j] \notin S
      BY <2>2 DEF Without
    <3>2. QED BY <2>4, <3>1 DEF Held, InUse
  <2>8. start' # start
    <3>1. Dist(start, start) = 0
      <4>1. n <= n /\ n - n = 0 /\ n - n < SeqMod
        BY <2>1, Sizes
      <4>2. QED BY <2>1, <4>1, SeqDistIs
    <3>2. i + 1 # 0
      OBVIOUS
    <3>3. QED BY <2>2, <2>3, <3>1, <3>2
  <2>9. QED BY <2>6, <2>7, <2>8
<1>2. QED BY <1>1, AlwaysIInv, PTL DEF Spec

\* unless the device is in deep sleep
TimeoutComes == ~stopBa => enabled /\ (armed \/ events > 0)

\* Unless the device is in deep sleep the reorder timer is enabled and pending, or its event is in
\* the queue: no order of hmac_ba_timeout_fn, of an expiry that comes while the timer is stopped,
\* and of hmac_proc_dev_sleep_req leaves a session without its time-out.
THEOREM TimeoutAlwaysComes == Spec => []TimeoutComes
<1> DEFINE Inv == (enabled <=> ~stopBa) /\ TimeoutComes
<1>1. Init => Inv
  BY DEF Init, TimeoutComes
<1>2. TypeOK /\ Inv /\ [Next]_vars => Inv'
  <2> SUFFICES ASSUME TypeOK, Inv, [Next]_vars PROVE Inv'
    OBVIOUS
  <2> USE DEF TimeoutComes
  <2>1. ASSUME UNCHANGED timerVars PROVE Inv'
    BY <2>1 DEF timerVars
  <2>2. ASSUME NEW f \in Frames, RxFrame(f) PROVE Inv'
    BY <2>1, <2>2 DEF RxFrame
  <2>3. ASSUME NEW f \in 0..MaxFrame + 1, RxBar(f) PROVE Inv'
    BY <2>1, <2>3 DEF RxBar
  <2>4. CASE TimerExpires
    <3>1. events' > 0
      BY <2>4 DEF TimerExpires, TypeOK
    <3>2. QED BY <2>4, <3>1 DEF TimerExpires
  <2>5. CASE TimerHandled
    <3>1. CASE enabled
      BY <2>5, <3>1 DEF TimerHandled, Restart
    <3>2. CASE ~enabled
      BY <2>5, <3>2 DEF TimerHandled
    <3>3. QED BY <3>1, <3>2
  <2>6. CASE DeepSleep
    BY <2>6 DEF DeepSleep
  <2>7. CASE Work
    BY <2>7 DEF Work
  <2>8. CASE PeerMovesOn
    BY <2>1, <2>8 DEF PeerMovesOn
  <2>9. CASE UNCHANGED vars
    BY <2>1, <2>9 DEF vars
  <2>10. QED BY <2>2, <2>3, <2>4, <2>5, <2>6, <2>7, <2>8, <2>9 DEF Next
<1>3. Inv => TimeoutComes
  OBVIOUS
<1>4. QED BY <1>1, <1>2, <1>3, RxTypeCorrect, PTL DEF Spec

----------------------------------------------------------------------------
(* No frame the host took is lost, and every step is one of RxReorderAbs,  *)
(* when a frame beyond the window never meets the slot of another: a frame *)
(* further away than the buffer is long would free one that was taken (the *)
(* run RxReorder_overwrite).                                               *)

NoOverwrite == WinSize + MaxAhead <= BufSize

LEMMA OwnSlot ==
  ASSUME NoOverwrite, NEW n, NEW t, Window(n, t),
         NEW f \in Frames, n <= f, f <= n + WinSize - 1 + MaxAhead
  PROVE  (Stored(slot) \ {slot[SeqOf(f) % BufSize]}) \cup {f} = Stored(slot) \cup {f}
<1>1. f \in Int /\ n \in Int /\ Placed(slot)
  BY DEF Frames, Window
<1>2. PICK p \in Slots : p = SeqOf(f) % BufSize
  BY <1>1, PlaceIn
<1>3. PICK g : g = slot[p]
  OBVIOUS
<1>4. ASSUME g \in Stored(slot) PROVE g = f
  <2>1. g \in Int /\ n <= g /\ g < n + WinSize
    BY <1>4, StoredIn DEF Window, Frames
  <2>2. g # NoFrame
    BY <1>4 DEF Stored, InUse
  <2>3. SeqOf(g) % BufSize = SeqOf(f) % BufSize
    BY <1>1, <1>2, <1>3, <2>2 DEF Placed
  <2>4. g - f < BufSize /\ f - g < BufSize
    <3>1. PICK w \in Int, b \in Int, a \in Int :
            w = WinSize /\ b = BufSize /\ a = MaxAhead /\ w + a <= b /\ a >= 0
      BY Sizes, PeerAssumption DEF NoOverwrite
    <3>2. QED BY <1>1, <2>1, <3>1
  <2>5. QED BY <1>1, <2>1, <2>3, <2>4, SeqPlace
<1>5. QED BY <1>2, <1>3, <1>4

\* what is passed again when the window moves on: nothing
LEMMA NothingTwice ==
  ASSUME NEW n, NEW h, Bits(head, bitmap, passed, n, h), n \in Int, odd \in BOOLEAN,
         NEW S, ToStack(S), \A f \in S : f >= n
  PROVE  odd' = odd /\ passed' = passed \cup S
<1>1. S \cap passed = {}
  <2> SUFFICES ASSUME NEW f \in passed, f \in S PROVE FALSE
    OBVIOUS
  <2>1. f \in Int /\ f < n
    BY DEF Bits, Frames
  <2>2. QED BY <2>1
<1>2. Cardinality(S \cap passed) = 0
  BY <1>1, FS_EmptySet
<1>3. ~(Cardinality(S \cap passed) % 2 = 1)
  BY <1>2
<1>4. odd' = (odd # (Cardinality(S \cap passed) % 2 = 1)) /\ passed' = passed \cup S
  BY DEF ToStack
<1>5. QED BY <1>3, <1>4, Zenon

\* a late frame goes up twice only after a time-out
LEMMA LateOnce ==
  ASSUME NEW n, NEW t, NEW h, Window(n, t), Bits(head, bitmap, passed, n, h), Flags,
         NEW f \in Frames, base - Delay <= f, f < n, ~IsSet(SeqOf(f))
  PROVE  f \notin passed
<1> SUFFICES ASSUME f \in passed PROVE FALSE
  OBVIOUS
<1>1. n \in 0..MaxFrame + 1 /\ h \in -BmpSize..n - BmpSize + 1 /\ head = SeqOf(h) /\ f < h + BmpSize
      /\ n <= base + WinSize /\ base \in Int
  BY DEF Window, Bits, Flags
<1>2. h \in -BmpSize..MaxFrame + 2 /\ f \in 0..MaxFrame + 1 /\ f \in Int /\ h \in Int /\ n \in Int
  BY <1>1, Sizes DEF Frames
<1>3. h <= f
  <2>1. PICK w \in Int, b \in Int, d \in Int :
          w = WinSize /\ b = BmpSize /\ d = Delay /\ d <= b - w - 1
    BY Sizes, PeerAssumption
  <2>2. h <= n - b + 1
    BY <1>1, <1>2, <2>1
  <2>3. QED BY <1>1, <1>2, <2>1, <2>2
<1>4. f \in h..h + BmpSize - 1
  BY <1>1, <1>2, <1>3, Sizes
<1>5. SeqOf(f) % BmpSize \in bitmap
  BY <1>4 DEF Bits
<1>6. QED BY <1>1, <1>2, <1>3, <1>5, WithinIff DEF IsSet

\* the step of the specification when the window moves on
LEMMA AdvanceMoves ==
  ASSUME NEW n, NEW t, NEW h, Window(n, t), Bits(head, bitmap, passed, n, h), Flags,
         NEW S \in SUBSET Frames, \A f \in S : n <= f,
         NEW m \in n..MaxFrame + 1, Advance(S, m)
  PROVE  Abs!MoveOn(S) /\ FrameOf(start)' = m /\ (start' = start <=> m = n)
<1>1. n \in 0..MaxFrame + 1 /\ n \in Int /\ m \in 0..MaxFrame + 1 /\ m \in Int /\ start = SeqOf(n)
  BY DEF Window
<1>2. FrameOf(start) = n /\ FrameOf(start') = m
  BY <1>1, FrameOfSeq DEF Advance
<1>3. Held' = {f \in S : f >= m}
  BY DEF Advance, Held, Stored, InUse
<1>4. odd' = odd /\ passed' = passed \cup {f \in S : f < m}
  <2> DEFINE U == {f \in S : f < m}
  <2>1. ToStack(U) /\ odd \in BOOLEAN /\ \A f \in U : f >= n
    BY <1>1 DEF Advance, Flags, Frames
  <2> HIDE DEF U
  <2>2. odd' = odd /\ passed' = passed \cup U
    BY <1>1, <2>1, NothingTwice
  <2>3. QED BY <2>2 DEF U
<1>5. Abs!MoveOn(S)
  BY <1>2, <1>3, <1>4 DEF Abs!MoveOn
<1>6. start' = start <=> m = n
  BY <1>1, <1>2 DEF Advance
<1>7. QED BY <1>2, <1>5, <1>6

LEMMA ForcedGivesUp ==
  ASSUME NEW n, NEW t, NEW h, Window(n, t), Bits(head, bitmap, passed, n, h), Flags,
         Forced(n), triggered' \in {triggered, TRUE}
  PROVE  Abs!GiveUp
<1>1. PICK m \in n..MaxFrame + 1 : m <= base + WinSize /\ Advance(Stored(slot), m)
  BY DEF Forced
<1>2. Stored(slot) \in SUBSET Frames /\ \A f \in Stored(slot) : n <= f
  BY StoredIn DEF Window
<1>3. Abs!MoveOn(Stored(slot))
  BY <1>1, <1>2, AdvanceMoves
<1>4. Held = Stored(slot)
  BY DEF Held, Stored
<1>5. QED BY <1>3, <1>4 DEF Abs!GiveUp

LEMMA ReceivedReceives ==
  ASSUME NoOverwrite, NEW n, NEW t, NEW h, Window(n, t), Bits(head, bitmap, passed, n, h), Flags,
         NEW f \in Frames, f <= n + WinSize - 1 + MaxAhead, Received(f, n)
  PROVE  Abs!Receive
<1> DEFINE S == Stored(slot) \cup {f}
<1>1. n <= f /\ triggered' = (triggered /\ start' = start)
  BY DEF Received
<1>2. (Stored(slot) \ {slot[SeqOf(f) % BufSize]}) \cup {f} = S
  BY <1>1, OwnSlot
<1>3. PICK m \in n..MaxFrame + 1 : Advance(S, m)
  BY <1>2 DEF Received
<1>4. S \in SUBSET Frames /\ \A e \in S : n <= e
  BY <1>1, StoredIn DEF Window
<1> HIDE DEF S
<1>5. Abs!MoveOn(S) /\ FrameOf(start)' = m /\ (start' = start <=> m = n)
  BY <1>3, <1>4, AdvanceMoves
<1>6. FrameOf(start) = n
  <2>1. f \in 0..MaxFrame + 1
    BY Sizes DEF Frames
  <2>2. QED BY <2>1, WindowIff
<1>7. Held = Stored(slot)
  BY DEF Held, Stored
<1>8. f \in FrameOf(start)..MaxFrame
  BY <1>1, <1>6 DEF Window, Frames
<1>9. triggered' = (triggered /\ FrameOf(start)' = FrameOf(start))
  BY <1>1, <1>5, <1>6
<1>10. QED BY <1>5, <1>7, <1>8, <1>9 DEF Abs!Receive, S

LEMMA LateIsLate ==
  ASSUME NEW n, NEW t, NEW h, Window(n, t), Bits(head, bitmap, passed, n, h), Flags,
         NEW f \in Frames, base - Delay <= f, ReceivedLate(f, n)
  PROVE  Abs!Late
<1>1. f < n /\ (triggered \/ ~IsSet(SeqOf(f))) /\ ToStack({f})
      /\ UNCHANGED <<start, slot, triggered>>
  BY DEF ReceivedLate, winVars
<1>2. FrameOf(start) = n
  <2>1. f \in 0..MaxFrame + 1
    BY Sizes DEF Frames
  <2>2. QED BY <2>1, WindowIff
<1>3. UNCHANGED <<FrameOf(start), Held, triggered>>
  BY <1>1 DEF FrameOf, Held, InUse
<1>4. passed' = passed \cup {f} /\ odd' = (odd # (Cardinality({f} \cap passed) % 2 = 1))
  BY <1>1 DEF ToStack
<1>5. CASE f \notin passed
  <2>1. Cardinality({f} \cap passed) = 0
    BY <1>5, FS_EmptySet
  <2>2. ~(Cardinality({f} \cap passed) % 2 = 1)
    BY <2>1
  <2>3. odd \in BOOLEAN
    BY DEF Flags
  <2>4. odd' = odd
    BY <1>4, <2>2, <2>3, Zenon
  <2>5. QED BY <1>1, <1>2, <1>3, <1>4, <1>5, <2>4 DEF Abs!Late, Abs!Frames, Frames
<1>6. CASE f \in passed
  <2>1. triggered
    BY <1>1, <1>6, LateOnce
  <2>2. Cardinality({f} \cap passed) = 1
    <3>1. {f} \cap passed = {f}
      BY <1>6
    <3>2. QED BY <3>1, FS_Singleton
  <2>3. (Cardinality({f} \cap passed) % 2 = 1)
    BY <2>2
  <2>4. odd \in BOOLEAN
    BY DEF Flags
  <2>5. odd' = ~odd
    BY <1>4, <2>3, <2>4, Zenon
  <2>6. QED BY <1>1, <1>2, <1>3, <1>4, <1>6, <2>1, <2>5 DEF Abs!Late, Abs!Frames, Frames
<1>7. QED BY <1>5, <1>6

LEMMA StepIsPromised ==
  NoOverwrite /\ IInv /\ [Next]_vars => [Abs!Next]_<<FrameOf(start), Held, passed, odd, triggered>>
<1> SUFFICES ASSUME NoOverwrite, IInv, [Next]_vars
             PROVE  [Abs!Next]_<<FrameOf(start), Held, passed, odd, triggered>>
  OBVIOUS
<1> PICK n, t, h : Window(n, t) /\ Bits(head, bitmap, passed, n, h)
  BY DEF IInv
<1>1. Flags
  BY DEF IInv
<1> DEFINE Stutter == UNCHANGED <<FrameOf(start), Held, passed, odd, triggered>>
<1> SUFFICES Stutter \/ Abs!Next
  OBVIOUS
<1>2. ASSUME UNCHANGED <<winVars, upVars>> PROVE Stutter
  BY <1>2 DEF winVars, upVars, FrameOf, Held, InUse
<1> HIDE DEF Stutter
<1>3. CASE UNCHANGED vars
  BY <1>2, <1>3 DEF vars, Stutter
<1>4. ASSUME NEW f \in Frames, RxFrame(f) PROVE Stutter \/ Abs!Next
  <2>1. /\ base - Delay <= f /\ f <= n + WinSize - 1 + MaxAhead
        /\ \/ UNCHANGED <<winVars, bmpVars, taken, upVars>>
           \/ ReceivedLate(f, n)
           \/ Received(f, n)
    BY <1>1, <1>4, RxFrameIs
  <2>2. CASE UNCHANGED <<winVars, bmpVars, taken, upVars>>
    BY <1>2, <2>2
  <2>3. CASE ReceivedLate(f, n)
    BY <1>1, <2>1, <2>3, LateIsLate DEF Abs!Next
  <2>4. CASE Received(f, n)
    BY <1>1, <2>1, <2>4, ReceivedReceives DEF Abs!Next
  <2>5. QED BY <2>1, <2>2, <2>3, <2>4
<1>5. ASSUME NEW f \in 0..MaxFrame + 1, RxBar(f) PROVE Stutter \/ Abs!Next
  <2>1. Forced(n) /\ triggered' = triggered
    BY <1>1, <1>5, RxBarIs
  <2>2. QED BY <1>1, <2>1, ForcedGivesUp DEF Abs!Next
<1>6. ASSUME NEW i \in 0..BufSize - 1, TimeoutPasses(i), UNCHANGED <<base, taken>>
      PROVE  Stutter \/ Abs!Next
  <2>1. Forced(n) /\ triggered' = TRUE
    BY <1>1, <1>6, TimeoutIs
  <2>2. QED BY <1>1, <2>1, ForcedGivesUp DEF Abs!Next
<1>7. CASE TimerExpires
  BY <1>2, <1>7 DEF TimerExpires
<1>8. CASE TimerHandled
  BY <1>2, <1>6, <1>8 DEF TimerHandled, TimeoutWaits
<1>9. CASE DeepSleep
  BY <1>2, <1>9 DEF DeepSleep
<1>10. CASE Work
  BY <1>2, <1>6, <1>10 DEF Work, TimeoutWaits
<1>11. CASE PeerMovesOn
  BY <1>2, <1>11 DEF PeerMovesOn
<1>12. QED BY <1>3, <1>4, <1>5, <1>7, <1>8, <1>9, <1>10, <1>11 DEF Next

\* The receive path keeps the promise of RxReorderAbs to the network stack for every size of
\* the numbers, the window, the buffer and the bitmap: hmac_ba_filter_serv,
\* hmac_reorder_ba_rx_buffer_bar and hmac_ba_timeout_fn pass the frames up in order, none is
\* lost, and none goes up twice unless the window was forced on by a time-out.
THEOREM ReorderContractHolds == NoOverwrite => (Spec => ReorderContract)
<1> SUFFICES ASSUME NoOverwrite PROVE Spec => ReorderContract
  OBVIOUS
<1>1. Init => Abs!Init
  <2> SUFFICES ASSUME Init PROVE Abs!Init
    OBVIOUS
  <2>1. SeqOf(0) = FirstSeq /\ 0 \in 0..MaxFrame + 1
    BY Sizes DEF SeqOf
  <2>2. FrameOf(start) = 0
    BY <2>1, FrameOfSeq DEF Init
  <2>3. QED BY <2>2 DEF Init, Abs!Init, Held, InUse
<1>2. IInv /\ [Next]_vars => [Abs!Next]_<<FrameOf(start), Held, passed, odd, triggered>>
  BY StepIsPromised
<1>3. QED BY <1>1, <1>2, AlwaysIInv, PTL DEF Spec, ReorderContract, Abs!Spec

LEMMA StepLosesNothing == NoOverwrite /\ IInv /\ NothingLost /\ [Next]_vars => NothingLost'
<1> SUFFICES ASSUME NoOverwrite, IInv, NothingLost, [Next]_vars PROVE NothingLost'
  OBVIOUS
<1> PICK n, t, h : Window(n, t) /\ Bits(head, bitmap, passed, n, h)
  BY DEF IInv
<1>1. Flags /\ Held = Stored(slot) /\ Held' = Stored(slot')
  BY DEF IInv, Held, Stored, InUse
<1>2. ASSUME UNCHANGED <<slot, passed, taken>> PROVE NothingLost'
  BY <1>2 DEF NothingLost, Held, InUse
<1>3. ASSUME NEW S \in SUBSET Frames, NEW m \in Int, Advance(S, m)
      PROVE  S \subseteq passed' \cup Held' /\ passed \subseteq passed'
  <2>1. Stored(slot') = {f \in S : f >= m} /\ passed' = passed \cup {f \in S : f < m}
    BY <1>3 DEF Advance, ToStack
  <2>2. \A f \in S : f >= m \/ f < m
    BY DEF Frames
  <2>3. QED BY <1>1, <2>1, <2>2
<1>4. ASSUME Forced(n) PROVE NothingLost'
  <2>1. PICK m \in n..MaxFrame + 1 : Advance(Stored(slot), m)
    BY <1>4 DEF Forced
  <2>2. Stored(slot) \in SUBSET Frames /\ m \in Int
    BY StoredIn DEF Window
  <2>3. Stored(slot) \subseteq passed' \cup Held' /\ passed \subseteq passed'
    BY <1>3, <2>1, <2>2
  <2>4. taken' = taken
    BY <1>4 DEF Forced
  <2>5. QED BY <1>1, <2>3, <2>4 DEF NothingLost
<1>5. CASE UNCHANGED vars
  BY <1>2, <1>5 DEF vars, winVars, upVars
<1>6. ASSUME NEW f \in Frames, RxFrame(f) PROVE NothingLost'
  <2>1. /\ f <= n + WinSize - 1 + MaxAhead
        /\ \/ UNCHANGED <<winVars, bmpVars, taken, upVars>>
           \/ ReceivedLate(f, n)
           \/ Received(f, n)
    BY <1>1, <1>6, RxFrameIs
  <2>2. CASE UNCHANGED <<winVars, bmpVars, taken, upVars>>
    BY <1>2, <2>2 DEF winVars, upVars
  <2>3. CASE ReceivedLate(f, n)
    <3>1. passed' = passed \cup {f} /\ taken' = taken \cup {f} /\ slot' = slot
      BY <2>3 DEF ReceivedLate, ToStack, winVars
    <3>2. QED BY <1>1, <3>1 DEF NothingLost
  <2>4. CASE Received(f, n)
    <3> DEFINE S == Stored(slot) \cup {f}
    <3>1. n <= f /\ taken' = taken \cup {f}
      BY <2>4 DEF Received
    <3>2. (Stored(slot) \ {slot[SeqOf(f) % BufSize]}) \cup {f} = S
      BY <2>1, <3>1, OwnSlot
    <3>3. PICK m \in n..MaxFrame + 1 : Advance(S, m)
      BY <2>4, <3>2 DEF Received
    <3>4. S \in SUBSET Frames /\ m \in Int
      BY StoredIn DEF Window
    <3>5. S \subseteq passed' \cup Held' /\ passed \subseteq passed'
      <4> HIDE DEF S
      <4>1. QED BY <1>3, <3>3, <3>4
    <3>6. QED BY <1>1, <3>1, <3>5 DEF NothingLost
  <2>5. QED BY <2>1, <2>2, <2>3, <2>4
<1>7. ASSUME NEW f \in 0..MaxFrame + 1, RxBar(f) PROVE NothingLost'
  BY <1>1, <1>4, <1>7, RxBarIs
<1>8. ASSUME NEW i \in 0..BufSize - 1, TimeoutPasses(i), UNCHANGED <<base, taken>> PROVE NothingLost'
  BY <1>1, <1>4, <1>8, TimeoutIs
<1>9. ASSUME UNCHANGED <<winVars, upVars, taken>> PROVE NothingLost'
  BY <1>2, <1>9 DEF winVars, upVars
<1>10. CASE TimerExpires
  BY <1>9, <1>10 DEF TimerExpires
<1>11. CASE TimerHandled
  BY <1>8, <1>9, <1>11 DEF TimerHandled, TimeoutWaits
<1>12. CASE DeepSleep
  BY <1>9, <1>12 DEF DeepSleep
<1>13. CASE Work
  BY <1>8, <1>9, <1>13 DEF Work, TimeoutWaits
<1>14. CASE PeerMovesOn
  BY <1>9, <1>14 DEF PeerMovesOn
<1>15. QED BY <1>5, <1>6, <1>7, <1>10, <1>11, <1>12, <1>13, <1>14 DEF Next

\* The overwriting that RxReorder_overwrite finds is the only loss: with frames at most a
\* buffer's length ahead, hmac_ba_buffer_rx_frame never frees a frame, and hmac_ba_filter_serv,
\* "sync loss" included, drops none that the host took.
THEOREM NothingElseLost == NoOverwrite => (Spec => []NothingLost)
<1> SUFFICES ASSUME NoOverwrite PROVE Spec => []NothingLost
  OBVIOUS
<1>1. Init => NothingLost
  BY DEF Init, NothingLost
<1>2. IInv /\ NothingLost /\ [Next]_vars => NothingLost'
  BY StepLosesNothing
<1>3. QED BY <1>1, <1>2, AlwaysIInv, PTL DEF Spec

=============================================================================
