---------------------------- MODULE NumberLemmas ----------------------------
(***************************************************************************)
(* Facts about numbers that several proofs need: the lowest number of a    *)
(* set, which the searches of oal_get_lut_index (BaSessions) and           *)
(* hcc_sort_key_frame (HccTx) find; remainders, for the sequence numbers   *)
(* of RxReorder and the rings of HiethQueues and UartRing; and the sum of  *)
(* a function over a set, as the weights and the events of the queues of   *)
(* FrwSched are added up.                                                  *)
(***************************************************************************)
EXTENDS Integers, FiniteSets, FiniteSetsExt, FiniteSetTheorems, WellFoundedInduction, TLAPS

\* A set of numbers with an upper bound has a lowest one: finite initial segments are well
\* founded under inclusion, which needs no induction here.
LEMMA LowestIndex ==
  ASSUME NEW n \in Nat, NEW S \in SUBSET (0..n), S # {}
  PROVE  Min(S) \in S /\ \A j \in S : Min(S) <= j
<1> DEFINE below(k) == 0..(k - 1)
           T == { below(k) : k \in S }
           R == StrictSubsetOrdering(Nat)
<1>1. T \subseteq FiniteSubsetsOf(Nat)
  <2> SUFFICES ASSUME NEW k \in S PROVE below(k) \in FiniteSubsetsOf(Nat)
    OBVIOUS
  <2>1. IsFiniteSet(0..(k - 1)) BY FS_Interval
  <2>2. QED BY <2>1 DEF FiniteSubsetsOf
<1>2. PICK U \in T : \A V \in T : <<V, U>> \notin R
  <2>1. T # {} OBVIOUS
  <2> HIDE DEF R, T
  <2>2. IsWellFoundedOn(R, FiniteSubsetsOf(Nat)) BY FS_StrictSubsetOrderingWellFounded DEF R
  <2>3. QED BY <1>1, <2>1, <2>2, WFMin
<1>3. PICK k \in S : U = below(k)
  OBVIOUS
<1>4. ASSUME NEW j \in S PROVE k <= j
  <2> SUFFICES ASSUME j < k PROVE FALSE
    OBVIOUS
  <2>1. below(j) \subseteq below(k) /\ j \in below(k) /\ j \notin below(j)
    OBVIOUS
  <2>2. <<below(j), below(k)>> \in R
    BY <2>1 DEF StrictSubsetOrdering
  <2>3. QED BY <1>2, <1>3, <2>2
<1>5. QED BY <1>4 DEF Min

----------------------------------------------------------------------------
(* Remainders                                                              *)

LEMMA ModRange == \A M \in Nat \ {0}, a \in Int : a % M \in 0..M - 1
OBVIOUS

LEMMA ModSplit == \A M \in Nat \ {0}, a \in Int : \E k \in Int : a = k * M + (a % M)
<1> SUFFICES ASSUME NEW M \in Nat \ {0}, NEW a \in Int PROVE \E k \in Int : a = k * M + (a % M)
  OBVIOUS
<1>1. a \div M \in Int /\ a = (a \div M) * M + (a % M)
  OBVIOUS
<1>2. QED BY <1>1

\* a number between the multiple of M above it and the one below it
LEMMA NoMultiple ==
  ASSUME NEW M \in Nat \ {0}, NEW k \in Int, k * M < M, -M < k * M
  PROVE  k = 0
<1>1. ASSUME k >= 1 PROVE FALSE
  <2>1. k * M >= M
    BY <1>1
  <2>2. QED BY <2>1
<1>2. ASSUME k <= -1 PROVE FALSE
  <2>1. k * M <= -M
    BY <1>2
  <2>2. QED BY <2>1
<1>3. QED BY <1>1, <1>2

LEMMA ModIs ==
  ASSUME NEW M \in Nat \ {0}, NEW a \in Int, NEW r \in 0..M - 1, NEW k \in Int, a = k * M + r
  PROVE  a % M = r
<1>1. PICK j \in Int : a = j * M + (a % M)
  BY ModSplit
<1>2. a % M \in 0..M - 1
  BY ModRange
<1>3. (k - j) * M = (a % M) - r
  BY <1>1, <1>2
<1>4. k - j = 0
  BY <1>2, <1>3, NoMultiple
<1>5. QED BY <1>1, <1>2, <1>4

LEMMA ModAdd ==
  ASSUME NEW M \in Nat \ {0}, NEW a \in Int, NEW b \in Int
  PROVE  ((a % M) + b) % M = (a + b) % M
<1>1. PICK k \in Int : a = k * M + (a % M)
  BY ModSplit
<1>2. PICK x \in Int : x = (a % M) + b
  <2>1. a % M \in Int
    BY ModRange
  <2>2. QED BY <2>1
<1>3. PICK j \in Int : x = j * M + (x % M)
  BY ModSplit
<1>4. PICK r \in 0..M - 1 : r = x % M
  BY ModRange
<1>5. a + b = (k + j) * M + r
  BY <1>1, <1>2, <1>3, <1>4
<1>6. a + b \in Int /\ k + j \in Int
  OBVIOUS
<1>7. (a + b) % M = r
  BY <1>5, <1>6, ModIs
<1>8. QED BY <1>2, <1>4, <1>7

LEMMA ModSub ==
  ASSUME NEW M \in Nat \ {0}, NEW a \in Int, NEW b \in Int
  PROVE  ((a % M) - (b % M)) % M = (a - b) % M
<1>1. PICK k \in Int : a = k * M + (a % M)
  BY ModSplit
<1>2. PICK j \in Int : b = j * M + (b % M)
  BY ModSplit
<1>3. PICK x \in Int : x = (a % M) - (b % M)
  <2>1. PICK p \in Int : p = a % M
    BY ModRange
  <2>2. PICK q \in Int : q = b % M
    BY ModRange
  <2>3. p - q \in Int
    OBVIOUS
  <2>4. QED BY <2>1, <2>2, <2>3
<1>4. PICK i \in Int : x = i * M + (x % M)
  BY ModSplit
<1>5. PICK r \in 0..M - 1 : r = x % M
  BY ModRange
<1>6. a - b = ((i + k) - j) * M + r
  BY <1>1, <1>2, <1>3, <1>4, <1>5
<1>7. a - b \in Int /\ (i + k) - j \in Int
  OBVIOUS
<1>8. (a - b) % M = r
  BY <1>6, <1>7, ModIs
<1>9. QED BY <1>3, <1>5, <1>8

\* numbers with the same remainder are the same or at least M apart
LEMMA ModSame ==
  ASSUME NEW M \in Nat \ {0}, NEW a \in Int, NEW b \in Int,
         a % M = b % M, a - b < M, b - a < M
  PROVE  a = b
<1>1. PICK k \in Int : a = k * M + (a % M)
  BY ModSplit
<1>2. PICK j \in Int : b = j * M + (b % M)
  BY ModSplit
<1>3. (a % M) \in 0..M - 1 /\ (b % M) \in 0..M - 1
  BY ModRange
<1>4. (k - j) * M = a - b
  BY <1>1, <1>2, <1>3
<1>5. k - j = 0
  BY <1>4, NoMultiple
<1>6. QED BY <1>1, <1>2, <1>3, <1>5

\* the remainder by a divisor of M is the same before and after that by M
LEMMA ModDivisor ==
  ASSUME NEW M \in Nat \ {0}, NEW D \in Nat \ {0}, M % D = 0, NEW a \in Int
  PROVE  (a % M) % D = a % D
<1>1. PICK k \in Int : a = k * M + (a % M)
  BY ModSplit
<1>2. PICK x \in Int : x = a % M
  BY ModRange
<1>3. PICK q \in Int : M = q * D
  <2>1. M \in Int
    OBVIOUS
  <2>2. PICK q \in Int : M = q * D + (M % D)
    BY <2>1, ModSplit
  <2>3. QED BY <2>2
<1>4. PICK j \in Int : x = j * D + (x % D)
  BY ModSplit
<1>5. PICK r \in 0..D - 1 : r = x % D
  BY ModRange
<1>6. k * q \in Int /\ k * q + j \in Int
  OBVIOUS
<1>7. a = (k * q + j) * D + r
  <2>1. k * M = (k * q) * D
    BY <1>3
  <2>2. PICK z \in Int : z = k * q
    BY <1>6
  <2>3. a = z * D + (j * D + r)
    BY <1>1, <1>2, <1>4, <1>5, <2>1, <2>2
  <2>4. z * D + (j * D + r) = (z + j) * D + r
    OBVIOUS
  <2>5. QED BY <2>2, <2>3, <2>4
<1>8. a % D = r
  BY <1>6, <1>7, ModIs
<1>9. QED BY <1>2, <1>5, <1>8

----------------------------------------------------------------------------
(* Sums over finite sets.  The fold of the community modules takes the     *)
(* elements of the set in an order of its own; the sum does not depend on  *)
(* it.                                                                     *)

Total(f, S) == MapThenSumSet(LAMBDA x : f[x], S)

Pick(s) == CHOOSE x \in s : TRUE
IsSums(it, f, S) == it = [s \in SUBSET S |-> IF s = {} THEN 0 ELSE f[Pick(s)] + it[s \ {Pick(s)}]]
Sums(f, S) == CHOOSE it : IsSums(it, f, S)

LEMMA TotalIsSum == ASSUME NEW f, NEW S PROVE Total(f, S) = Sums(f, S)[S]
BY DEF Total, MapThenSumSet, MapThenFoldSet, Sums, IsSums, Pick

\* Among the finite sets of a collection, one has no proper subset in it: the induction over
\* finite sets, without a predicate as a parameter.
LEMMA SmallestSet ==
  ASSUME NEW S, IsFiniteSet(S), NEW Bad \in SUBSET (SUBSET S), Bad # {}
  PROVE  \E B \in Bad : \A C \in SUBSET B : C # B => C \notin Bad
<1> DEFINE R == StrictSubsetOrdering(S)
<1>1. IsWellFoundedOn(R, SUBSET S)
  BY FS_StrictSubsetOrderingWellFounded, FS_FiniteSubsetsOfFinite
<1> HIDE DEF R
<1>2. PICK B \in Bad : \A C \in Bad : <<C, B>> \notin R
  BY <1>1, WFMin
<1>3. ASSUME NEW C \in SUBSET B, C # B, C \in Bad PROVE FALSE
  BY <1>2, <1>3 DEF R, StrictSubsetOrdering
<1>4. QED BY <1>3

LEMMA PickIn == \A s : s # {} => Pick(s) \in s
BY DEF Pick

\* one step of a function of sums
LEMMA SumsStep ==
  ASSUME NEW f, NEW S, NEW it, IsSums(it, f, S), NEW s \in SUBSET S
  PROVE  it[s] = IF s = {} THEN 0 ELSE f[Pick(s)] + it[s \ {Pick(s)}]
BY DEF IsSums

\* two functions of sums agree on the sets whose elements have the same values
LEMMA SumsAgree ==
  ASSUME NEW f, NEW g, NEW S, NEW T, NEW a, NEW b, IsSums(a, f, S), IsSums(b, g, T),
         NEW s, IsFiniteSet(s), s \subseteq S, s \subseteq T, \A x \in s : f[x] = g[x]
  PROVE  a[s] = b[s]
<1> DEFINE Bad == {u \in SUBSET s : a[u] # b[u]}
<1> SUFFICES ASSUME Bad # {} PROVE FALSE
  OBVIOUS
<1>1. PICK u \in Bad : \A v \in SUBSET u : v # u => v \notin Bad
  <2>1. Bad \in SUBSET (SUBSET s)
    OBVIOUS
  <2> HIDE DEF Bad
  <2>2. QED BY <2>1, SmallestSet
<1>2. u \in SUBSET S /\ u \in SUBSET T /\ u \in SUBSET s
  OBVIOUS
<1>3. CASE u = {}
  <2>1. a[u] = 0 /\ b[u] = 0
    <3> HIDE DEF Bad
    <3>1. QED BY <1>2, <1>3, SumsStep, ZenonT(30)
  <2>2. QED BY <2>1
<1>4. CASE u # {}
  <2>1. Pick(u) \in u
    BY <1>4, PickIn
  <2>2. a[u \ {Pick(u)}] = b[u \ {Pick(u)}]
    BY <1>1, <2>1
  <2>3. f[Pick(u)] = g[Pick(u)]
    BY <1>2, <2>1
  <2>4. a[u] = f[Pick(u)] + a[u \ {Pick(u)}] /\ b[u] = g[Pick(u)] + b[u \ {Pick(u)}]
    BY <1>2, <1>4, SumsStep
  <2>5. QED BY <1>1, <2>2, <2>3, <2>4
<1>5. QED BY <1>3, <1>4

\* every finite set has its function of sums
LEMMA SumsExist ==
  ASSUME NEW f, NEW S, IsFiniteSet(S)
  PROVE  IsSums(Sums(f, S), f, S)
<1> DEFINE Bad == {T \in SUBSET S : ~ \E it : IsSums(it, f, T)}
<1>1. ASSUME Bad # {} PROVE FALSE
  <2>1. PICK T \in Bad : \A v \in SUBSET T : v # T => v \notin Bad
    <3>1. Bad \in SUBSET (SUBSET S)
      OBVIOUS
    <3> HIDE DEF Bad
    <3>2. QED BY <1>1, <3>1, SmallestSet
  <2>2. \A v \in SUBSET T : v # T => IsSums(Sums(f, v), f, v)
    <3> SUFFICES ASSUME NEW v \in SUBSET T, v # T PROVE IsSums(Sums(f, v), f, v)
      OBVIOUS
    <3>1. \E it : IsSums(it, f, v)
      BY <2>1
    <3>2. QED BY <3>1, Zenon DEF Sums
  <2> DEFINE rest(s) == s \ {Pick(s)}
             it == [s \in SUBSET T |-> IF s = {} THEN 0 ELSE f[Pick(s)] + Sums(f, rest(s))[rest(s)]]
  <2>3. ASSUME NEW s \in SUBSET T, s # {} PROVE it[rest(s)] = Sums(f, rest(s))[rest(s)]
    <3>1. Pick(s) \in s /\ rest(s) \in SUBSET T /\ rest(s) # T /\ IsFiniteSet(T)
      BY <2>3, PickIn, FS_Subset
    <3> DEFINE u == rest(s)
    <3>2. IsSums(Sums(f, u), f, u) /\ u \in SUBSET T /\ u # T
      BY <2>2, <3>1
    <3> HIDE DEF rest, u
    <3>3. CASE u = {}
      <4>1. Sums(f, u)[u] = 0
        BY <3>2, <3>3, SumsStep
      <4>2. QED BY <3>2, <3>3, <4>1 DEF u
    <3>4. CASE u # {}
      <4>1. Pick(u) \in u
        BY <3>4, PickIn
      <4>2. IsSums(Sums(f, rest(u)), f, rest(u)) /\ rest(u) \subseteq u /\ IsFiniteSet(rest(u))
        BY <2>2, <3>1, <3>2, <4>1, FS_Subset DEF rest
      <4>3. Sums(f, u)[rest(u)] = Sums(f, rest(u))[rest(u)]
        BY <3>2, <4>2, SumsAgree
      <4>4. Sums(f, u)[u] = f[Pick(u)] + Sums(f, u)[rest(u)]
        BY <3>2, <3>4, SumsStep DEF rest
      <4>5. it[u] = f[Pick(u)] + Sums(f, rest(u))[rest(u)]
        BY <3>2, <3>4
      <4>6. QED BY <4>3, <4>4, <4>5 DEF u
    <3>5. QED BY <3>3, <3>4 DEF u
  <2>4. it = [s \in SUBSET T |-> IF s = {} THEN 0 ELSE f[Pick(s)] + it[s \ {Pick(s)}]]
    <3> HIDE DEF it
    <3>1. \A s \in SUBSET T : it[s] = IF s = {} THEN 0 ELSE f[Pick(s)] + it[s \ {Pick(s)}]
      BY <2>3 DEF it
    <3>2. it = [s \in SUBSET T |-> it[s]]
      BY DEF it
    <3>3. QED BY <3>1, <3>2
  <2>5. IsSums(it, f, T)
    BY <2>4 DEF IsSums
  <2>6. QED BY <2>1, <2>5
<1>2. \E it : IsSums(it, f, S)
  BY <1>1
<1>3. QED BY <1>2, Zenon DEF Sums

\* the sum of no elements, and of those of a set whose values are numbers
LEMMA TotalEmpty == ASSUME NEW f PROVE Total(f, {}) = 0
BY SumsExist, SumsStep, TotalIsSum, FS_EmptySet

LEMMA TotalPick ==
  ASSUME NEW f, NEW S, IsFiniteSet(S), S # {}
  PROVE  Total(f, S) = f[Pick(S)] + Total(f, S \ {Pick(S)})
<1> DEFINE u == S \ {Pick(S)}
<1>1. IsSums(Sums(f, S), f, S) /\ IsSums(Sums(f, u), f, u) /\ IsFiniteSet(u) /\ u \subseteq S
  BY SumsExist, FS_Subset
<1>2. Sums(f, S)[S] = f[Pick(S)] + Sums(f, S)[u]
  BY <1>1, SumsStep
<1> HIDE DEF u
<1>3. Sums(f, S)[u] = Sums(f, u)[u]
  BY <1>1, SumsAgree
<1>4. QED BY <1>2, <1>3, TotalIsSum DEF u

\* only the values of the set's elements count
LEMMA TotalSame ==
  ASSUME NEW f, NEW g, NEW S, IsFiniteSet(S), \A x \in S : f[x] = g[x]
  PROVE  Total(f, S) = Total(g, S)
BY SumsExist, SumsAgree, TotalIsSum

LEMMA TotalType ==
  ASSUME NEW f, NEW S, IsFiniteSet(S), \A x \in S : f[x] \in Nat
  PROVE  Total(f, S) \in Nat
<1> DEFINE Bad == {u \in SUBSET S : Total(f, u) \notin Nat}
<1> SUFFICES ASSUME Bad # {} PROVE FALSE
  OBVIOUS
<1>1. PICK u \in Bad : \A v \in SUBSET u : v # u => v \notin Bad
  <2>1. Bad \in SUBSET (SUBSET S)
    OBVIOUS
  <2> HIDE DEF Bad
  <2>2. QED BY <2>1, SmallestSet
<1>2. u \in SUBSET S /\ IsFiniteSet(u)
  BY FS_Subset
<1>3. CASE u = {}
  BY <1>3, TotalEmpty
<1>4. CASE u # {}
  <2>1. Pick(u) \in u /\ Total(f, u) = f[Pick(u)] + Total(f, u \ {Pick(u)})
    BY <1>2, <1>4, PickIn, TotalPick
  <2>2. Total(f, u \ {Pick(u)}) \in Nat
    BY <1>1, <2>1
  <2>3. QED BY <1>2, <2>1, <2>2
<1>5. QED BY <1>3, <1>4

\* any element can be taken out first
LEMMA TotalRemove ==
  ASSUME NEW f, NEW S, IsFiniteSet(S), \A x \in S : f[x] \in Nat, NEW y \in S
  PROVE  Total(f, S) = f[y] + Total(f, S \ {y})
<1> DEFINE Bad == {u \in SUBSET S : \E z \in u : Total(f, u) # f[z] + Total(f, u \ {z})}
<1> SUFFICES ASSUME Bad # {} PROVE FALSE
  OBVIOUS
<1>1. PICK u \in Bad : \A v \in SUBSET u : v # u => v \notin Bad
  <2>1. Bad \in SUBSET (SUBSET S)
    OBVIOUS
  <2> HIDE DEF Bad
  <2>2. QED BY <2>1, SmallestSet
<1>2. PICK z \in u : Total(f, u) # f[z] + Total(f, u \ {z})
  BY <1>1
<1> DEFINE p == Pick(u)
<1>3. u \in SUBSET S /\ IsFiniteSet(u) /\ p \in u /\ Total(f, u) = f[p] + Total(f, u \ {p})
  BY <1>1, FS_Subset, PickIn, TotalPick
<1> HIDE DEF p
<1>4. CASE p = z
  BY <1>2, <1>3, <1>4
<1>5. CASE p # z
  <2> DEFINE w == u \ {p, z}
  <2>1. u \ {p} \notin Bad /\ u \ {p} \in SUBSET S /\ z \in u \ {p} /\ (u \ {p}) \ {z} = w
    BY <1>1, <1>3, <1>5
  <2>2. u \ {z} \notin Bad /\ u \ {z} \in SUBSET S /\ p \in u \ {z} /\ (u \ {z}) \ {p} = w
    BY <1>1, <1>3, <1>5
  <2>3. Total(f, u \ {p}) = f[z] + Total(f, w)
    BY <2>1
  <2>4. Total(f, u \ {z}) = f[p] + Total(f, w)
    BY <2>2
  <2>5. IsFiniteSet(w) /\ \A x \in w : f[x] \in Nat
    BY <1>3, FS_Subset
  <2>6. Total(f, w) \in Nat /\ f[p] \in Nat /\ f[z] \in Nat
    BY <1>3, <2>5, TotalType
  <2> HIDE DEF w
  <2>7. QED BY <1>2, <1>3, <2>3, <2>4, <2>6
<1>6. QED BY <1>4, <1>5

\* no element exceeds the sum
LEMMA TotalAtLeast ==
  ASSUME NEW f, NEW S, IsFiniteSet(S), \A x \in S : f[x] \in Nat, NEW y \in S
  PROVE  Total(f, S) \in Nat /\ Total(f, S) >= f[y]
<1>1. IsFiniteSet(S \ {y})
  BY FS_Subset
<1>2. Total(f, S) = f[y] + Total(f, S \ {y})
  BY TotalRemove
<1>3. Total(f, S \ {y}) \in Nat
  BY <1>1, TotalType
<1>4. QED BY <1>2, <1>3

\* a sum of zeros
LEMMA TotalZero ==
  ASSUME NEW f, NEW S, IsFiniteSet(S), \A x \in S : f[x] = 0
  PROVE  Total(f, S) = 0
<1> DEFINE Bad == {T \in SUBSET S : Total(f, T) # 0}
<1> SUFFICES ASSUME Bad # {} PROVE FALSE
  OBVIOUS
<1>1. PICK T \in Bad : \A u \in SUBSET T : u # T => u \notin Bad
  <2>1. Bad \in SUBSET (SUBSET S)
    OBVIOUS
  <2> HIDE DEF Bad
  <2>2. QED BY <2>1, SmallestSet
<1>2. T \in SUBSET S /\ IsFiniteSet(T) /\ Total(f, T) # 0
  BY FS_Subset
<1>3. PICK x \in T : TRUE
  BY <1>2, TotalEmpty
<1>4. Total(f, T \ {x}) = 0
  BY <1>1, <1>2
<1>5. Total(f, T) = f[x] + Total(f, T \ {x})
  <2>1. \A y \in T : f[y] \in Nat
    BY <1>2
  <2> HIDE DEF Bad
  <2>2. QED BY <1>2, <1>3, <2>1, TotalRemove
<1>6. QED BY <1>2, <1>3, <1>4, <1>5

\* the value of one element is changed
LEMMA TotalChange ==
  ASSUME NEW f, NEW g, NEW S, IsFiniteSet(S), NEW y \in S,
         \A x \in S : f[x] \in Nat /\ g[x] \in Nat, \A x \in S \ {y} : g[x] = f[x]
  PROVE  Total(g, S) = Total(f, S) - f[y] + g[y]
<1>1. IsFiniteSet(S \ {y})
  BY FS_Subset
<1>2. Total(f, S \ {y}) = Total(g, S \ {y}) /\ Total(f, S \ {y}) \in Nat
  BY <1>1, TotalSame, TotalType
<1>3. Total(f, S) = f[y] + Total(f, S \ {y}) /\ Total(g, S) = g[y] + Total(g, S \ {y})
  BY TotalRemove
<1>4. QED BY <1>2, <1>3

=============================================================================
