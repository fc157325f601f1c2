------------------------- MODULE GpuAccumulatorProofs -------------------------
(***************************************************************************)
(* For every set of boards, batch size, number of moves and capacity.      *)
(* First the two radix-sort passes, the duplicate flags and the compaction *)
(* of one region: for any number of records they leave each value once, in *)
(* ascending order, and touch no other slot.  Then the accumulator: its    *)
(* two stacks never meet, its statistics are those of the boards expanded  *)
(* since the reset, and it implements a pair of sorted sets.               *)
(***************************************************************************)
EXTENDS GpuAccumulator, FiniteSetTheorems, WellFoundedInduction, TLAPS

(* One pass: how many records are put before record i, and which record    *)
(* ends at place r.                                                        *)
Before(keys, i, j) == keys[i] < keys[j] \/ (keys[i] = keys[j] /\ i < j)
Rank(keys, N, i) == Cardinality({j \in Region(N) : Before(keys, j, i)})
Pass(keys, N) == [r \in Region(N) |-> CHOOSE i \in Region(N) : Rank(keys, N, i) = r]

(* A region of N slots and its parts are finite.                           *)
LEMMA RegionFinite ==
  ASSUME NEW N \in Nat
  PROVE  /\ IsFiniteSet(Region(N)) /\ Cardinality(Region(N)) = N
         /\ \A T \in SUBSET Region(N) : IsFiniteSet(T) /\ Cardinality(T) \in 0..N
<1>1. IsFiniteSet(Region(N)) /\ Cardinality(Region(N)) = N
  BY FS_Interval DEF Region
<1>2. ASSUME NEW T \in SUBSET Region(N) PROVE IsFiniteSet(T) /\ Cardinality(T) \in 0..N
  BY <1>1, FS_Subset, FS_CardinalityType
<1> QED BY <1>1, <1>2

(* The order of a pass is total, so ranks differ and all are taken. *)
LEMMA RankOrder ==
  ASSUME NEW N \in Nat, NEW keys \in [Region(N) -> Int]
  PROVE  /\ \A i \in Region(N) : Rank(keys, N, i) \in Region(N)
         /\ \A i, j \in Region(N) : Before(keys, i, j) => Rank(keys, N, i) < Rank(keys, N, j)
<1> DEFINE P(i) == {j \in Region(N) : Before(keys, j, i)}
<1>1. \A i \in Region(N) : i \notin P(i) /\ i \in Int /\ keys[i] \in Int
  BY DEF Before, Region
<1>2. ASSUME NEW i \in Region(N) PROVE Cardinality(P(i)) \in Region(N)
  <2>1. P(i) \cup {i} \subseteq Region(N) /\ i \notin P(i)
    BY <1>1
  <2>2. IsFiniteSet(P(i)) /\ Cardinality(P(i)) \in Nat
    BY RegionFinite
  <2>3. Cardinality(P(i) \cup {i}) = Cardinality(P(i)) + 1
    BY <2>1, <2>2, FS_AddElement
  <2>4. Cardinality(P(i) \cup {i}) <= N
    BY <2>1, RegionFinite
  <2> HIDE DEF P
  <2> QED BY <2>2, <2>3, <2>4 DEF Region
<1>3. ASSUME NEW i \in Region(N), NEW j \in Region(N), Before(keys, i, j)
      PROVE  Cardinality(P(i)) < Cardinality(P(j))
  <2>1. P(i) \cup {i} \subseteq P(j) /\ i \notin P(i)
    BY <1>1, <1>3 DEF Before
  <2>2. IsFiniteSet(P(i)) /\ IsFiniteSet(P(j)) /\ Cardinality(P(i)) \in Nat
    BY RegionFinite
  <2>3. Cardinality(P(i) \cup {i}) = Cardinality(P(i)) + 1
    BY <2>1, <2>2, FS_AddElement
  <2>4. Cardinality(P(i) \cup {i}) <= Cardinality(P(j)) /\ Cardinality(P(j)) \in Nat
    BY <2>1, <2>2, FS_Subset, FS_CardinalityType
  <2> HIDE DEF P
  <2> QED BY <2>2, <2>3, <2>4
<1> QED BY <1>2, <1>3 DEF Rank

(* Every slot of the region is some key's rank.                            *)
LEMMA RankTaken ==
  ASSUME NEW N \in Nat, NEW keys \in [Region(N) -> Int], NEW r \in Region(N)
  PROVE  \E i \in Region(N) : Rank(keys, N, i) = r
<1> DEFINE f == [i \in Region(N) |-> Rank(keys, N, i)]
<1>1. f \in [Region(N) -> Region(N)]
  BY RankOrder
<1>2. \A i, j \in Region(N) : i # j => f[i] # f[j]
  <2>1. ASSUME NEW i \in Region(N), NEW j \in Region(N), i # j
        PROVE  Before(keys, i, j) \/ Before(keys, j, i)
    BY <2>1 DEF Before, Region
  <2>2. \A i \in Region(N) : f[i] = Rank(keys, N, i) /\ f[i] \in Int
    BY RankOrder DEF Region
  <2> QED BY <2>1, <2>2, RankOrder
<1>3. f \in Injection(Region(N), Region(N))
  BY <1>1, <1>2 DEF Injection, IsInjective
<1>4. f \in Surjection(Region(N), Region(N))
  BY <1>3, FS_Injection, RegionFinite
<1> QED BY <1>4 DEF Surjection

(* A pass is a permutation; it sorts by the keys and is stable. *)
LEMMA PassSorts ==
  ASSUME NEW N \in Nat, NEW keys \in [Region(N) -> Int]
  PROVE  /\ Pass(keys, N) \in [Region(N) -> Region(N)]
         /\ \A i \in Region(N) : \E r \in Region(N) : Pass(keys, N)[r] = i
         /\ \A r, s \in Region(N) : r < s => Before(keys, Pass(keys, N)[r], Pass(keys, N)[s])
<1> DEFINE p == Pass(keys, N)
<1>1. \A r \in Region(N) : p[r] \in Region(N) /\ Rank(keys, N, p[r]) = r
  BY RankTaken DEF Pass
<1>2. \A i, j \in Region(N) : i # j => Before(keys, i, j) \/ Before(keys, j, i)
  BY DEF Before, Region
<1>3. \A r \in Region(N) : r \in Int
  BY DEF Region
<1>4. \A i, j \in Region(N) : Rank(keys, N, i) = Rank(keys, N, j) => i = j
  BY <1>2, <1>3, RankOrder
<1>5. \A i \in Region(N) : p[Rank(keys, N, i)] = i
  BY <1>1, <1>4, RankOrder
<1>6. ASSUME NEW r \in Region(N), NEW s \in Region(N), r < s
      PROVE  Before(keys, p[r], p[s])
  <2>1. p[r] # p[s] /\ ~Before(keys, p[s], p[r])
    BY <1>1, <1>3, <1>6, RankOrder
  <2> QED BY <1>1, <1>2, <2>1
<1>7. p \in [Region(N) -> Region(N)]
  BY <1>1 DEF Pass
<1> HIDE DEF p
<1>8. /\ p \in [Region(N) -> Region(N)]
      /\ \A i \in Region(N) : \E r \in Region(N) : p[r] = i
      /\ \A r, s \in Region(N) : r < s => Before(keys, p[r], p[s])
  BY <1>5, <1>6, <1>7, RankOrder
<1> QED BY <1>8 DEF p

(* Sorting pairs moves each value to where a pass puts it.                 *)
LEMMA SortPairsIsPass ==
  ASSUME NEW N, NEW keys, NEW vals
  PROVE  SortPairs(keys, vals, N) = [r \in Region(N) |-> vals[Pass(keys, N)[r]]]
BY DEF SortPairs, Pass, Rank, Before

-----------------------------------------------------------------------------
(* Two passes: the order of the records, cells first and colors second.    *)

\* The order on records is strict and total.
LEMMA KeyOrder ==
  /\ \A a, b \in Int \X Int : \/ Abstract!KeyLess(a, b) \/ a = b \/ Abstract!KeyLess(b, a)
  /\ \A a, b \in Int \X Int : Abstract!KeyLess(a, b) => a # b /\ ~Abstract!KeyLess(b, a)
  /\ \A a, b, c \in Int \X Int :
       Abstract!KeyLess(a, b) /\ Abstract!KeyLess(b, c) => Abstract!KeyLess(a, c)
BY DEF Abstract!KeyLess

NotAfter(a, b) == Abstract!KeyLess(a, b) \/ a = b

\* The second pass keeps what the first one did wherever its own keys are equal.
LEMMA SortedOrderSorts ==
  ASSUME NEW N \in Nat, NEW base, \A i \in Region(N) : base[i] \in Int \X Int
  PROVE  /\ SortedOrder(base, N) \in [Region(N) -> Region(N)]
         /\ \A i \in Region(N) : \E r \in Region(N) : SortedOrder(base, N)[r] = i
         /\ \A r, s \in Region(N) :
              r < s => NotAfter(base[SortedOrder(base, N)[r]], base[SortedOrder(base, N)[s]])
<1> DEFINE k1 == ExtractField(base, N, 2)
           p1 == Pass(k1, N)
           k2 == GatherField(base, p1, N, 1)
           p2 == Pass(k2, N)
<1>1. k1 \in [Region(N) -> Int] /\ \A i \in Region(N) : k1[i] = base[i][2]
  BY DEF ExtractField
<1>2. /\ p1 \in [Region(N) -> Region(N)]
      /\ \A i \in Region(N) : \E r \in Region(N) : p1[r] = i
      /\ \A r, s \in Region(N) : r < s => Before(k1, p1[r], p1[s])
  <2> HIDE DEF k1
  <2> QED BY <1>1, PassSorts
<1>3. SortPairs(k1, InitIndices(N), N) = p1
  <2>1. SortPairs(k1, InitIndices(N), N) = [r \in Region(N) |-> InitIndices(N)[p1[r]]]
    BY SortPairsIsPass
  <2>2. \A r \in Region(N) : InitIndices(N)[p1[r]] = p1[r]
    BY <1>2 DEF InitIndices
  <2> HIDE DEF p1
  <2> QED BY <1>2, <2>1, <2>2
<1> HIDE DEF p1, k1
<1>4. k2 \in [Region(N) -> Int] /\ \A i \in Region(N) : k2[i] = base[p1[i]][1]
  BY <1>2 DEF GatherField
<1>5. /\ p2 \in [Region(N) -> Region(N)]
      /\ \A i \in Region(N) : \E r \in Region(N) : p2[r] = i
      /\ \A r, s \in Region(N) : r < s => Before(k2, p2[r], p2[s])
  <2> HIDE DEF k2
  <2> QED BY <1>4, PassSorts
<1>6. SortedOrder(base, N) = [r \in Region(N) |-> p1[p2[r]]]
  BY <1>3, SortPairsIsPass DEF SortedOrder, p1, k1
<1> HIDE DEF p2, k2
<1>7. \A i \in Region(N) : \E r \in Region(N) : p1[p2[r]] = i
  BY <1>2, <1>5
<1>8. ASSUME NEW r \in Region(N), NEW s \in Region(N), r < s
      PROVE  NotAfter(base[p1[p2[r]]], base[p1[p2[s]]])
  <2> DEFINE a == base[p1[p2[r]]]
             b == base[p1[p2[s]]]
  <2>1. a \in Int \X Int /\ b \in Int \X Int
    BY <1>2, <1>5
  <2>2. Before(k2, p2[r], p2[s])
    BY <1>5, <1>8
  <2>3. a[1] < b[1] \/ (a[1] = b[1] /\ p2[r] < p2[s])
    BY <1>4, <1>5, <2>2 DEF Before
  <2>4. p2[r] < p2[s] => Before(k1, p1[p2[r]], p1[p2[s]])
    BY <1>2, <1>5
  <2>5. k1[p1[p2[r]]] = a[2] /\ k1[p1[p2[s]]] = b[2]
    BY <1>1, <1>2, <1>5
  <2>6. ASSUME p2[r] < p2[s] PROVE a[2] <= b[2]
    <3>1. a[2] \in Int /\ b[2] \in Int
      BY <2>1
    <3> QED BY <2>4, <2>5, <2>6, <3>1 DEF Before
  <2> HIDE DEF a, b
  <2>7. NotAfter(a, b)
    BY <2>1, <2>3, <2>6 DEF NotAfter, Abstract!KeyLess
  <2> QED BY <2>7 DEF a, b
<1> QED BY <1>2, <1>5, <1>6, <1>7, <1>8

-----------------------------------------------------------------------------
(* Duplicate flags and output positions. Arguments over all places of a    *)
(* region go by the least counterexample.                                  *)

(* A set of numbers that is not empty has a least one.                     *)
LEMMA Least ==
  ASSUME NEW T \in SUBSET Nat, T # {}
  PROVE  \E m \in T : \A n \in T : m <= n
<1>1. PICK m \in T : \A n \in T : ~(<<n, m>> \in OpToRel(<, Nat))
  BY NatLessThanWellFounded, WFMin
<1>2. \A n \in T : ~(n < m)
  BY <1>1 DEF OpToRel
<1> QED BY <1>2

InOrder(s, N) ==
  /\ \A i \in Region(N) : s[i] \in Int \X Int
  /\ \A i, j \in Region(N) : i < j => NotAfter(s[i], s[j])

Flags(s, N) == [i \in Region(N) |-> i > 0 /\ s[i - 1] = s[i]]
Kept(flags, N) == {i \in Region(N) : ~flags[i]}

\* A record that is kept is larger than every one before it.
LEMMA KeptIsLarger ==
  ASSUME NEW N \in Nat, NEW s, InOrder(s, N)
  PROVE  \A i \in Region(N) : \A j \in Kept(Flags(s, N), N) :
           i < j => Abstract!KeyLess(s[i], s[j])
<1> SUFFICES ASSUME NEW i \in Region(N), NEW j \in Kept(Flags(s, N), N), i < j
             PROVE  Abstract!KeyLess(s[i], s[j])
  OBVIOUS
<1>1. j \in Region(N) /\ j > 0 /\ s[j - 1] # s[j] /\ j - 1 \in Region(N)
  <2>1. j \in Region(N) /\ ~(j > 0 /\ s[j - 1] = s[j])
    BY DEF Kept, Flags
  <2>2. j > 0 /\ j - 1 \in Region(N)
    BY <2>1 DEF Region
  <2> QED BY <2>1, <2>2
<1>2. i < j - 1 \/ i = j - 1
  BY <1>1 DEF Region
<1>3. NotAfter(s[j - 1], s[j]) /\ (i < j - 1 => NotAfter(s[i], s[j - 1]))
  BY <1>1 DEF InOrder, Region
<1>4. Abstract!KeyLess(s[j - 1], s[j])
  BY <1>1, <1>3 DEF NotAfter
<1>5. s[i] \in Int \X Int /\ s[j] \in Int \X Int /\ s[j - 1] \in Int \X Int
  BY <1>1 DEF InOrder
<1>6. s[i] = s[j - 1] \/ Abstract!KeyLess(s[i], s[j - 1])
  BY <1>2, <1>3 DEF NotAfter
<1> QED BY <1>4, <1>5, <1>6, KeyOrder

\* Every value is kept at the first place that has it.
LEMMA EachValueKept ==
  ASSUME NEW N \in Nat, NEW s, NEW i \in Region(N)
  PROVE  \E j \in Kept(Flags(s, N), N) : s[j] = s[i]
<1> DEFINE T == {j \in Region(N) : s[j] = s[i]}
<1>1. T \in SUBSET Nat /\ T # {}
  BY DEF Region
<1>2. PICK m \in T : \A n \in T : m <= n
  BY <1>1, Least
<1>3. ~(m > 0 /\ s[m - 1] = s[m])
  <2>1. SUFFICES ASSUME m > 0, s[m - 1] = s[m] PROVE FALSE
    OBVIOUS
  <2>2. m - 1 \in Region(N) /\ m \in Int
    BY <2>1 DEF Region
  <2>3. m - 1 \in T
    BY <2>1, <2>2
  <2> QED BY <1>2, <2>2, <2>3
<1> QED BY <1>3 DEF Kept, Flags

\* The output positions of the kept records are 0, 1, 2, ... in their order.
LEMMA OutPosOrder ==
  ASSUME NEW N \in Nat, NEW flags
  PROVE  /\ OutPos(flags, N) = Cardinality(Kept(flags, N)) /\ OutPos(flags, N) \in 0..N
         /\ \A i \in Kept(flags, N) : OutPos(flags, i) \in Region(OutPos(flags, N))
         /\ \A i, j \in Kept(flags, N) : i < j => OutPos(flags, i) < OutPos(flags, j)
<1> DEFINE K(i) == {j \in Region(i) : ~flags[j]}
<1>1. Kept(flags, N) = K(N) /\ \A i : OutPos(flags, i) = Cardinality(K(i))
  BY DEF Kept, OutPos
<1>2. \A i \in 0..N : IsFiniteSet(K(i)) /\ Cardinality(K(i)) \in 0..i
  BY RegionFinite
<1>3. ASSUME NEW i \in K(N), NEW j \in 0..N, i < j
      PROVE  Cardinality(K(i)) < Cardinality(K(j))
  <2>1. i \in K(j) /\ i \notin K(i) /\ K(i) \subseteq K(j) /\ i \in 0..N
    BY <1>3 DEF Region
  <2>2. Cardinality(K(i) \cup {i}) = Cardinality(K(i)) + 1
    BY <1>2, <2>1, FS_AddElement
  <2>3. K(i) \cup {i} \subseteq K(j)
    BY <2>1
  <2>4. IsFiniteSet(K(j)) /\ Cardinality(K(j)) \in Nat /\ Cardinality(K(i)) \in Nat
    BY <1>2, <2>1
  <2>5. Cardinality(K(i) \cup {i}) <= Cardinality(K(j))
    BY <2>3, <2>4, FS_Subset
  <2> HIDE DEF K
  <2> QED BY <2>2, <2>4, <2>5
<1>4. \A i \in K(N) : i \in 0..N /\ i < N
  BY DEF Region
<1>5. Cardinality(K(N)) \in 0..N /\ \A i \in K(N) : Cardinality(K(i)) \in Nat
  BY <1>2, <1>4
<1> HIDE DEF K
<1>6. \A i \in K(N) : Cardinality(K(i)) \in Region(Cardinality(K(N)))
  BY <1>3, <1>4, <1>5 DEF Region
<1> QED BY <1>1, <1>3, <1>4, <1>5, <1>6

(* Every output slot is some kept element's.                               *)
LEMMA OutPosTaken ==
  ASSUME NEW N \in Nat, NEW flags, NEW k \in Region(OutPos(flags, N))
  PROVE  \E i \in Kept(flags, N) : OutPos(flags, i) = k
<1> DEFINE U == Kept(flags, N)
           C == Region(OutPos(flags, N))
           f == [i \in U |-> OutPos(flags, i)]
<1>1. f \in [U -> C]
  BY OutPosOrder
<1>2. \A i, j \in U : i # j => f[i] # f[j]
  <2>1. \A i \in U : i \in Int /\ OutPos(flags, i) \in Int
    <3>1. \A n : \A i \in Region(n) : i \in Int
      BY DEF Region
    <3>2. \A i \in U : i \in Region(N)
      BY DEF Kept
    <3> QED BY <3>1, <3>2, OutPosOrder
  <2> HIDE DEF U
  <2>2. \A i, j \in U : i < j => OutPos(flags, i) < OutPos(flags, j)
    BY OutPosOrder DEF U
  <2> QED BY <2>1, <2>2
<1>3. f \in Injection(U, C)
  BY <1>1, <1>2 DEF Injection, IsInjective
<1>4. IsFiniteSet(U) /\ IsFiniteSet(C) /\ Cardinality(U) = Cardinality(C)
  <2>1. OutPos(flags, N) \in Nat
    BY OutPosOrder
  <2>2. U \in SUBSET Region(N)
    BY DEF Kept
  <2> QED BY <2>1, <2>2, OutPosOrder, RegionFinite
<1>5. f \in Surjection(U, C)
  BY <1>3, <1>4, FS_Injection
<1> QED BY <1>5 DEF Surjection

-----------------------------------------------------------------------------
(* What SortAndDedupRegion leaves in the gather buffer.                    *)

\* Places from off on hold the values of base once each, ascending; the other
\* slots are as they were.
Gathered(R, base, N, out, off) ==
  /\ R.count \in 0..N
  /\ \A k \in Region(R.count) : \E i \in Region(N) : R.out[off + k] = base[i]
  /\ \A i \in Region(N) : \E k \in Region(R.count) : R.out[off + k] = base[i]
  /\ \A k, l \in Region(R.count) :
       k < l => Abstract!KeyLess(R.out[off + k], R.out[off + l])
  /\ R.out = [k \in Slots |-> R.out[k]]
  /\ \A k \in Slots : k < off \/ k >= off + R.count => R.out[k] = out[k]

\* SortAndDedupRegion: whatever the region holds and however many records.
THEOREM RegionSorted ==
  ASSUME NEW N \in Nat, NEW base, \A i \in Region(N) : base[i] \in Int \X Int,
         NEW out, NEW off \in Nat, off + N <= Capacity
  PROVE  Gathered(SortAndDedupRegion(base, N, out, off), base, N, out, off)
<1> DEFINE perm == SortedOrder(base, N)
           s == [i \in Region(N) |-> base[perm[i]]]
           flags == MarkDupFlags(base, perm, N)
           C == OutPos(flags, N)
           U == Kept(flags, N)
           got == Compact(base, perm, flags, N, out, off)
<1> HIDE DEF perm
<1>1. /\ perm \in [Region(N) -> Region(N)]
      /\ \A i \in Region(N) : \E r \in Region(N) : perm[r] = i
      /\ \A r, t \in Region(N) : r < t => NotAfter(base[perm[r]], base[perm[t]])
  BY SortedOrderSorts DEF perm
<1>2. InOrder(s, N)
  BY <1>1 DEF InOrder
<1>3. flags = Flags(s, N)
  <2>1. \A i \in Region(N) : i > 0 => i - 1 \in Region(N)
    BY DEF Region
  <2>2. \A i \in Region(N) : (i > 0 /\ base[perm[i - 1]] = base[perm[i]])
                               <=> (i > 0 /\ s[i - 1] = s[i])
    BY <2>1
  <2> QED BY <2>2 DEF MarkDupFlags, Flags
<1>4. \A i \in U : i \in Region(N) /\ ~flags[i] /\ s[i] = base[perm[i]]
  BY DEF Kept
<1> HIDE DEF s, flags
<1>5. C \in 0..N /\ \A i \in U : OutPos(flags, i) \in Region(C)
  BY OutPosOrder
<1>6. \A i, j \in U : OutPos(flags, i) = OutPos(flags, j) => i = j
  <2>1. \A i \in U : i \in Int /\ OutPos(flags, i) \in Int
    BY <1>4, <1>5 DEF Region
  <2>2. \A i, j \in U : i < j => OutPos(flags, i) < OutPos(flags, j)
    BY OutPosOrder
  <2> HIDE DEF U
  <2> QED BY <2>1, <2>2
<1>7. \A k \in Region(C) : \E i \in U : OutPos(flags, i) = k
  BY OutPosTaken
<1>8. \A i \in Region(N) : ~flags[i] => i \in U
  BY DEF Kept
<1>9. ASSUME NEW i \in U PROVE got[off + OutPos(flags, i)] = s[i]
  <2> DEFINE k == off + OutPos(flags, i)
  <2>1. k \in Slots /\ OutPos(flags, i) \in Int
    <3>1. OutPos(flags, i) \in 0..C - 1
      BY <1>5 DEF Region
    <3> HIDE DEF U
    <3> QED BY <1>5, <3>1, AccumulatorAssumption DEF Slots
  <2>2. \A j \in Region(N) : ~flags[j] /\ off + OutPos(flags, j) = k => j = i
    <3>1. \A j \in U : OutPos(flags, j) \in Int
      BY <1>5 DEF Region
    <3>2. \A m, n \in Int : off + m = off + n => m = n
      OBVIOUS
    <3>3. \A j \in U : off + OutPos(flags, j) = k => OutPos(flags, j) = OutPos(flags, i)
      BY <2>1, <3>1, <3>2
    <3> QED BY <1>6, <1>8, <3>3
  <2>3. i \in Region(N) /\ ~flags[i] /\ off + OutPos(flags, i) = k
    BY <1>4
  <2> DEFINE Here(j) == ~flags[j] /\ off + OutPos(flags, j) = k
  <2>4. i = CHOOSE j \in Region(N) : Here(j)
    BY <2>2, <2>3
  <2>5. got[k] = base[perm[CHOOSE j \in Region(N) : Here(j)]]
    BY <2>1, <2>3 DEF Compact
  <2> QED BY <1>4, <2>4, <2>5
<1>10. got = [k \in Slots |-> got[k]]
  BY DEF Compact
<1>11. ASSUME NEW k \in Slots, k < off \/ k >= off + C PROVE got[k] = out[k]
  <2>1. ASSUME NEW i \in U PROVE off + OutPos(flags, i) # k
    <3>1. OutPos(flags, i) \in 0..C - 1
      BY <1>5 DEF Region
    <3> HIDE DEF U
    <3> QED BY <1>5, <1>11, <3>1 DEF Slots
  <2>2. ~\E i \in Region(N) : ~flags[i] /\ off + OutPos(flags, i) = k
    BY <1>8, <2>1
  <2> QED BY <2>2 DEF Compact
<1> HIDE DEF got
<1>12. \A k \in Region(C) : \E i \in Region(N) : got[off + k] = base[i]
  BY <1>1, <1>4, <1>7, <1>9
<1>13. ASSUME NEW i \in Region(N) PROVE \E k \in Region(C) : got[off + k] = base[i]
  <2>1. PICK r \in Region(N) : perm[r] = i
    BY <1>1
  <2>2. s[r] = base[i]
    BY <2>1 DEF s
  <2>3. PICK j \in U : s[j] = s[r]
    BY <1>3, EachValueKept
  <2> QED BY <1>5, <1>9, <2>2, <2>3
<1>14. ASSUME NEW k \in Region(C), NEW l \in Region(C), k < l
       PROVE  Abstract!KeyLess(got[off + k], got[off + l])
  <2>1. PICK i \in U : OutPos(flags, i) = k
    BY <1>7
  <2>2. PICK j \in U : OutPos(flags, j) = l
    BY <1>7
  <2>3. i < j
    <3>1. i \in Int /\ j \in Int /\ k \in Int /\ l \in Int
      BY <1>4 DEF Region
    <3>2. j < i => l < k
      BY <2>1, <2>2, OutPosOrder
    <3>3. i # j
      BY <1>14, <2>1, <2>2, <3>1
    <3> HIDE DEF U
    <3> QED BY <1>14, <3>1, <3>2, <3>3
  <2>4. Abstract!KeyLess(s[i], s[j])
    BY <1>2, <1>3, <1>4, <2>3, KeptIsLarger
  <2> QED BY <1>9, <2>1, <2>2, <2>4
<1>15. SortAndDedupRegion(base, N, out, off) = [out |-> got, count |-> C]
  BY DEF SortAndDedupRegion, perm, flags, got
<1> HIDE DEF C
<1> QED BY <1>5, <1>10, <1>11, <1>12, <1>13, <1>14, <1>15 DEF Gathered

-----------------------------------------------------------------------------
(* A set of records has one ascending enumeration, so what is read back is *)
(* the one the abstract specification names.                               *)

(* If each key is below the next, each is below all the later ones.        *)
LEMMA AscendingThroughout ==
  ASSUME NEW n \in Nat, NEW t \in [1..n -> Int \X Int], Abstract!Ascending(t)
  PROVE  \A i, j \in 1..n : i < j => Abstract!KeyLess(t[i], t[j])
<1>1. \A i \in 1..n : i + 1 \in 1..n => Abstract!KeyLess(t[i], t[i + 1])
  <2>1. Len(t) = n
    OBVIOUS
  <2>2. \A i \in 1..n : i + 1 \in 1..n => i \in 1..n - 1
    OBVIOUS
  <2> QED BY <2>1, <2>2 DEF Abstract!Ascending
<1>2. SUFFICES ASSUME NEW i \in 1..n,
                      {j \in 1..n : i < j /\ ~Abstract!KeyLess(t[i], t[j])} # {}
               PROVE  FALSE
  OBVIOUS
<1> DEFINE T == {j \in 1..n : i < j /\ ~Abstract!KeyLess(t[i], t[j])}
<1>3. PICK m \in T : \A j \in T : m <= j
  <2>1. T \in SUBSET Nat /\ T # {}
    BY <1>2
  <2> QED BY <2>1, Least
<1>4. i < m /\ m \in 1..n /\ ~Abstract!KeyLess(t[i], t[m])
  OBVIOUS
<1>5. m - 1 \in 1..n /\ (m - 1) + 1 = m /\ ~(m <= m - 1) /\ (i < m - 1 \/ i = m - 1)
  BY <1>4
<1>6. Abstract!KeyLess(t[m - 1], t[m])
  BY <1>1, <1>4, <1>5
<1>7. t[i] = t[m - 1] \/ Abstract!KeyLess(t[i], t[m - 1])
  BY <1>3, <1>5
<1>8. t[i] \in Int \X Int /\ t[m] \in Int \X Int /\ t[m - 1] \in Int \X Int
  BY <1>4, <1>5
<1> QED BY <1>4, <1>6, <1>7, <1>8, KeyOrder

(* Only one ascending sequence has these elements.                         *)
LEMMA SortedIsUnique ==
  ASSUME NEW n \in Nat, NEW s \in [1..n -> Int \X Int],
         \A i, j \in 1..n : i < j => Abstract!KeyLess(s[i], s[j])
  PROVE  s = Abstract!Sorted({s[i] : i \in 1..n})
<1> DEFINE S == {s[i] : i \in 1..n}
<1>1. s \in [1..n -> S] /\ \A i, j \in 1..n : i # j => s[i] # s[j]
  <2>1. \A i, j \in 1..n : i # j => i < j \/ j < i
    OBVIOUS
  <2> QED BY <2>1, KeyOrder
<1>2. IsFiniteSet(S) /\ Cardinality(S) = n
  <2>1. s \in Bijection(1..n, S)
    BY <1>1 DEF Bijection, Injection, Surjection, IsInjective
  <2>2. ExistsBijection(1..n, S)
    BY <2>1 DEF ExistsBijection
  <2> QED BY <2>2, FS_CountingElements, FS_NatBijection
<1>3. Abstract!Ascending(s)
  <2>1. Len(s) = n /\ \A i \in 1..n - 1 : i \in 1..n /\ i + 1 \in 1..n /\ i < i + 1
    OBVIOUS
  <2> QED BY <2>1 DEF Abstract!Ascending
<1>4. ASSUME NEW t \in [1..n -> S], Abstract!Ascending(t) PROVE t = s
  <2>1. t \in [1..n -> Int \X Int]
    BY <1>1
  <2>2. \A i, j \in 1..n : i < j => Abstract!KeyLess(t[i], t[j])
    BY <1>4, <2>1, AscendingThroughout
  <2>3. \A i, j \in 1..n : i # j => t[i] # t[j]
    <3>1. \A i, j \in 1..n : i # j => i < j \/ j < i
      OBVIOUS
    <3> QED BY <2>1, <2>2, <3>1, KeyOrder
  <2>4. \A v \in S : \E j \in 1..n : t[j] = v
    <3>1. t \in Injection(1..n, S)
      BY <2>3 DEF Injection, IsInjective
    <3>2. IsFiniteSet(1..n) /\ Cardinality(1..n) = n
      BY FS_Interval
    <3>3. t \in Surjection(1..n, S)
      BY <1>2, <3>1, <3>2, FS_Injection
    <3> QED BY <3>3 DEF Surjection
  <2> DEFINE T == {i \in 1..n : s[i] # t[i]}
  <2>5. SUFFICES ASSUME T # {} PROVE FALSE
    <3>1. ASSUME T = {} PROVE t = s
      <4>1. \A i \in 1..n : t[i] = s[i]
        BY <3>1
      <4> QED BY <1>1, <4>1
    <3> QED BY <3>1
  <2>6. PICK i \in T : \A j \in T : i <= j
    <3>1. T \in SUBSET Nat
      OBVIOUS
    <3> QED BY <2>5, <3>1, Least
  <2>7. \A j \in 1..n : j < i => s[j] = t[j]
    BY <2>6
  <2>8. \A j \in 1..n : j = i \/ j < i \/ i < j
    OBVIOUS
  <2>9. PICK j \in 1..n : t[j] = s[i]
    BY <2>4
  <2>10. PICK k \in 1..n : s[k] = t[i]
    OBVIOUS
  <2>11. i \in 1..n /\ s[i] # t[i] /\ s[i] \in Int \X Int /\ t[i] \in Int \X Int
    BY <2>1
  <2>12. CASE Abstract!KeyLess(s[i], t[i])
    <3>1. j < i
      BY <2>2, <2>8, <2>9, <2>11, <2>12, KeyOrder
    <3> QED BY <1>1, <2>7, <2>9, <2>11, <3>1
  <2>13. CASE Abstract!KeyLess(t[i], s[i])
    <3>1. k < i
      BY <2>8, <2>10, <2>11, <2>13, KeyOrder
    <3> QED BY <2>3, <2>7, <2>10, <2>11, <3>1
  <2> QED BY <2>11, <2>12, <2>13, KeyOrder
<1> HIDE DEF S
<1> DEFINE IsIt(t) == Abstract!Ascending(t)
<1>5. s = CHOOSE t \in [1..Cardinality(S) -> S] : IsIt(t)
  <2>1. IsIt(s) /\ \A t \in [1..Cardinality(S) -> S] : IsIt(t) => t = s
    BY <1>2, <1>3, <1>4
  <2>2. s \in [1..Cardinality(S) -> S]
    BY <1>1, <1>2
  <2> HIDE DEF IsIt
  <2> QED BY <2>1, <2>2
<1>6. Abstract!Cardinality(S) = Cardinality(S)
  BY Zenon DEF Abstract!Cardinality, Cardinality
<1>7. s = Abstract!Sorted(S)
  BY <1>5, <1>6, Zenon DEF Abstract!Sorted
<1> QED BY <1>7 DEF S

Enumerates(g, off, n, V) ==
  /\ n \in Nat /\ off \in Nat /\ V \in SUBSET (Int \X Int)
  /\ \A k \in Region(n) : g[off + k] \in V
  /\ \A v \in V : \E k \in Region(n) : g[off + k] = v
  /\ \A k, l \in Region(n) : k < l => Abstract!KeyLess(g[off + k], g[off + l])

Segment(g, off, n) == [i \in 1..n |-> g[off + 0 + i - 1]]

\* Reading a gathered region from its first place to its last gives that enumeration.
LEMMA ReadIsSorted ==
  ASSUME NEW g, NEW off, NEW n, NEW V, Enumerates(g, off, n, V)
  PROVE  Segment(g, off, n) = Abstract!Sorted(V)
<1> USE DEF Enumerates
<1> DEFINE s == [i \in 1..n |-> g[off + 0 + i - 1]]
<1>1. \A i \in 1..n : i - 1 \in Region(n) /\ off + 0 + i - 1 = off + (i - 1)
  BY DEF Region
<1>2. \A k \in Region(n) : k + 1 \in 1..n /\ off + 0 + (k + 1) - 1 = off + k
  BY DEF Region
<1>3. s \in [1..n -> Int \X Int] /\ \A i \in 1..n : s[i] \in V /\ s[i] = g[off + (i - 1)]
  BY <1>1
<1>4. \A i, j \in 1..n : i < j => Abstract!KeyLess(s[i], s[j])
  <2>1. \A i, j \in 1..n : i < j => i - 1 < j - 1
    OBVIOUS
  <2> QED BY <1>1, <1>3, <2>1
<1>5. {s[i] : i \in 1..n} = V
  <2>1. ASSUME NEW v \in V PROVE \E i \in 1..n : s[i] = v
    <3>1. PICK k \in Region(n) : g[off + k] = v
      OBVIOUS
    <3>2. s[k + 1] = v
      BY <1>2, <3>1
    <3> QED BY <1>2, <3>2
  <2> QED BY <1>3, <2>1
<1> HIDE DEF s
<1>6. s = Abstract!Sorted({s[i] : i \in 1..n})
  BY <1>3, <1>4, SortedIsUnique
<1> QED BY <1>5, <1>6 DEF s, Segment


Thread == [pc : {"start", "claim", "store", "done"}, made : Nat, slot : Int]

TypeInv ==
  /\ TypeOK
  /\ threads \in [DOMAIN threads -> Thread]
  /\ received = [p \in Players |-> received[p]]

\* A board is in one place; a flush concerns the boards of the window; the
\* kernel's state exists only while it runs.
BatchInv ==
  /\ unread \cap batch = {} /\ unread \cap window = {} /\ batch \cap window = {}
  /\ Cardinality(batch) <= BatchSize
  /\ DOMAIN threads \subseteq window
  /\ phase # "kernel" => DOMAIN threads = {} /\ writePos = writeOffset
  /\ phase # "prepared" => received = Nothing
  /\ phase # "read" => window # {}
  /\ window = {} => writeOffset = Zeros /\ batchStats = NoStats

ThreadInv ==
  \A b \in DOMAIN threads :
    /\ threads[b].pc = "start" => threads[b].made = 0
    /\ threads[b].pc = "store" => threads[b].made < Len(Children(b))
    /\ threads[b].pc = "done" => threads[b].made = Len(Children(b))

\* Slots are claimed one per move of a board, so the room HasRoom saw before
\* the launch is enough for all of them.
Taken(b) == IF threads[b].pc = "store" THEN threads[b].made + 1 ELSE threads[b].made
Claims == {c \in (DOMAIN threads) \X (1..MaxMoves) : c[2] <= Taken(c[1])}

RoomInv ==
  /\ writeOffset[Black] + writeOffset[White] + Cardinality(DOMAIN threads) * MaxMoves
       <= Capacity
  /\ writePos[Black] + writePos[White]
       = writeOffset[Black] + writeOffset[White] + Cardinality(Claims)
  /\ \A p \in Players : writeOffset[p] <= writePos[p]

SlotInv ==
  \A b \in Writing :
    /\ writeOffset[Kid(b).player] <= threads[b].slot
    /\ threads[b].slot < writePos[Kid(b).player]
    /\ \A c \in Writing \ {b} :
         Kid(b).player = Kid(c).player => threads[b].slot # threads[c].slot

\* The counters hold what the threads that got that far have added.
Looked == {b \in window : b \in DOMAIN threads => threads[b].pc # "start"}
Finished == {b \in window : b \in DOMAIN threads => threads[b].pc = "done"}

StatsInv ==
  /\ batchStats.pass = Cardinality({b \in Looked : Expansion[b].kind = "pass"})
  /\ batchStats.terminal = Cardinality({b \in Looked : Expansion[b].kind = "terminal"})
  /\ batchStats.maxMoves \in {0} \cup {Len(Children(b)) : b \in Finished}
  /\ \A b \in Finished : Len(Children(b)) <= batchStats.maxMoves
  /\ phase = "prepared" => hostStats = batchStats

\* After the preparation the gather buffer holds both sorted sets, and nothing
\* else has been read.
FlushInv ==
  phase = "prepared" =>
    \A p \in Players :
      /\ Read(p, 0, unique[p]) = Abstract!Sorted(Stored(p) \cup Pending(p))
      /\ received[p] \in {<<>>, Read(p, 0, unique[p])}

GpuInv ==
  TypeInv /\ BatchInv /\ ThreadInv /\ RoomInv /\ SlotInv /\ StatsInv /\ FlushInv

-----------------------------------------------------------------------------
(* The constants, and what a step of a thread does to it.                  *)

(* An element of a sequence is of the sequence's kind.                     *)
LEMMA Element ==
  ASSUME NEW S, NEW s \in Seq(S), NEW i \in 1..Len(s)
  PROVE  s[i] \in S
OBVIOUS

(* What the expansion of a parent can be.                                  *)
LEMMA Boards ==
  ASSUME NEW b \in Parents
  PROVE  /\ Children(b) \in Seq([player : Players, key : Int \X Int])
         /\ Len(Children(b)) \in 0..MaxMoves
         /\ Expansion[b].kind = "terminal" <=> Len(Children(b)) = 0
         /\ \A i \in 1..Len(Children(b)) :
              /\ Children(b)[i].player \in Players
              /\ Children(b)[i].key \in Keys
<1>1. Children(b) \in Seq([player : Players, key : Int \X Int])
  BY AccumulatorAssumption DEF Children
<1>2. /\ Len(Children(b)) <= MaxMoves /\ Len(Children(b)) \in Nat /\ MaxMoves \in Nat
      /\ Expansion[b].kind = "terminal" <=> Children(b) = <<>>
  BY <1>1, AccumulatorAssumption DEF Children
<1>3. Children(b) = <<>> <=> Len(Children(b)) = 0
  BY <1>1
<1>4. ASSUME NEW i \in 1..Len(Children(b))
      PROVE  Children(b)[i].player \in Players /\ Children(b)[i].key \in Keys
  <2>1. Children(b)[i] \in [player : Players, key : Int \X Int]
    BY <1>1, Element
  <2>2. Children(b)[i] \in Range(Children(b))
    BY <1>1 DEF Range
  <2> QED BY <2>1, <2>2 DEF Keys
<1> QED BY <1>1, <1>2, <1>3, <1>4

(* Keys and junk are pairs of numbers.                                     *)
LEMMA KeysAreRecords == Keys \cup {Junk} \subseteq Int \X Int
<1>1. ASSUME NEW b \in Parents, NEW c \in Range(Children(b)) PROVE c.key \in Int \X Int
  <2>1. Children(b) \in Seq([player : Players, key : Int \X Int])
    BY Boards
  <2>2. PICK i \in 1..Len(Children(b)) : c = Children(b)[i]
    BY <2>1 DEF Range
  <2>3. c \in [player : Players, key : Int \X Int]
    BY <2>1, <2>2, Element
  <2> QED BY <2>3
<1> QED BY <1>1 DEF Keys, Junk

(* The sizes fit each other: a batch's children fit into the accumulator.  *)
LEMMA Sizes ==
  /\ BatchSize \in Nat /\ MaxMoves \in Nat /\ Capacity \in Nat /\ Capacity > 0
  /\ BatchSize * MaxMoves <= Capacity
  /\ \A n \in 0..BatchSize : n * MaxMoves <= Capacity
  /\ White \in Players /\ Black \in Players /\ White # Black
<1>1. BatchSize \in Nat /\ MaxMoves \in Nat /\ Capacity \in Nat /\ Capacity > 0
  BY AccumulatorAssumption
<1>2. BatchSize * MaxMoves <= Capacity
  BY AccumulatorAssumption
<1>3. ASSUME NEW n \in 0..BatchSize PROVE n * MaxMoves <= Capacity
  <2>1. n * MaxMoves <= BatchSize * MaxMoves
    <3> DEFINE d == BatchSize - n
    <3>1. d \in Nat /\ BatchSize = n + d
      BY <1>1
    <3>2. d * MaxMoves \in Nat
      BY <1>1, <3>1
    <3> HIDE DEF d
    <3>3. BatchSize * MaxMoves = n * MaxMoves + d * MaxMoves
      BY <1>1, <3>1
    <3>4. n * MaxMoves \in Nat
      BY <1>1
    <3> QED BY <3>2, <3>3, <3>4
  <2>2. n * MaxMoves \in Int /\ BatchSize * MaxMoves \in Int
    BY <1>1
  <2> QED BY <1>1, <1>2, <2>1, <2>2
<1> QED BY <1>1, <1>2, <1>3 DEF Players, White, Black

\* Parts of TypeInv in the form the proofs use.
LEMMA Types ==
  ASSUME TypeInv
  PROVE  /\ \A p \in Players : /\ writePos[p] \in 0..Capacity
                               /\ writeOffset[p] \in 0..Capacity
                               /\ unique[p] \in 0..Capacity
         /\ \A b \in DOMAIN threads : threads[b] \in Thread
         /\ \A i \in Slots : accum[i] \in Int \X Int
         /\ batchStats \in [pass : Nat, terminal : Nat, maxMoves : 0..MaxMoves]
BY KeysAreRecords DEF TypeInv, TypeOK

OnlyThread(b) ==
  /\ DOMAIN threads' = DOMAIN threads
  /\ \A c \in DOMAIN threads : c # b => threads'[c] = threads[c]
  /\ threads' \in [DOMAIN threads' -> Thread]

(* A step of one kernel thread moves that thread only.                     *)
LEMMA ThreadMoves ==
  ASSUME TypeInv, NEW b \in DOMAIN threads, NEW t \in Thread,
         threads' = [threads EXCEPT ![b] = t]
  PROVE  OnlyThread(b) /\ threads'[b] = t
BY DEF OnlyThread, TypeInv

(* A thread looks whether its board has children,                          *)
LEMMA LookMoves ==
  ASSUME TypeInv, NEW b \in DOMAIN threads, Look(b)
  PROVE  /\ OnlyThread(b) /\ threads[b].pc = "start"
         /\ threads'[b].pc = IF Expansion[b].kind = "terminal" THEN "done" ELSE "claim"
         /\ threads'[b].made = threads[b].made /\ threads'[b].slot = threads[b].slot
<1>1. threads[b] \in Thread /\ threads \in [DOMAIN threads -> Thread]
  BY DEF TypeInv
<1>2. threads' = [threads EXCEPT ![b].pc = IF Expansion[b].kind = "terminal" THEN "done"
                                                                            ELSE "claim"]
  BY DEF Look
<1> QED BY <1>1, <1>2 DEF OnlyThread, Thread, Look

(* takes a slot with the atomic add,                                       *)
LEMMA ClaimMoves ==
  ASSUME TypeInv, NEW b \in DOMAIN threads, Claim(b), Kid(b).player \in Players
  PROVE  /\ OnlyThread(b) /\ threads[b].pc = "claim" /\ threads[b].made < Len(Children(b))
         /\ threads'[b].pc = "store" /\ threads'[b].made = threads[b].made
         /\ threads'[b].slot = writePos[Kid(b).player]
<1>1. threads[b] \in Thread /\ threads \in [DOMAIN threads -> Thread]
  BY DEF TypeInv
<1> DEFINE t == [threads[b] EXCEPT !.pc = "store", !.slot = writePos[Kid(b).player]]
<1>2. t \in Thread
  <2>1. \A r \in Thread : \A n \in Int : [r EXCEPT !.pc = "store", !.slot = n] \in Thread
    BY DEF Thread
  <2>2. writePos[Kid(b).player] \in Int
    BY Types
  <2> QED BY <1>1, <2>1, <2>2
<1>3. threads' = [threads EXCEPT ![b] = t]
  BY <1>1 DEF Claim
<1>4. OnlyThread(b) /\ threads'[b] = t
  BY <1>2, <1>3, ThreadMoves
<1>5. threads[b].pc = "claim" /\ threads[b].made < Len(Children(b))
  BY DEF Claim
<1> QED BY <1>1, <1>4, <1>5 DEF Thread

(* writes the child there,                                                 *)
LEMMA StoreMoves ==
  ASSUME TypeInv, NEW b \in DOMAIN threads, Store(b)
  PROVE  /\ OnlyThread(b) /\ threads[b].pc = "store"
         /\ threads'[b].pc = "claim" /\ threads'[b].made = threads[b].made + 1
         /\ threads'[b].slot = threads[b].slot
<1>1. threads[b] \in Thread /\ threads \in [DOMAIN threads -> Thread]
  BY DEF TypeInv
<1> DEFINE t == [threads[b] EXCEPT !.pc = "claim", !.made = @ + 1]
<1>2. t \in Thread
  <2>1. \A r \in Thread : [r EXCEPT !.pc = "claim", !.made = @ + 1] \in Thread
    <3>1. \A n \in Nat : n + 1 \in Nat
      OBVIOUS
    <3> QED BY <3>1 DEF Thread
  <2> QED BY <1>1, <2>1
<1>3. threads' = [threads EXCEPT ![b] = t]
  BY <1>1 DEF Store
<1>4. OnlyThread(b) /\ threads'[b] = t
  BY <1>2, <1>3, ThreadMoves
<1>5. threads[b].pc = "store"
  BY DEF Store
<1> QED BY <1>1, <1>4, <1>5 DEF Thread

(* and ends after the last child.                                          *)
LEMMA FinishMoves ==
  ASSUME TypeInv, NEW b \in DOMAIN threads, Finish(b)
  PROVE  /\ OnlyThread(b) /\ threads[b].pc = "claim"
         /\ threads[b].made = Len(Children(b))
         /\ threads'[b].pc = "done" /\ threads'[b].made = threads[b].made
         /\ threads'[b].slot = threads[b].slot
<1>1. threads[b] \in Thread /\ threads \in [DOMAIN threads -> Thread]
  BY DEF TypeInv
<1> DEFINE t == [threads[b] EXCEPT !.pc = "done"]
<1>2. t \in Thread
  BY <1>1 DEF Thread
<1>3. threads' = [threads EXCEPT ![b] = t]
  BY <1>1 DEF Finish
<1>4. OnlyThread(b) /\ threads'[b] = t
  BY <1>2, <1>3, ThreadMoves
<1>5. threads[b].pc = "claim" /\ threads[b].made = Len(Children(b))
  BY DEF Finish
<1> QED BY <1>1, <1>4, <1>5 DEF Thread

-----------------------------------------------------------------------------
(* Room: what the launch checked covers every claim of its threads.        *)

(* A running thread belongs to a board of the window that is being         *)
(* expanded.                                                               *)
LEMMA RunningThread ==
  ASSUME TypeInv, BatchInv, ThreadInv, NEW b \in DOMAIN threads
  PROVE  /\ phase = "kernel" /\ b \in window /\ b \in Parents /\ b \notin batch
         /\ threads[b].made \in Nat /\ Len(Children(b)) \in 0..MaxMoves
         /\ threads[b].made < Len(Children(b)) =>
              Kid(b).player \in Players /\ Kid(b).key \in Keys
         /\ threads[b].pc = "store" => threads[b].made < Len(Children(b))
<1>1. phase = "kernel" /\ b \in window /\ b \in Parents /\ b \notin batch
  BY DEF TypeInv, TypeOK, BatchInv
<1>2. threads[b].made \in Nat
  BY Types DEF Thread
<1>3. Len(Children(b)) \in 0..MaxMoves
  BY <1>1, Boards
<1>4. ASSUME threads[b].made < Len(Children(b))
      PROVE  Kid(b).player \in Players /\ Kid(b).key \in Keys
  <2>1. threads[b].made + 1 \in 1..Len(Children(b))
    BY <1>2, <1>3, <1>4
  <2> QED BY <1>1, <2>1, Boards DEF Kid
<1>5. threads[b].pc = "store" => threads[b].made < Len(Children(b))
  BY DEF ThreadInv
<1> QED BY <1>1, <1>2, <1>3, <1>4, <1>5

(* There are finitely many threads, and so many claims at most.            *)
LEMMA ThreadsFinite ==
  ASSUME TypeInv, BatchInv
  PROVE  /\ IsFiniteSet(DOMAIN threads) /\ Cardinality(DOMAIN threads) \in Nat
         /\ IsFiniteSet(Claims) /\ Cardinality(Claims) \in Nat
         /\ IsFiniteSet((DOMAIN threads) \X (1..MaxMoves))
         /\ Cardinality((DOMAIN threads) \X (1..MaxMoves)) = Cardinality(DOMAIN threads) * MaxMoves
<1>1. IsFiniteSet(DOMAIN threads)
  <2>1. DOMAIN threads \subseteq Parents
    BY DEF TypeInv, TypeOK, BatchInv
  <2> QED BY <2>1, AccumulatorAssumption, FS_Subset
<1>2. IsFiniteSet(1..MaxMoves) /\ Cardinality(1..MaxMoves) = MaxMoves
  BY Sizes, FS_Interval
<1>3. /\ IsFiniteSet((DOMAIN threads) \X (1..MaxMoves))
      /\ Cardinality((DOMAIN threads) \X (1..MaxMoves)) = Cardinality(DOMAIN threads) * MaxMoves
  BY <1>1, <1>2, FS_Product
<1>4. Claims \subseteq (DOMAIN threads) \X (1..MaxMoves)
  BY DEF Claims
<1>5. IsFiniteSet(Claims)
  BY <1>3, <1>4, FS_Subset
<1> QED BY <1>1, <1>3, <1>5, FS_CardinalityType

(* The two regions never meet.                                             *)
LEMMA RoomLeft ==
  ASSUME TypeInv, BatchInv, RoomInv
  PROVE  writePos[Black] + writePos[White] <= Capacity
<1>1. Claims \subseteq (DOMAIN threads) \X (1..MaxMoves)
  BY DEF Claims
<1>2. Cardinality(Claims) <= Cardinality((DOMAIN threads) \X (1..MaxMoves))
  BY <1>1, ThreadsFinite, FS_Subset
<1>3. Cardinality(Claims) <= Cardinality(DOMAIN threads) * MaxMoves
  BY <1>2, ThreadsFinite
<1>4. Cardinality(DOMAIN threads) * MaxMoves \in Int
  BY ThreadsFinite, Sizes
<1> QED BY <1>3, <1>4, Types, Sizes, ThreadsFinite DEF RoomInv

\* A thread about to claim has a claim left.
LEMMA RoomToClaim ==
  ASSUME TypeInv, BatchInv, ThreadInv, RoomInv, NEW b \in DOMAIN threads,
         threads[b].pc = "claim", threads[b].made < Len(Children(b))
  PROVE  /\ <<b, threads[b].made + 1>> \notin Claims
         /\ <<b, threads[b].made + 1>> \in (DOMAIN threads) \X (1..MaxMoves)
         /\ writePos[Black] + writePos[White] < Capacity
<1> DEFINE c == <<b, threads[b].made + 1>>
<1>1. c \in (DOMAIN threads) \X (1..MaxMoves)
  <2>1. threads[b].made + 1 \in 1..MaxMoves
    BY RunningThread, Sizes
  <2> QED BY <2>1
<1>2. c \notin Claims
  <2>1. ~(threads[b].made + 1 <= threads[b].made)
    BY RunningThread
  <2> QED BY <2>1 DEF Claims, Taken
<1>3. Claims \cup {c} \subseteq (DOMAIN threads) \X (1..MaxMoves)
  BY <1>1 DEF Claims
<1>4. Cardinality(Claims \cup {c}) = Cardinality(Claims) + 1
  BY <1>2, ThreadsFinite, FS_AddElement
<1>5. Cardinality(Claims \cup {c}) <= Cardinality(DOMAIN threads) * MaxMoves
  BY <1>3, ThreadsFinite, FS_Subset
<1>6. Cardinality(DOMAIN threads) * MaxMoves \in Int
  BY ThreadsFinite, Sizes
<1>7. writePos[Black] + writePos[White] < Capacity
  BY <1>4, <1>5, <1>6, Types, Sizes, ThreadsFinite DEF RoomInv
<1> QED BY <1>1, <1>2, <1>7

-----------------------------------------------------------------------------
(* Steps that leave the kernel's state alone, or end it.                   *)

(* A step outside the kernel keeps what is said of its threads and slots.  *)
LEMMA KernelIdle ==
  ASSUME ThreadInv, RoomInv, SlotInv, UNCHANGED <<threads, writePos, writeOffset>>
  PROVE  ThreadInv' /\ RoomInv' /\ SlotInv'
<1>1. ThreadInv'
  BY DEF ThreadInv
<1>2. Claims' = Claims
  BY DEF Claims, Taken
<1>3. RoomInv'
  BY <1>2 DEF RoomInv
<1>4. SlotInv'
  BY DEF SlotInv, Writing, Kid
<1> QED BY <1>1, <1>3, <1>4

(* When the kernel has ended nothing is left to say of its threads.        *)
LEMMA KernelOver ==
  ASSUME DOMAIN threads' = {}, writePos' = writeOffset',
         \A p \in Players : writeOffset'[p] \in Int,
         writeOffset'[Black] + writeOffset'[White] <= Capacity
  PROVE  ThreadInv' /\ RoomInv' /\ SlotInv'
<1>1. ThreadInv'
  BY DEF ThreadInv
<1>2. Claims' = {} /\ Cardinality({}) = 0
  BY FS_EmptySet DEF Claims
<1>3. Cardinality(DOMAIN threads') * MaxMoves = 0 /\ Cardinality(Claims') = 0
  BY <1>2, FS_EmptySet, Sizes
<1>4. RoomInv'
  BY <1>3, Sizes DEF RoomInv
<1>5. SlotInv'
  BY DEF SlotInv, Writing
<1> QED BY <1>1, <1>4, <1>5

(* A step that counts nothing keeps the counts.                            *)
LEMMA StatsIdle ==
  ASSUME StatsInv, UNCHANGED <<threads, window, batchStats, hostStats>>,
         phase' = "prepared" => phase = "prepared"
  PROVE  StatsInv'
<1>1. Looked' = Looked /\ Finished' = Finished
  BY DEF Looked, Finished
<1> QED BY <1>1 DEF StatsInv

\* BLFRead.
LEMMA ReadBatchStep ==
  ASSUME GpuInv, ReadBatch
  PROVE  GpuInv'
<1>1. PICK bs \in SUBSET unread : /\ Cardinality(bs) \in 1..BatchSize
                                  /\ batch' = bs /\ unread' = unread \ bs
  BY DEF ReadBatch
<1>2. phase = "read" /\ UNCHANGED <<device, host, phase, received, window>>
  BY DEF ReadBatch
<1>3. TypeInv'
  <2>1. unread' \subseteq Parents /\ batch' \subseteq Parents
    BY <1>1 DEF GpuInv, TypeInv, TypeOK
  <2> QED BY <1>2, <2>1 DEF GpuInv, TypeInv, TypeOK, device, host
<1>4. BatchInv'
  <2>1. Cardinality(batch') <= BatchSize
    BY <1>1, Sizes
  <2> QED BY <1>1, <1>2, <2>1 DEF GpuInv, BatchInv, device, host
<1>5. ThreadInv' /\ RoomInv' /\ SlotInv'
  BY <1>2, KernelIdle DEF GpuInv, device, host
<1>6. StatsInv'
  BY <1>2, StatsIdle DEF GpuInv, device, host
<1>7. FlushInv'
  BY <1>2 DEF FlushInv
<1> QED BY <1>3, <1>4, <1>5, <1>6, <1>7 DEF GpuInv

\* GpuProcessBatch up to the launch.
LEMMA ProcessBatchStep ==
  ASSUME GpuInv, ProcessBatch
  PROVE  GpuInv'
<1> USE DEF GpuInv
<1> DEFINE t == [pc |-> "start", made |-> 0, slot |-> -1]
<1>1. /\ phase = "read" /\ batch # {} /\ writePos' = writeOffset
      /\ threads' = [b \in batch |-> t]
      /\ phase' = "kernel" /\ batch' = {} /\ window' = window \cup batch
      /\ UNCHANGED <<host, unread, received, accum, batchStats, gather>>
  BY DEF ProcessBatch
<1>2. DOMAIN threads = {} /\ writePos = writeOffset
  BY <1>1 DEF BatchInv
<1>3. t \in Thread
  BY DEF Thread
<1>4. DOMAIN threads' = batch /\ \A b \in batch : threads'[b] = t
  BY <1>1
<1>5. TypeInv'
  <2>1. \A b \in batch : Len(Children(b)) \in Nat /\ b \in Parents
    BY Boards DEF TypeInv, TypeOK
  <2>2. \A b \in DOMAIN threads' :
          /\ threads'[b].pc \in {"start", "claim", "store", "done"}
          /\ threads'[b].made \in 0..Len(Children(b))
          /\ threads'[b].slot \in Slots \cup {-1}
    BY <1>4, <2>1
  <2>3. threads' \in [DOMAIN threads' -> Thread]
    BY <1>1, <1>3
  <2> HIDE DEF t
  <2>4. TypeOK'
    BY <1>1, <2>2 DEF TypeInv, TypeOK, host
  <2> QED BY <1>1, <2>3, <2>4 DEF TypeInv
<1>6. BatchInv'
  <2>1. Cardinality({}) <= BatchSize
    BY FS_EmptySet, Sizes
  <2> QED BY <1>1, <1>4, <2>1 DEF BatchInv, host
<1>7. ThreadInv'
  BY <1>4 DEF ThreadInv
<1>8. RoomInv'
  <2>1. Claims' = {}
    BY <1>4 DEF Claims, Taken
  <2>2. Cardinality(Claims') = 0
    BY <2>1, FS_EmptySet
  <2>3. Cardinality(batch) \in 0..BatchSize
    <3>1. IsFiniteSet(batch)
      BY AccumulatorAssumption, FS_Subset DEF TypeInv, TypeOK
    <3> QED BY <3>1, FS_CardinalityType, Sizes DEF BatchInv
  <2>4. writeOffset[Black] + writeOffset[White] + Cardinality(batch) * MaxMoves <= Capacity
    <3>1. CASE HasRoom(Cardinality(batch))
      BY <3>1 DEF HasRoom
    <3>2. CASE window = {}
      <4>1. writeOffset[Black] = 0 /\ writeOffset[White] = 0
        BY <3>2 DEF BatchInv, Zeros, Players
      <4>2. Cardinality(batch) * MaxMoves \in Int
        BY <2>3, Sizes
      <4> QED BY <2>3, <4>1, <4>2, Sizes
    <3> QED BY <3>1, <3>2 DEF ProcessBatch
  <2>5. writePos'[Black] + writePos'[White]
          = writeOffset'[Black] + writeOffset'[White] + Cardinality(Claims')
    BY <1>1, <2>2, Types, Sizes DEF host
  <2>6. \A p \in Players : writeOffset'[p] <= writePos'[p]
    BY <1>1, Types DEF host
  <2> QED BY <1>1, <1>4, <2>4, <2>5, <2>6 DEF RoomInv, host
<1>9. SlotInv'
  BY <1>4 DEF SlotInv, Writing
<1>10. StatsInv'
  <2>1. Looked' = Looked /\ Finished' = Finished
    BY <1>1, <1>2, <1>4 DEF Looked, Finished, BatchInv
  <2> QED BY <1>1, <2>1 DEF StatsInv
<1>11. FlushInv'
  BY <1>1 DEF FlushInv
<1> QED BY <1>5, <1>6, <1>7, <1>8, <1>9, <1>10, <1>11

\* GpuProcessBatch after the synchronisation.
LEMMA BatchDoneStep ==
  ASSUME GpuInv, BatchDone
  PROVE  GpuInv'
<1> USE DEF GpuInv
<1>1. /\ phase = "kernel" /\ phase' = "read" /\ writeOffset' = writePos /\ threads' = <<>>
      /\ \A b \in DOMAIN threads : threads[b].pc = "done"
      /\ UNCHANGED <<unread, batch, received, window, accum, writePos, batchStats, gather,
                     unique, hostStats>>
  BY DEF BatchDone
<1>2. DOMAIN threads' = {} /\ threads' \in [DOMAIN threads' -> Thread]
  BY <1>1
<1>3. TypeInv'
  <2>1. TypeOK'
    BY <1>1, <1>2 DEF TypeInv, TypeOK
  <2> QED BY <1>1, <1>2, <2>1 DEF TypeInv
<1>4. BatchInv'
  BY <1>1, <1>2 DEF BatchInv
<1>5. ThreadInv' /\ RoomInv' /\ SlotInv'
  <2>1. \A p \in Players : writeOffset'[p] \in Int
    BY <1>1, Types
  <2>2. writeOffset'[Black] + writeOffset'[White] <= Capacity
    BY <1>1, RoomLeft
  <2> QED BY <1>1, <1>2, <2>1, <2>2, KernelOver
<1>6. StatsInv'
  <2>1. Looked' = Looked /\ Finished' = Finished
    BY <1>1, <1>2 DEF Looked, Finished
  <2> QED BY <1>1, <2>1 DEF StatsInv
<1>7. FlushInv'
  BY <1>1 DEF FlushInv
<1> QED BY <1>3, <1>4, <1>5, <1>6, <1>7

-----------------------------------------------------------------------------
(* The threads.                                                            *)

\* What every step of a thread leaves as it was.
LEMMA ThreadFrame ==
  ASSUME GpuInv, NEW b \in DOMAIN threads, OnlyThread(b), UNCHANGED <<host, feeder, gather>>,
         batchStats' \in [pass : Nat, terminal : Nat, maxMoves : 0..MaxMoves],
         \A p \in Players : writePos'[p] \in 0..Capacity, DOMAIN writePos' = Players,
         writePos' = [p \in Players |-> writePos'[p]],
         accum' \in [Slots -> Keys \cup {Junk}],
         threads'[b].made \in 0..Len(Children(b)),
         threads'[b].slot \in Slots \cup {-1}
  PROVE  TypeInv' /\ BatchInv' /\ FlushInv'
<1> USE DEF GpuInv
<1>1. phase = "kernel" /\ b \in window
  BY RunningThread
<1>2. TypeOK'
  <2>1. \A c \in DOMAIN threads' :
          /\ threads'[c].pc \in {"start", "claim", "store", "done"}
          /\ threads'[c].made \in 0..Len(Children(c))
          /\ threads'[c].slot \in Slots \cup {-1}
    BY DEF OnlyThread, Thread, TypeInv, TypeOK
  <2>2. writePos' \in [Players -> 0..Capacity]
    OBVIOUS
  <2> QED BY <2>1, <2>2 DEF TypeInv, TypeOK, host, feeder
<1>3. TypeInv'
  BY <1>2 DEF TypeInv, OnlyThread, feeder
<1>4. BatchInv'
  BY <1>1 DEF BatchInv, OnlyThread, host, feeder
<1>5. FlushInv'
  BY <1>1 DEF FlushInv, feeder
<1> QED BY <1>3, <1>4, <1>5

(* One more board looked at is one more of its kind.                       *)
LEMMA LookedCount ==
  ASSUME GpuInv, NEW b \in window, b \notin Looked, NEW kind
  PROVE  Cardinality({c \in Looked \cup {b} : Expansion[c].kind = kind})
           = IF Expansion[b].kind = kind
               THEN Cardinality({c \in Looked : Expansion[c].kind = kind}) + 1
               ELSE Cardinality({c \in Looked : Expansion[c].kind = kind})
<1> DEFINE S == {c \in Looked : Expansion[c].kind = kind}
           T == {c \in Looked \cup {b} : Expansion[c].kind = kind}
<1>1. IsFiniteSet(S) /\ b \notin S
  <2>1. S \subseteq Parents
    BY DEF Looked, GpuInv, TypeInv, TypeOK
  <2> QED BY <2>1, AccumulatorAssumption, FS_Subset
<1>2. CASE Expansion[b].kind = kind
  <2>1. T = S \cup {b}
    BY <1>2
  <2> QED BY <1>1, <1>2, <2>1, FS_AddElement
<1>3. CASE Expansion[b].kind # kind
  <2>1. T = S
    BY <1>3
  <2> QED BY <1>3, <2>1
<1> QED BY <1>2, <1>3

\* A thread looks at its board.
LEMMA LookStep ==
  ASSUME GpuInv, NEW b \in DOMAIN threads, Look(b)
  PROVE  GpuInv'
<1> USE DEF GpuInv
<1> DEFINE kind == Expansion[b].kind
<1>1. /\ OnlyThread(b) /\ threads[b].pc = "start"
      /\ threads'[b].pc = IF kind = "terminal" THEN "done" ELSE "claim"
      /\ threads'[b].made = threads[b].made /\ threads'[b].slot = threads[b].slot
  BY LookMoves
<1>2. UNCHANGED <<host, feeder, accum, writePos, gather>>
  BY DEF Look
<1>3. b \in window /\ b \in Parents /\ phase = "kernel" /\ threads[b].made = 0
  BY <1>1, RunningThread DEF ThreadInv
<1>4. batchStats \in [pass : Nat, terminal : Nat, maxMoves : 0..MaxMoves]
  BY Types
<1>5. /\ batchStats'.pass = IF kind = "pass" THEN batchStats.pass + 1 ELSE batchStats.pass
      /\ batchStats'.terminal = IF kind = "terminal" THEN batchStats.terminal + 1
                                                     ELSE batchStats.terminal
      /\ batchStats'.maxMoves = batchStats.maxMoves
      /\ batchStats' \in [pass : Nat, terminal : Nat, maxMoves : 0..MaxMoves]
  <2>1. batchStats' = CASE kind = "pass"     -> [batchStats EXCEPT !.pass = @ + 1]
                        [] kind = "terminal" -> [batchStats EXCEPT !.terminal = @ + 1]
                        [] OTHER             -> batchStats
    BY DEF Look
  <2> HIDE DEF kind
  <2> QED BY <1>4, <2>1
<1>6. TypeInv' /\ BatchInv' /\ FlushInv'
  BY <1>1, <1>2, <1>5, ThreadFrame DEF TypeInv, TypeOK
<1>7. ThreadInv'
  <2>1. kind = "terminal" => Len(Children(b)) = 0
    BY <1>3, Boards
  <2> QED BY <1>1, <1>3, <2>1 DEF ThreadInv, OnlyThread
<1>8. RoomInv'
  <2>1. \A c \in DOMAIN threads : Taken(c)' = Taken(c)
    BY <1>1 DEF Taken, OnlyThread
  <2>2. Claims' = Claims
    BY <1>1, <2>1 DEF Claims, OnlyThread
  <2> QED BY <1>1, <1>2, <2>2 DEF RoomInv, OnlyThread, host
<1>9. SlotInv'
  <2>1. Writing' = Writing /\ \A c \in Writing : threads'[c] = threads[c]
    BY <1>1 DEF Writing, OnlyThread
  <2> QED BY <1>2, <2>1 DEF SlotInv, Kid, host
<1>10. StatsInv'
  <2>1. b \notin Looked /\ Looked' = Looked \cup {b}
    BY <1>1, <1>2, <1>3 DEF Looked, OnlyThread, feeder
  <2>2. b \notin Finished
        /\ Finished' = IF kind = "terminal" THEN Finished \cup {b} ELSE Finished
    BY <1>1, <1>2, <1>3 DEF Finished, OnlyThread, feeder
  <2>3. batchStats'.pass = Cardinality({c \in Looked' : Expansion[c].kind = "pass"})
    <3>1. Cardinality({c \in Looked \cup {b} : Expansion[c].kind = "pass"})
            = IF kind = "pass"
                THEN Cardinality({c \in Looked : Expansion[c].kind = "pass"}) + 1
                ELSE Cardinality({c \in Looked : Expansion[c].kind = "pass"})
      BY <1>3, <2>1, LookedCount
    <3>2. batchStats.pass = Cardinality({c \in Looked : Expansion[c].kind = "pass"})
      BY DEF StatsInv
    <3> QED BY <1>5, <2>1, <3>1, <3>2
  <2>4. batchStats'.terminal = Cardinality({c \in Looked' : Expansion[c].kind = "terminal"})
    <3>1. Cardinality({c \in Looked \cup {b} : Expansion[c].kind = "terminal"})
            = IF kind = "terminal"
                THEN Cardinality({c \in Looked : Expansion[c].kind = "terminal"}) + 1
                ELSE Cardinality({c \in Looked : Expansion[c].kind = "terminal"})
      BY <1>3, <2>1, LookedCount
    <3>2. batchStats.terminal = Cardinality({c \in Looked : Expansion[c].kind = "terminal"})
      BY DEF StatsInv
    <3> QED BY <1>5, <2>1, <3>1, <3>2
  <2>5. batchStats'.maxMoves \in {0} \cup {Len(Children(c)) : c \in Finished'}
    BY <1>5, <2>2 DEF StatsInv
  <2>6. \A c \in Finished' : Len(Children(c)) <= batchStats'.maxMoves
    <3>1. kind = "terminal" => Len(Children(b)) = 0
      BY <1>3, Boards
    <3> QED BY <1>4, <1>5, <2>2, <3>1 DEF StatsInv
  <2> QED BY <1>2, <1>3, <2>3, <2>4, <2>5, <2>6 DEF StatsInv, feeder
<1> QED BY <1>6, <1>7, <1>8, <1>9, <1>10

\* A thread claims the next slot of its child's player.
LEMMA ClaimStep ==
  ASSUME GpuInv, NEW b \in DOMAIN threads, Claim(b)
  PROVE  GpuInv'
<1> USE DEF GpuInv
<1> DEFINE p == Kid(b).player
           c == <<b, threads[b].made + 1>>
<1>1. p \in Players
  BY RunningThread DEF Claim
<1>2. /\ OnlyThread(b) /\ threads[b].pc = "claim" /\ threads[b].made < Len(Children(b))
      /\ threads'[b].pc = "store" /\ threads'[b].made = threads[b].made
      /\ threads'[b].slot = writePos[p]
  BY <1>1, ClaimMoves
<1>3. /\ UNCHANGED <<host, feeder, accum, batchStats, gather>>
      /\ writePos' = [writePos EXCEPT ![p] = @ + 1]
  BY DEF Claim
<1>4. writePos[Black] + writePos[White] < Capacity
  BY <1>2, RoomToClaim
<1>5. /\ writePos'[p] = writePos[p] + 1
      /\ \A q \in Players : q # p => writePos'[q] = writePos[q]
      /\ writePos' = [q \in Players |-> writePos'[q]] /\ DOMAIN writePos' = Players
  <2>1. writePos \in [Players -> 0..Capacity]
    BY DEF TypeInv, TypeOK
  <2> HIDE DEF p
  <2> QED BY <1>1, <1>3, <2>1
<1>6. writePos[p] \in 0..Capacity - 1 /\ \A q \in Players : writePos'[q] \in 0..Capacity
  <2>1. p = Black \/ p = White
    BY <1>1 DEF Players
  <2>2. writePos[p] < Capacity
    BY <1>4, <2>1, Types, Sizes
  <2> HIDE DEF p
  <2> QED BY <1>1, <1>5, <2>2, Types, Sizes
<1>7. TypeInv' /\ BatchInv' /\ FlushInv'
  <2>1. threads'[b].made \in 0..Len(Children(b)) /\ threads'[b].slot \in Slots \cup {-1}
    BY <1>2, <1>6 DEF Slots, TypeInv, TypeOK
  <2>2. accum' \in [Slots -> Keys \cup {Junk}]
    BY <1>3 DEF TypeInv, TypeOK
  <2>3. batchStats' \in [pass : Nat, terminal : Nat, maxMoves : 0..MaxMoves]
    BY <1>3, Types
  <2> HIDE DEF p
  <2> QED BY <1>2, <1>3, <1>5, <1>6, <2>1, <2>2, <2>3, ThreadFrame
<1>8. ThreadInv'
  BY <1>2 DEF ThreadInv, OnlyThread
<1>9. RoomInv'
  <2>1. Taken(b) = threads[b].made /\ Taken(b)' = threads[b].made + 1
    BY <1>2 DEF Taken
  <2>2. \A d \in DOMAIN threads : d # b => Taken(d)' = Taken(d)
    BY <1>2 DEF Taken, OnlyThread
  <2>3. threads[b].made \in Nat
    BY RunningThread
  <2>4. c \notin Claims /\ c \in (DOMAIN threads) \X (1..MaxMoves)
    BY <1>2, RoomToClaim
  <2>5. \A k \in 1..MaxMoves : k <= threads[b].made + 1
                                 <=> k <= threads[b].made \/ k = threads[b].made + 1
    BY <2>3, Sizes
  <2>6. ASSUME NEW e \in (DOMAIN threads) \X (1..MaxMoves)
        PROVE  e[2] <= Taken(e[1])' <=> e[2] <= Taken(e[1]) \/ e = c
    <3>1. PICK d \in DOMAIN threads, k \in 1..MaxMoves : e = <<d, k>>
      OBVIOUS
    <3>2. e[1] = d /\ e[2] = k /\ (e = c <=> d = b /\ k = threads[b].made + 1)
      BY <3>1
    <3>3. CASE d = b
      BY <2>1, <2>5, <3>2, <3>3
    <3>4. CASE d # b
      BY <2>2, <3>2, <3>4
    <3> QED BY <3>3, <3>4
  <2>7. Claims' = Claims \cup {c}
    BY <1>2, <2>4, <2>6 DEF Claims, OnlyThread
  <2>8. Cardinality(Claims') = Cardinality(Claims) + 1
    BY <2>4, <2>7, ThreadsFinite, FS_AddElement
  <2>9. writePos'[Black] + writePos'[White] = writePos[Black] + writePos[White] + 1
    <3>1. (p = Black /\ White # p) \/ (p = White /\ Black # p)
      BY <1>1, Sizes DEF Players
    <3> HIDE DEF p
    <3> QED BY <1>5, <3>1, Types, Sizes
  <2>10. \A q \in Players : writeOffset'[q] <= writePos'[q]
    <3> HIDE DEF p
    <3>1. \A q \in Players : writePos[q] <= writePos'[q]
      BY <1>1, <1>5, Types
    <3> QED BY <1>3, <1>6, <3>1, Types DEF RoomInv, host
  <2>11. writeOffset' = writeOffset /\ DOMAIN threads' = DOMAIN threads
    BY <1>2, <1>3 DEF OnlyThread, host
  <2> HIDE DEF p, c
  <2>12. writePos'[Black] + writePos'[White]
          = writeOffset[Black] + writeOffset[White] + Cardinality(Claims')
    BY <2>8, <2>9, Types, Sizes, ThreadsFinite DEF RoomInv
  <2> QED BY <2>10, <2>11, <2>12 DEF RoomInv
<1>10. SlotInv'
  <2>1. \A d \in DOMAIN threads : Kid(d)' = Kid(d)
    BY <1>2 DEF Kid, OnlyThread
  <2>2. Writing' = Writing \cup {b} /\ b \notin Writing
    BY <1>2 DEF Writing, OnlyThread
  <2>3. \A d \in Writing : threads'[d].slot = threads[d].slot /\ threads[d].slot \in Int
    BY <1>2, Types DEF Writing, OnlyThread, Thread
  <2>4. writeOffset' = writeOffset /\ \A q \in Players : writePos[q] <= writePos'[q]
    <3>1. writeOffset' = writeOffset
      BY <1>3 DEF host
    <3> HIDE DEF p
    <3> QED BY <1>1, <1>5, <3>1, Types
  <2>5. \A d \in Writing : Kid(d).player \in Players
    BY RunningThread DEF Writing
  <2>6. ASSUME NEW d \in Writing
        PROVE  /\ writeOffset'[Kid(d).player] <= threads'[d].slot
               /\ threads'[d].slot < writePos'[Kid(d).player]
               /\ Kid(d).player = p => threads'[d].slot # threads'[b].slot
    <3>1. /\ writeOffset[Kid(d).player] <= threads[d].slot
          /\ threads[d].slot < writePos[Kid(d).player]
      BY DEF SlotInv
    <3>2. threads[d].slot < writePos'[Kid(d).player]
      BY <1>6, <2>3, <2>4, <2>5, <3>1, Types
    <3>3. Kid(d).player = p => threads'[d].slot # threads'[b].slot
      BY <1>2, <2>3, <2>5, <3>1, Types
    <3> QED BY <2>3, <2>4, <3>1, <3>2, <3>3
  <2>7. writeOffset'[p] <= threads'[b].slot /\ threads'[b].slot < writePos'[p]
    <3>1. writeOffset[p] <= writePos[p]
      BY <1>1 DEF RoomInv
    <3>2. writePos[p] < writePos'[p]
      BY <1>5, <1>6
    <3> QED BY <1>2, <2>4, <3>1, <3>2
  <2>8. ASSUME NEW d \in Writing, NEW e \in Writing \ {d}, Kid(d).player = Kid(e).player
        PROVE  threads'[d].slot # threads'[e].slot
    BY <2>3, <2>8 DEF SlotInv
  <2>9. Kid(b)' = Kid(b) /\ \A d \in Writing : Kid(d)' = Kid(d)
    BY <2>1 DEF Writing
  <2> QED BY <2>2, <2>6, <2>7, <2>8, <2>9 DEF SlotInv
<1>11. StatsInv'
  <2>1. Looked' = Looked /\ Finished' = Finished
    BY <1>2, <1>3 DEF Looked, Finished, OnlyThread, feeder
  <2> QED BY <1>3, <2>1 DEF StatsInv, host, feeder
<1> QED BY <1>7, <1>8, <1>9, <1>10, <1>11

\* A thread stores its child in the slot it claimed.
LEMMA StoreStep ==
  ASSUME GpuInv, NEW b \in DOMAIN threads, Store(b)
  PROVE  GpuInv'
<1> USE DEF GpuInv
<1>1. /\ OnlyThread(b) /\ threads[b].pc = "store"
      /\ threads'[b].pc = "claim" /\ threads'[b].made = threads[b].made + 1
      /\ threads'[b].slot = threads[b].slot
  BY StoreMoves
<1>2. /\ UNCHANGED <<host, feeder, writePos, batchStats, gather>>
      /\ accum' = IF threads[b].slot < Capacity
                    THEN [accum EXCEPT ![SlotOf(Kid(b).player, threads[b].slot)] = Kid(b).key]
                    ELSE accum
  BY DEF Store
<1>3. /\ threads[b].made \in Nat /\ threads[b].made < Len(Children(b))
      /\ Len(Children(b)) \in Nat /\ Kid(b).key \in Keys
  BY <1>1, RunningThread
<1>4. accum' \in [Slots -> Keys \cup {Junk}]
  <2>1. accum \in [Slots -> Keys \cup {Junk}]
    BY DEF TypeInv, TypeOK
  <2> QED BY <1>2, <1>3, <2>1
<1>5. TypeInv' /\ BatchInv' /\ FlushInv'
  <2>1. threads'[b].made \in 0..Len(Children(b)) /\ threads'[b].slot \in Slots \cup {-1}
    BY <1>1, <1>3 DEF TypeInv, TypeOK
  <2>2. batchStats' \in [pass : Nat, terminal : Nat, maxMoves : 0..MaxMoves]
    BY <1>2, Types
  <2>3. /\ \A p \in Players : writePos'[p] \in 0..Capacity
        /\ DOMAIN writePos' = Players /\ writePos' = [p \in Players |-> writePos'[p]]
    BY <1>2 DEF TypeInv, TypeOK
  <2> QED BY <1>1, <1>2, <1>4, <2>1, <2>2, <2>3, ThreadFrame
<1>6. ThreadInv'
  BY <1>1 DEF ThreadInv, OnlyThread
<1>7. RoomInv'
  <2>1. \A d \in DOMAIN threads : Taken(d)' = Taken(d)
    BY <1>1 DEF Taken, OnlyThread
  <2>2. Claims' = Claims
    BY <1>1, <2>1 DEF Claims, OnlyThread
  <2> QED BY <1>1, <1>2, <2>2 DEF RoomInv, OnlyThread, host
<1>8. SlotInv'
  <2>1. Writing' \subseteq Writing
    BY <1>1 DEF Writing, OnlyThread
  <2>2. \A d \in Writing' : threads'[d] = threads[d] /\ Kid(d)' = Kid(d)
    BY <1>1 DEF Writing, OnlyThread, Kid
  <2>3. writePos' = writePos /\ writeOffset' = writeOffset
    BY <1>2 DEF host
  <2> QED BY <2>1, <2>2, <2>3 DEF SlotInv
<1>9. StatsInv'
  <2>1. Looked' = Looked /\ Finished' = Finished
    BY <1>1, <1>2 DEF Looked, Finished, OnlyThread, feeder
  <2> QED BY <1>2, <2>1 DEF StatsInv, host, feeder
<1> QED BY <1>5, <1>6, <1>7, <1>8, <1>9

\* The end of a thread.
LEMMA FinishStep ==
  ASSUME GpuInv, NEW b \in DOMAIN threads, Finish(b)
  PROVE  GpuInv'
<1> USE DEF GpuInv
<1>1. /\ OnlyThread(b) /\ threads[b].pc = "claim" /\ threads[b].made = Len(Children(b))
      /\ threads'[b].pc = "done" /\ threads'[b].made = threads[b].made
      /\ threads'[b].slot = threads[b].slot
  BY FinishMoves
<1>2. /\ UNCHANGED <<host, feeder, accum, writePos, gather>>
      /\ batchStats' = [batchStats EXCEPT !.maxMoves = Larger(@, threads[b].made)]
  BY DEF Finish
<1>3. Len(Children(b)) \in 0..MaxMoves /\ b \in window
  BY RunningThread
<1>4. /\ batchStats'.pass = batchStats.pass /\ batchStats'.terminal = batchStats.terminal
      /\ batchStats'.maxMoves = Larger(batchStats.maxMoves, Len(Children(b)))
      /\ batchStats' \in [pass : Nat, terminal : Nat, maxMoves : 0..MaxMoves]
  <2>1. batchStats \in [pass : Nat, terminal : Nat, maxMoves : 0..MaxMoves]
    BY Types
  <2>2. Larger(batchStats.maxMoves, threads[b].made) \in 0..MaxMoves
    BY <1>1, <1>3, <2>1 DEF Larger
  <2> QED BY <1>1, <1>2, <2>1, <2>2
<1>5. TypeInv' /\ BatchInv' /\ FlushInv'
  <2>1. threads'[b].made \in 0..Len(Children(b)) /\ threads'[b].slot \in Slots \cup {-1}
    BY <1>1 DEF TypeInv, TypeOK
  <2>2. accum' \in [Slots -> Keys \cup {Junk}]
    BY <1>2 DEF TypeInv, TypeOK
  <2>3. /\ \A p \in Players : writePos'[p] \in 0..Capacity
        /\ DOMAIN writePos' = Players /\ writePos' = [p \in Players |-> writePos'[p]]
    BY <1>2 DEF TypeInv, TypeOK
  <2> QED BY <1>1, <1>2, <1>4, <2>1, <2>2, <2>3, ThreadFrame
<1>6. ThreadInv'
  BY <1>1 DEF ThreadInv, OnlyThread
<1>7. RoomInv'
  <2>1. \A d \in DOMAIN threads : Taken(d)' = Taken(d)
    BY <1>1 DEF Taken, OnlyThread
  <2>2. Claims' = Claims
    BY <1>1, <2>1 DEF Claims, OnlyThread
  <2> QED BY <1>1, <1>2, <2>2 DEF RoomInv, OnlyThread, host
<1>8. SlotInv'
  <2>1. Writing' = Writing /\ \A d \in Writing : threads'[d] = threads[d]
    BY <1>1 DEF Writing, OnlyThread
  <2> QED BY <1>2, <2>1 DEF SlotInv, Kid, host
<1>9. StatsInv'
  <2>1. Looked' = Looked /\ Finished' = Finished \cup {b}
    BY <1>1, <1>2, <1>3 DEF Looked, Finished, OnlyThread, feeder
  <2>2. batchStats'.maxMoves \in {batchStats.maxMoves, Len(Children(b))}
        /\ Len(Children(b)) <= batchStats'.maxMoves
        /\ batchStats.maxMoves <= batchStats'.maxMoves
    BY <1>3, <1>4, Types DEF Larger
  <2>3. batchStats'.maxMoves \in {0} \cup {Len(Children(c)) : c \in Finished'}
    BY <2>1, <2>2 DEF StatsInv
  <2>4. \A c \in Finished' : Len(Children(c)) <= batchStats'.maxMoves
    <3>1. \A c \in Finished : Len(Children(c)) \in Int
      BY Boards DEF Finished, TypeInv, TypeOK
    <3>2. batchStats.maxMoves \in Int /\ batchStats'.maxMoves \in Int
      BY <1>4, Types
    <3> QED BY <2>1, <2>2, <3>1, <3>2 DEF StatsInv
  <2>5. phase' # "prepared"
    BY <1>2, RunningThread DEF feeder
  <2>6. batchStats'.pass = Cardinality({c \in Looked' : Expansion[c].kind = "pass"})
        /\ batchStats'.terminal = Cardinality({c \in Looked' : Expansion[c].kind = "terminal"})
    BY <1>4, <2>1 DEF StatsInv
  <2> QED BY <2>3, <2>4, <2>5, <2>6 DEF StatsInv
<1> QED BY <1>5, <1>6, <1>7, <1>8, <1>9

-----------------------------------------------------------------------------
(* The flush.                                                              *)

(* What is gathered is of the kind that was there.                         *)
LEMMA GatheredTyped ==
  ASSUME NEW R, NEW base, NEW N \in Nat, NEW out, NEW off \in Nat, NEW V,
         Gathered(R, base, N, out, off),
         \A i \in Region(N) : base[i] \in V, \A k \in Slots : out[k] \in V
  PROVE  R.out \in [Slots -> V]
<1>1. ASSUME NEW k \in Slots PROVE R.out[k] \in V
  <2>1. R.count \in Nat /\ k \in Int
    BY Sizes DEF Gathered, Slots
  <2>2. CASE k < off \/ k >= off + R.count
    BY <2>2 DEF Gathered
  <2>3. CASE ~(k < off \/ k >= off + R.count)
    <3>1. k - off \in Region(R.count) /\ off + (k - off) = k
      BY <2>1, <2>3 DEF Region
    <3>2. \E i \in Region(N) : R.out[k] = base[i]
      BY <3>1 DEF Gathered
    <3> QED BY <3>2
  <2> QED BY <2>2, <2>3
<1>2. R.out = [k \in Slots |-> R.out[k]]
  BY DEF Gathered
<1> QED BY <1>1, <1>2

(* Without threads a player's boards are those in its region.              *)
LEMMA WantedIdle ==
  ASSUME TypeInv, DOMAIN threads = {}, NEW p \in Players
  PROVE  Stored(p) \cup Pending(p) = {accum[SlotOf(p, i)] : i \in Region(writePos[p])}
<1>1. Writing = {}
  BY DEF Writing
<1>2. Pending(p) = {}
  BY DEF Pending
<1>3. Smaller(writePos[p], Capacity) = writePos[p]
  BY Types, Sizes DEF Smaller
<1>4. Stored(p) = {accum[SlotOf(p, i)] : i \in Region(writePos[p])}
  BY <1>1, <1>3 DEF Stored, Region
<1> QED BY <1>2, <1>4

\* GpuFlushPrepare: black region first, white region behind it.
LEMMA FlushPrepareStep ==
  ASSUME GpuInv, FlushPrepare
  PROVE  GpuInv'
<1> USE DEF GpuInv
<1> DEFINE B == writeOffset[Black]
           W == writeOffset[White]
           wbase == [i \in Region(W) |-> accum[Capacity - W + i]]
           black == SortAndDedupRegion(accum, B, gather, 0)
           white == SortAndDedupRegion(wbase, W, black.out, black.count)
<1>1. /\ phase = "read" /\ window # {} /\ phase' = "prepared" /\ hostStats' = batchStats
      /\ UNCHANGED <<unread, batch, received, window, accum, writePos, threads, batchStats,
                     writeOffset>>
  BY DEF FlushPrepare
<1>2. DOMAIN threads = {} /\ writePos = writeOffset /\ received = Nothing
  BY <1>1 DEF BatchInv
<1>3. B \in Nat /\ W \in Nat /\ B + W <= Capacity /\ B <= Capacity
  BY <1>2, RoomLeft, Types, Sizes
<1>4. /\ gather' = white.out
      /\ unique' = [p \in Players |-> IF p = Black THEN black.count ELSE white.count]
  <2>1. Smaller(B, Capacity) = B /\ Smaller(W, Capacity - B) = W
    BY <1>3, Sizes DEF Smaller
  <2> QED BY <2>1 DEF FlushPrepare
<1>5. /\ \A i \in Region(B) : i \in Slots
      /\ \A i \in Region(W) : Capacity - W + i \in Slots
  BY <1>3, Sizes DEF Region, Slots
<1>6. Gathered(black, accum, B, gather, 0)
  <2>1. \A i \in Region(B) : accum[i] \in Int \X Int
    BY <1>5, Types
  <2>2. 0 + B <= Capacity
    BY <1>3
  <2> HIDE DEF B
  <2> QED BY <1>3, <2>1, <2>2, RegionSorted
<1>7. black.count \in 0..B
  BY <1>6 DEF Gathered
<1> HIDE DEF black
<1>8. Gathered(white, wbase, W, black.out, black.count)
  <2>1. \A i \in Region(W) : wbase[i] \in Int \X Int
    BY <1>5, Types
  <2> HIDE DEF B, W, wbase
  <2>2. black.count \in Nat /\ black.count + W <= Capacity
    BY <1>3, <1>7, Sizes
  <2> QED BY <1>3, <2>1, <2>2, RegionSorted
<1>9. white.count \in 0..W
  BY <1>8 DEF Gathered
<1> HIDE DEF white
<1>10. TypeInv'
  <2>1. accum \in [Slots -> Keys \cup {Junk}] /\ gather \in [Slots -> Keys \cup {Junk}]
    BY DEF TypeInv, TypeOK
  <2>2. black.out \in [Slots -> Keys \cup {Junk}]
    BY <1>3, <1>5, <1>6, <2>1, GatheredTyped
  <2>3. white.out \in [Slots -> Keys \cup {Junk}]
    <3>1. \A i \in Region(W) : wbase[i] \in Keys \cup {Junk}
      BY <1>5, <2>1
    <3>2. black.count \in Nat
      BY <1>3, <1>7
    <3> HIDE DEF W, wbase
    <3> QED BY <1>3, <1>8, <2>2, <3>1, <3>2, GatheredTyped
  <2>4. unique' \in [Players -> 0..Capacity]
    <3>1. black.count \in 0..Capacity /\ white.count \in 0..Capacity
      BY <1>3, <1>7, <1>9, Sizes
    <3> QED BY <1>4, <3>1
  <2>5. hostStats' \in [pass : Nat, terminal : Nat, maxMoves : 0..MaxMoves]
    BY <1>1, Types
  <2>6. TypeOK'
    BY <1>1, <1>4, <2>3, <2>4, <2>5 DEF TypeInv, TypeOK
  <2> QED BY <1>1, <2>6 DEF TypeInv
<1>11. BatchInv'
  BY <1>1, <1>2 DEF BatchInv
<1>12. ThreadInv' /\ RoomInv' /\ SlotInv'
  BY <1>1, KernelIdle
<1>13. StatsInv'
  <2>1. Looked' = Looked /\ Finished' = Finished
    BY <1>1 DEF Looked, Finished
  <2> QED BY <1>1, <2>1 DEF StatsInv
<1>14. FlushInv'
  <2>1. ASSUME NEW p \in Players
        PROVE  (Stored(p) \cup Pending(p))' = {accum[SlotOf(p, i)] : i \in Region(writeOffset[p])}
    <3>1. (Stored(p) \cup Pending(p))' = Stored(p) \cup Pending(p)
      BY <1>1 DEF Stored, Pending, Writing, Kid
    <3> QED BY <1>2, <3>1, WantedIdle
  <2>2. unique'[Black] = black.count /\ unique'[White] = white.count
    BY <1>4, Sizes
  <2>3. \A n \in Nat : Smaller(n - 0, n) = n
    BY DEF Smaller
  <2>4. Read(Black, 0, unique[Black])' = Abstract!Sorted((Stored(Black) \cup Pending(Black))')
    <3> DEFINE V == {accum[i] : i \in Region(B)}
               n == black.count
    <3>1. V \in SUBSET (Int \X Int)
      BY <1>5, Types
    <3>2. n \in Nat /\ \A k \in Region(n) : 0 + k = k /\ k \in Slots /\ k < n
      <4> HIDE DEF B
      <4> QED BY <1>3, <1>7, Sizes DEF Region, Slots
    <3>3. \A k \in Region(n) : gather'[0 + k] = black.out[0 + k]
      BY <1>4, <1>8, <3>2 DEF Gathered
    <3>4. /\ \A k \in Region(n) : gather'[0 + k] \in V
          /\ \A v \in V : \E k \in Region(n) : gather'[0 + k] = v
          /\ \A k, l \in Region(n) : k < l => Abstract!KeyLess(gather'[0 + k], gather'[0 + l])
      BY <1>6, <3>3 DEF Gathered
    <3> HIDE DEF V, n
    <3>5. Segment(gather', 0, n) = Abstract!Sorted(V)
      BY <3>1, <3>2, <3>4, ReadIsSorted DEF Enumerates
    <3>6. V = (Stored(Black) \cup Pending(Black))'
      <4>1. \A i : SlotOf(Black, i) = i
        BY DEF SlotOf
      <4> QED BY <2>1, <4>1, Sizes DEF V
    <3>7. Read(Black, 0, unique[Black])' = Segment(gather', 0, n)
      BY <2>2, <2>3, <3>2 DEF Read, Segment, n
    <3> QED BY <3>5, <3>6, <3>7
  <2>5. Read(White, 0, unique[White])' = Abstract!Sorted((Stored(White) \cup Pending(White))')
    <3> DEFINE V == {wbase[i] : i \in Region(W)}
               n == white.count
               off == black.count
    <3>1. V \in SUBSET (Int \X Int)
      BY <1>5, Types
    <3>2. n \in Nat /\ off \in Nat
      BY <1>3, <1>7, <1>9
    <3>3. /\ \A k \in Region(n) : gather'[off + k] \in V
          /\ \A v \in V : \E k \in Region(n) : gather'[off + k] = v
          /\ \A k, l \in Region(n) : k < l => Abstract!KeyLess(gather'[off + k], gather'[off + l])
      BY <1>4, <1>8 DEF Gathered
    <3> HIDE DEF V, n, off
    <3>4. Segment(gather', off, n) = Abstract!Sorted(V)
      BY <3>1, <3>2, <3>3, ReadIsSorted DEF Enumerates
    <3>5. V = (Stored(White) \cup Pending(White))'
      <4>1. \A i : SlotOf(White, i) = Capacity - 1 - i
        BY Sizes DEF SlotOf
      <4>2. \A i \in Region(W) : /\ W - 1 - i \in Region(W)
                                 /\ Capacity - W + (W - 1 - i) = Capacity - 1 - i
                                 /\ Capacity - 1 - (W - 1 - i) = Capacity - W + i
        BY <1>3, Sizes DEF Region
      <4> HIDE DEF W
      <4>3. {wbase[i] : i \in Region(W)} = {accum[Capacity - 1 - i] : i \in Region(W)}
        <5>1. \A i \in Region(W) : wbase[i] = accum[Capacity - W + i]
          OBVIOUS
        <5> HIDE DEF wbase
        <5>2. ASSUME NEW i \in Region(W)
              PROVE  \E j \in Region(W) : wbase[i] = accum[Capacity - 1 - j]
          BY <4>2, <5>1
        <5>3. ASSUME NEW i \in Region(W)
              PROVE  \E j \in Region(W) : accum[Capacity - 1 - i] = wbase[j]
          BY <4>2, <5>1
        <5> QED BY <5>2, <5>3
      <4>4. (Stored(White) \cup Pending(White))' = {accum[Capacity - 1 - i] : i \in Region(W)}
        BY <2>1, <4>1, Sizes DEF W
      <4> QED BY <4>3, <4>4 DEF V
    <3>6. Read(White, 0, unique[White])' = Segment(gather', off, n)
      BY <2>2, <2>3, <3>2, Sizes DEF Read, Segment, n, off
    <3> QED BY <3>4, <3>5, <3>6
  <2>6. \A p \in Players : received'[p] = <<>>
    BY <1>1, <1>2 DEF Nothing
  <2>7. Players = {White, Black}
    BY DEF Players
  <2> QED BY <2>4, <2>5, <2>6, <2>7 DEF FlushInv
<1> QED BY <1>10, <1>11, <1>12, <1>13, <1>14

(* Reading the flushed boards keeps the invariant.                         *)
LEMMA FlushReadStep ==
  ASSUME GpuInv, NEW p \in Players, FlushRead(p)
  PROVE  GpuInv'
<1> USE DEF GpuInv
<1>1. /\ phase = "prepared" /\ received[p] = <<>>
      /\ received' = [received EXCEPT ![p] = Read(p, 0, unique[p])]
      /\ UNCHANGED <<device, host, unread, batch, phase, window>>
  BY DEF FlushRead
<1>2. TypeInv'
  <2>1. TypeOK'
    BY <1>1 DEF TypeInv, TypeOK, device, host
  <2> QED BY <1>1, <2>1 DEF TypeInv, device
<1>3. BatchInv'
  BY <1>1 DEF BatchInv, device, host
<1>4. ThreadInv' /\ RoomInv' /\ SlotInv'
  BY <1>1, KernelIdle DEF device, host
<1>5. StatsInv'
  BY <1>1, StatsIdle DEF device, host
<1>6. FlushInv'
  <2>1. \A q \in Players : /\ Read(q, 0, unique[q])' = Read(q, 0, unique[q])
                           /\ (Stored(q) \cup Pending(q))' = Stored(q) \cup Pending(q)
    BY <1>1 DEF Read, Stored, Pending, Writing, Kid, device, host
  <2>2. \A q \in Players : received'[q] \in {received[q], Read(q, 0, unique[q])}
    <3>1. received = [q \in Players |-> received[q]]
      BY DEF TypeInv
    <3> QED BY <1>1, <3>1
  <2> QED BY <1>1, <2>1, <2>2 DEF FlushInv
<1> QED BY <1>2, <1>3, <1>4, <1>5, <1>6

\* GpuFlushReset.
LEMMA FlushResetStep ==
  ASSUME GpuInv, FlushReset
  PROVE  GpuInv'
<1> USE DEF GpuInv
<1>1. /\ phase = "prepared" /\ phase' = "read" /\ writePos' = Zeros /\ writeOffset' = Zeros
      /\ unique' = Zeros /\ batchStats' = NoStats /\ hostStats' = NoStats
      /\ received' = Nothing /\ window' = {}
      /\ UNCHANGED <<unread, batch, accum, threads, gather>>
  BY DEF FlushReset
<1>2. DOMAIN threads = {} /\ DOMAIN threads' = {}
  BY <1>1 DEF BatchInv
<1>3. Zeros \in [Players -> 0..Capacity] /\ Zeros[Black] = 0 /\ Zeros[White] = 0
  BY Sizes DEF Zeros
<1>4. NoStats \in [pass : Nat, terminal : Nat, maxMoves : 0..MaxMoves]
  BY Sizes DEF NoStats
<1>5. TypeInv'
  <2>1. TypeOK'
    BY <1>1, <1>3, <1>4 DEF TypeInv, TypeOK
  <2>2. received' = [p \in Players |-> received'[p]]
    BY <1>1 DEF Nothing
  <2> QED BY <1>1, <2>1, <2>2 DEF TypeInv
<1>6. BatchInv'
  BY <1>1, <1>2 DEF BatchInv
<1>7. ThreadInv' /\ RoomInv' /\ SlotInv'
  <2>1. /\ \A p \in Players : writeOffset'[p] \in Int
        /\ writeOffset'[Black] + writeOffset'[White] <= Capacity
    BY <1>1, <1>3, Sizes
  <2> QED BY <1>1, <1>2, <2>1, KernelOver
<1>8. StatsInv'
  <2>1. Looked' = {} /\ Finished' = {}
    BY <1>1 DEF Looked, Finished
  <2>2. /\ Cardinality({b \in Looked' : Expansion[b].kind = "pass"}) = 0
        /\ Cardinality({b \in Looked' : Expansion[b].kind = "terminal"}) = 0
    BY <2>1, FS_EmptySet
  <2> QED BY <1>1, <2>1, <2>2 DEF StatsInv, NoStats
<1>9. FlushInv'
  BY <1>1 DEF FlushInv
<1> QED BY <1>5, <1>6, <1>7, <1>8, <1>9

(* The accumulator starts in the invariant.                                *)
LEMMA GpuInitial ==
  ASSUME Init
  PROVE  GpuInv
<1>1. /\ unread = Parents /\ batch = {} /\ phase = "read" /\ window = {}
      /\ accum = [i \in Slots |-> Junk] /\ gather = [i \in Slots |-> Junk]
      /\ writePos = Zeros /\ writeOffset = Zeros /\ unique = Zeros
      /\ threads = <<>> /\ batchStats = NoStats /\ hostStats = NoStats
      /\ received = Nothing
  BY DEF Init
<1>2. DOMAIN threads = {} /\ threads \in [DOMAIN threads -> Thread]
  BY <1>1
<1>3. Zeros \in [Players -> 0..Capacity] /\ Zeros[Black] = 0 /\ Zeros[White] = 0
  BY Sizes DEF Zeros
<1>4. TypeInv
  <2>1. NoStats \in [pass : Nat, terminal : Nat, maxMoves : 0..MaxMoves]
    BY Sizes DEF NoStats
  <2>2. TypeOK
    BY <1>1, <1>2, <1>3, <2>1 DEF TypeOK
  <2>3. received = [p \in Players |-> received[p]]
    BY <1>1 DEF Nothing
  <2> QED BY <1>2, <2>2, <2>3 DEF TypeInv
<1>5. BatchInv
  <2>1. Cardinality(batch) <= BatchSize
    BY <1>1, FS_EmptySet, Sizes
  <2> QED BY <1>1, <1>2, <2>1 DEF BatchInv
<1>6. ThreadInv /\ RoomInv /\ SlotInv
  <2>1. Claims = {}
    BY <1>2 DEF Claims
  <2>2. Cardinality(Claims) = 0 /\ Cardinality(DOMAIN threads) = 0
    BY <1>2, <2>1, FS_EmptySet
  <2>3. \A p \in Players : writePos[p] = 0 /\ writeOffset[p] = 0
    BY <1>1 DEF Zeros
  <2>4. RoomInv
    BY <2>2, <2>3, Sizes DEF RoomInv
  <2> QED BY <1>2, <2>4 DEF ThreadInv, SlotInv, Writing
<1>7. StatsInv
  <2>1. Looked = {} /\ Finished = {}
    BY <1>1 DEF Looked, Finished
  <2>2. /\ Cardinality({b \in Looked : Expansion[b].kind = "pass"}) = 0
        /\ Cardinality({b \in Looked : Expansion[b].kind = "terminal"}) = 0
    BY <2>1, FS_EmptySet
  <2> QED BY <1>1, <2>1, <2>2 DEF StatsInv, NoStats
<1>8. FlushInv
  BY <1>1 DEF FlushInv
<1> QED BY <1>4, <1>5, <1>6, <1>7, <1>8 DEF GpuInv

(* A step that changes nothing keeps it.                                   *)
LEMMA GpuStuttering ==
  ASSUME GpuInv, UNCHANGED vars
  PROVE  GpuInv'
<1> USE DEF GpuInv
<1>1. UNCHANGED <<device, host, feeder>>
  BY DEF vars
<1>2. TypeInv' /\ BatchInv'
  <2>1. TypeOK'
    BY <1>1 DEF TypeInv, TypeOK, device, host, feeder
  <2> QED BY <1>1, <2>1 DEF TypeInv, BatchInv, device, host, feeder
<1>3. ThreadInv' /\ RoomInv' /\ SlotInv'
  BY <1>1, KernelIdle DEF device, host
<1>4. StatsInv'
  BY <1>1, StatsIdle DEF device, host, feeder
<1>5. FlushInv'
  <2>1. \A q \in Players : /\ Read(q, 0, unique[q])' = Read(q, 0, unique[q])
                           /\ (Stored(q) \cup Pending(q))' = Stored(q) \cup Pending(q)
    BY <1>1 DEF Read, Stored, Pending, Writing, Kid, device, host
  <2> QED BY <1>1, <2>1 DEF FlushInv, feeder
<1> QED BY <1>2, <1>3, <1>4, <1>5

(* The invariant holds in every reachable state.                           *)
LEMMA GpuInvariance == Spec => []GpuInv
<1>1. Init => GpuInv
  BY GpuInitial
<1>2. GpuInv /\ [Next]_vars => GpuInv'
  <2> SUFFICES ASSUME GpuInv, [Next]_vars PROVE GpuInv'
    OBVIOUS
  <2>1. CASE ReadBatch
    BY <2>1, ReadBatchStep
  <2>2. CASE ProcessBatch
    BY <2>2, ProcessBatchStep
  <2>3. CASE BatchDone
    BY <2>3, BatchDoneStep
  <2>4. CASE \E b \in DOMAIN threads : Look(b) \/ Claim(b) \/ Store(b) \/ Finish(b)
    BY <2>4, LookStep, ClaimStep, StoreStep, FinishStep
  <2>5. CASE FlushPrepare
    BY <2>5, FlushPrepareStep
  <2>6. CASE \E p \in Players : FlushRead(p)
    BY <2>6, FlushReadStep
  <2>7. CASE FlushReset
    BY <2>7, FlushResetStep
  <2>8. CASE UNCHANGED vars
    BY <2>8, GpuStuttering
  <2> QED BY <2>1, <2>2, <2>3, <2>4, <2>5, <2>6, <2>7, <2>8 DEF Next
<1> QED BY <1>1, <1>2, PTL DEF Spec

-----------------------------------------------------------------------------
(* The properties.                                                         *)

\* The device's counters and the host's copies stay within the array, and the
\* counts and statistics of a flush fit what it can have seen (GpuProcessBatch,
\* GpuFlushPrepare).
THEOREM GpuTypes == Spec => []TypeOK
<1>1. GpuInv => TypeOK
  BY DEF GpuInv, TypeInv
<1> QED BY <1>1, GpuInvariance, PTL

\* Two threads never write the same slot, and none writes a slot that holds a
\* board of this flush: ExpandKernel checks a position only against the capacity,
\* so this rests on the room GpuAccumulatorHasRoom saw before the launch.
THEOREM StacksStayApart == Spec => []StacksApart
<1>1. ASSUME GpuInv PROVE StacksApart
  <2> USE DEF GpuInv
  <2>1. writePos[Black] + writePos[White] <= Capacity
    BY <1>1, RoomLeft
  <2>2. ASSUME NEW b \in Writing
        PROVE  /\ Kid(b).player \in {White, Black} /\ threads[b].slot \in Int
               /\ writeOffset[Kid(b).player] <= threads[b].slot
               /\ threads[b].slot < writePos[Kid(b).player]
               /\ TargetOf(b) = IF Kid(b).player = Black THEN threads[b].slot
                                                         ELSE Capacity - 1 - threads[b].slot
    BY <1>1, RunningThread, Types DEF SlotInv, Writing, TargetOf, SlotOf, Thread, Players
  <2>3. White # Black /\ Capacity \in Int /\ \A p \in {White, Black} :
          writePos[p] \in Int /\ writeOffset[p] \in Nat /\ writeOffset[p] <= writePos[p]
    BY <1>1, Types, Sizes DEF RoomInv, Players
  <2>4. ASSUME NEW b \in Writing, NEW c \in Writing \ {b} PROVE TargetOf(b) # TargetOf(c)
    <3>1. Kid(b).player = Kid(c).player => threads[b].slot # threads[c].slot
      BY <1>1 DEF SlotInv
    <3>2. CASE Kid(b).player = Kid(c).player
      BY <2>2, <2>3, <3>1, <3>2
    <3>3. CASE Kid(b).player = Black /\ Kid(c).player = White
      BY <2>1, <2>2, <2>3, <3>3
    <3>4. CASE Kid(b).player = White /\ Kid(c).player = Black
      BY <2>1, <2>2, <2>3, <3>4
    <3> QED BY <2>2, <3>2, <3>3, <3>4
  <2>5. ASSUME NEW b \in Writing, NEW p \in Players, NEW i \in 0..writeOffset[p] - 1
        PROVE  TargetOf(b) # SlotOf(p, i)
    <3>1. i \in Int /\ i < writeOffset[p] /\ i < writePos[p] /\ p \in {White, Black}
      BY <2>3 DEF Players
    <3>2. SlotOf(p, i) = IF p = Black THEN i ELSE Capacity - 1 - i
      BY DEF SlotOf
    <3>3. CASE Kid(b).player = p
      BY <2>2, <2>3, <3>1, <3>2, <3>3
    <3>4. CASE Kid(b).player = Black /\ p = White
      BY <2>1, <2>2, <2>3, <3>1, <3>2, <3>4
    <3>5. CASE Kid(b).player = White /\ p = Black
      BY <2>1, <2>2, <2>3, <3>1, <3>2, <3>5
    <3> QED BY <2>2, <3>1, <3>3, <3>4, <3>5
  <2> QED BY <2>1, <2>4, <2>5 DEF StacksApart
<1> QED BY <1>1, GpuInvariance, PTL

\* A flush reports the passes, the terminal boards and the largest number of moves
\* of exactly the boards expanded since the reset, in whatever order the threads
\* of its batches added to the counters (d_batchStats, GpuFlushReset).
THEOREM StatsAreExact == Spec => []StatsExact
<1>1. ASSUME GpuInv PROVE StatsExact
  <2> USE DEF GpuInv
  <2> SUFFICES ASSUME phase = "prepared"
               PROVE  hostStats = [pass |-> Cardinality(OfKind("pass")),
                                   terminal |-> Cardinality(OfKind("terminal")),
                                   maxMoves |-> Max({0} \cup {Len(Children(b)) : b \in window})]
    BY DEF StatsExact
  <2>1. Looked = window /\ Finished = window
    BY <1>1 DEF Looked, Finished, BatchInv
  <2>2. /\ hostStats.pass = Cardinality(OfKind("pass"))
        /\ hostStats.terminal = Cardinality(OfKind("terminal"))
    BY <1>1, <2>1 DEF StatsInv, OfKind
  <2> DEFINE M == {0} \cup {Len(Children(b)) : b \in window}
             m == hostStats.maxMoves
  <2>3. m \in M /\ \A n \in M : m >= n
    <3>1. m = batchStats.maxMoves /\ m \in Nat
      BY <1>1, Types DEF StatsInv
    <3>2. \A b \in window : Len(Children(b)) <= m
      BY <1>1, <2>1, <3>1 DEF StatsInv
    <3>3. m \in M
      BY <1>1, <2>1, <3>1 DEF StatsInv
    <3>4. ASSUME NEW n \in M PROVE m >= n
      <4>1. CASE n = 0
        BY <3>1, <4>1
      <4>2. CASE \E b \in window : n = Len(Children(b))
        <5>1. PICK b \in window : n = Len(Children(b))
          BY <4>2
        <5>2. n \in Nat
          BY <1>1, <5>1, Boards DEF TypeInv, TypeOK
        <5> HIDE DEF m
        <5> QED BY <3>1, <3>2, <5>1, <5>2
      <4> QED BY <4>1, <4>2
    <3> QED BY <3>3, <3>4
  <2>4. \A n \in M : n \in Int
    BY <1>1, Boards DEF TypeInv, TypeOK
  <2> HIDE DEF M
  <2>5. \A n \in M : (\A k \in M : n >= k) => n = m
    BY <2>3, <2>4
  <2>6. Max(M) = m
    BY <2>3, <2>5 DEF Max
  <2>7. hostStats \in [pass : Nat, terminal : Nat, maxMoves : 0..MaxMoves]
    BY <1>1 DEF TypeInv, TypeOK
  <2> QED BY <2>2, <2>6, <2>7 DEF M
<1> QED BY <1>1, GpuInvariance, PTL

-----------------------------------------------------------------------------
(* The refinement. What the abstract specification calls wanted is stored  *)
(* in the array or still to be made by a running thread.                   *)

Wanted(p) == Stored(p) \cup Pending(p)
Busy(p) == {threads[b].slot : b \in {c \in Writing : Kid(c).player = p}}
PendingOf(b, p) ==
  {Children(b)[i].key : i \in {j \in threads[b].made + 1..Len(Children(b)) :
                                 Children(b)[j].player = p}}

(* The boards a player wants: those pending in threads and those stored.   *)
LEMMA WantedParts ==
  ASSUME TypeInv, TypeInv'
  PROVE  /\ \A p \in Players : Pending(p) = UNION {PendingOf(b, p) : b \in DOMAIN threads}
         /\ \A p \in Players : Pending(p)' = UNION {PendingOf(b, p)' : b \in DOMAIN threads'}
         /\ \A p \in Players :
              Stored(p) = {accum[SlotOf(p, i)] : i \in Region(writePos[p]) \ Busy(p)}
         /\ \A p \in Players :
              Stored(p)' = {accum'[SlotOf(p, i)] : i \in Region(writePos'[p]) \ Busy(p)'}
<1>1. \A n \in 0..Capacity : 0..Smaller(n, Capacity) - 1 = Region(n)
  BY Sizes DEF Smaller, Region
<1>2. \A p \in Players : writePos[p] \in 0..Capacity /\ writePos'[p] \in 0..Capacity
  BY DEF TypeInv, TypeOK
<1>3. /\ \A p \in Players : Pending(p) = UNION {PendingOf(b, p) : b \in DOMAIN threads}
      /\ \A p \in Players : Pending(p)' = UNION {PendingOf(b, p)' : b \in DOMAIN threads'}
  BY DEF Pending, PendingOf
<1>4. /\ \A p \in Players :
           Stored(p) = {accum[SlotOf(p, i)] : i \in (0..Smaller(writePos[p], Capacity) - 1) \ Busy(p)}
      /\ \A p \in Players :
           Stored(p)' = {accum'[SlotOf(p, i)] :
                           i \in (0..Smaller(writePos'[p], Capacity) - 1) \ Busy(p)'}
  BY DEF Stored, Busy
<1> QED BY <1>1, <1>2, <1>3, <1>4

\* A thread that neither claims nor stores changes nothing of it.
LEMMA QuietThread ==
  ASSUME GpuInv, GpuInv', NEW b \in DOMAIN threads, OnlyThread(b),
         threads[b].pc # "store", threads'[b].pc # "store",
         threads'[b].made = threads[b].made, UNCHANGED <<accum, writePos>>
  PROVE  \A p \in Players : Wanted(p)' = Wanted(p)
<1> USE DEF GpuInv
<1>1. Writing' = Writing /\ \A c \in Writing : threads'[c] = threads[c]
  BY DEF Writing, OnlyThread
<1>2. \A p : Busy(p)' = Busy(p)
  BY <1>1 DEF Busy, Kid
<1>3. \A c \in DOMAIN threads : \A p : PendingOf(c, p)' = PendingOf(c, p)
  BY DEF PendingOf, OnlyThread
<1>4. DOMAIN threads' = DOMAIN threads
  BY DEF OnlyThread
<1> QED BY <1>2, <1>3, <1>4, WantedParts DEF Wanted

(* A slot that is taken adds and loses no board.                           *)
LEMMA ClaimKeeps ==
  ASSUME GpuInv, GpuInv', NEW b \in DOMAIN threads, Claim(b)
  PROVE  \A p \in Players : Wanted(p)' = Wanted(p)
<1> USE DEF GpuInv
<1> DEFINE p == Kid(b).player
<1>1. p \in Players
  BY RunningThread DEF Claim
<1>2. /\ OnlyThread(b) /\ threads[b].pc = "claim"
      /\ threads'[b].pc = "store" /\ threads'[b].made = threads[b].made
      /\ threads'[b].slot = writePos[p]
  BY <1>1, ClaimMoves
<1>3. accum' = accum /\ writePos' = [writePos EXCEPT ![p] = @ + 1]
  BY DEF Claim
<1>4. \A c \in DOMAIN threads : Kid(c)' = Kid(c) /\ \A q : PendingOf(c, q)' = PendingOf(c, q)
  BY <1>2 DEF PendingOf, OnlyThread, Kid
<1>5. Writing' = Writing \cup {b} /\ b \notin Writing /\ Writing \subseteq DOMAIN threads
  BY <1>2 DEF Writing, OnlyThread
<1>6. \A c \in Writing : threads'[c].slot = threads[c].slot
  BY <1>2 DEF Writing, OnlyThread
<1>7. DOMAIN threads' = DOMAIN threads
  BY <1>2 DEF OnlyThread
<1>8. ASSUME NEW q \in Players PROVE Stored(q)' = Stored(q)
  <2>1. CASE q = p
    <3>1. Busy(q)' = Busy(q) \cup {writePos[q]}
      BY <1>2, <1>4, <1>5, <1>6, <2>1 DEF Busy
    <3>2. writePos'[q] = writePos[q] + 1 /\ writePos[q] \in Nat
      <4>1. writePos \in [Players -> 0..Capacity]
        BY DEF TypeInv, TypeOK
      <4> HIDE DEF p
      <4> QED BY <1>3, <2>1, <4>1, Types
    <3>3. Region(writePos'[q]) \ Busy(q)' = Region(writePos[q]) \ Busy(q)
      <4>1. \A n \in Nat : \A i : i \in Region(n + 1) /\ i # n <=> i \in Region(n)
        BY DEF Region
      <4> QED BY <3>1, <3>2, <4>1
    <3> QED BY <1>3, <3>3, WantedParts
  <2>2. CASE q # p
    <3>1. Busy(q)' = Busy(q)
      BY <1>2, <1>4, <1>5, <1>6, <2>2 DEF Busy
    <3>2. writePos'[q] = writePos[q]
      BY <1>3, <2>2 DEF TypeInv, TypeOK
    <3> QED BY <1>3, <3>1, <3>2, WantedParts
  <2> QED BY <2>1, <2>2
<1>9. ASSUME NEW q \in Players PROVE Pending(q)' = Pending(q)
  <2>1. {PendingOf(c, q)' : c \in DOMAIN threads'} = {PendingOf(c, q) : c \in DOMAIN threads}
    BY <1>4, <1>7
  <2> QED BY <2>1, WantedParts
<1> QED BY <1>8, <1>9 DEF Wanted

\* A store moves a board from the pending ones to the stored ones.
LEMMA StoreKeeps ==
  ASSUME GpuInv, GpuInv', NEW b \in DOMAIN threads, Store(b)
  PROVE  \A p \in Players : Wanted(p)' = Wanted(p)
<1> USE DEF GpuInv
<1>0. \E p \in Players, s \in Int, key \in Keys, m \in Nat :
        p = Kid(b).player /\ s = threads[b].slot /\ key = Kid(b).key /\ m = threads[b].made
  BY RunningThread, Types DEF Store, Thread
<1> PICK p \in Players, s \in Int, key \in Keys, m \in Nat :
      p = Kid(b).player /\ s = threads[b].slot /\ key = Kid(b).key /\ m = threads[b].made
  BY <1>0
<1>1. /\ OnlyThread(b) /\ threads[b].pc = "store"
      /\ threads'[b].pc = "claim" /\ threads'[b].made = m + 1
  BY StoreMoves
<1>2. m < Len(Children(b)) /\ Len(Children(b)) \in Nat
  BY <1>1, RunningThread
<1>3. b \in Writing /\ Writing \subseteq DOMAIN threads /\ Writing' = Writing \ {b}
  BY <1>1 DEF Writing, OnlyThread
<1>4. s \in Region(writePos[p]) /\ s < Capacity
  <2>1. writeOffset[p] <= s /\ s < writePos[p]
    BY <1>3 DEF SlotInv
  <2>2. writeOffset[p] \in 0..Capacity /\ writePos[p] \in 0..Capacity /\ s \in Int
    BY <1>2, Types DEF Thread
  <2> QED BY <2>1, <2>2, Sizes DEF Region
<1>5. /\ writePos' = writePos /\ SlotOf(p, s) \in Slots
      /\ accum' = [accum EXCEPT ![SlotOf(p, s)] = key]
  <2>1. writePos' = writePos /\ accum' = [accum EXCEPT ![SlotOf(p, s)] = key]
    BY <1>4 DEF Store
  <2>2. SlotOf(p, s) \in Slots
    <3>1. s \in Nat
      BY <1>4 DEF Region
    <3> QED BY <1>4, <3>1, Sizes DEF SlotOf, Slots
  <2> QED BY <2>1, <2>2
<1>6. accum \in [Slots -> Keys \cup {Junk}]
  BY DEF TypeInv, TypeOK
<1>7. accum'[SlotOf(p, s)] = key
  BY <1>5, <1>6
<1>8. ASSUME NEW q \in Players, NEW i \in Region(writePos[q]), q # p \/ i # s
      PROVE  SlotOf(q, i) \in Slots /\ accum'[SlotOf(q, i)] = accum[SlotOf(q, i)]
  <2>1. writePos[Black] + writePos[White] <= Capacity
    BY RoomLeft
  <2>2. \A r \in {White, Black} : writePos[r] \in 0..Capacity
    BY Types DEF Players
  <2>3. q \in {White, Black} /\ p \in {White, Black} /\ White # Black
    BY <1>2, Sizes DEF Players
  <2>4. i \in Nat /\ i < writePos[q] /\ s \in Nat /\ s < writePos[p]
    BY <1>4, <2>2, <2>3 DEF Region
  <2>5. SlotOf(q, i) \in Slots
    BY <2>2, <2>3, <2>4, Sizes DEF SlotOf, Slots
  <2>6. SlotOf(q, i) # SlotOf(p, s)
    <3>1. CASE q = p
      BY <1>8, <2>4, <3>1, Sizes DEF SlotOf
    <3>2. CASE q = Black /\ p = White
      BY <2>1, <2>2, <2>3, <2>4, <3>2, Sizes DEF SlotOf
    <3>3. CASE q = White /\ p = Black
      BY <2>1, <2>2, <2>3, <2>4, <3>3, Sizes DEF SlotOf
    <3> QED BY <2>3, <3>1, <3>2, <3>3
  <2> QED BY <1>5, <1>6, <2>5, <2>6
<1>9. \A c \in Writing \ {b} : threads'[c] = threads[c] /\ Kid(c)' = Kid(c)
  BY <1>1, <1>3 DEF OnlyThread, Kid
<1>10. Stored(p)' = Stored(p) \cup {key}
  <2>1. Busy(p)' = Busy(p) \ {s}
    <3>1. \A c \in Writing \ {b} : Kid(c).player = p => threads[c].slot # s
      BY <1>3 DEF SlotInv
    <3> QED BY <1>3, <1>9, <3>1 DEF Busy
  <2>2. s \in Busy(p)
    BY <1>3 DEF Busy
  <2>3. Region(writePos[p]) \ Busy(p)' = (Region(writePos[p]) \ Busy(p)) \cup {s}
    BY <1>4, <2>1, <2>2
  <2>4. Stored(p)' = {accum'[SlotOf(p, i)] : i \in (Region(writePos[p]) \ Busy(p)) \cup {s}}
    BY <1>2, <1>5, <2>3, WantedParts
  <2>5. \A i \in Region(writePos[p]) \ Busy(p) : accum'[SlotOf(p, i)] = accum[SlotOf(p, i)]
    BY <1>2, <1>8, <2>2
  <2>6. Stored(p) = {accum[SlotOf(p, i)] : i \in Region(writePos[p]) \ Busy(p)}
    BY <1>2, WantedParts
  <2> QED BY <1>7, <2>4, <2>5, <2>6
<1>11. ASSUME NEW q \in Players, q # p PROVE Stored(q)' = Stored(q)
  <2>1. Busy(q)' = Busy(q)
    BY <1>3, <1>9, <1>11 DEF Busy
  <2>2. \A i \in Region(writePos[q]) \ Busy(q) : accum'[SlotOf(q, i)] = accum[SlotOf(q, i)]
    BY <1>8, <1>11
  <2>3. Stored(q)' = {accum'[SlotOf(q, i)] : i \in Region(writePos[q]) \ Busy(q)}
    BY <1>5, <2>1, WantedParts
  <2>4. Stored(q) = {accum[SlotOf(q, i)] : i \in Region(writePos[q]) \ Busy(q)}
    BY WantedParts
  <2> QED BY <2>2, <2>3, <2>4
<1>12. \A c \in DOMAIN threads \ {b} : \A q : PendingOf(c, q)' = PendingOf(c, q)
  BY <1>1 DEF OnlyThread, PendingOf
<1>13. \A j : j \in m + 1..Len(Children(b)) <=> j = m + 1 \/ j \in (m + 1) + 1..Len(Children(b))
  BY <1>2
<1>14. Children(b)[m + 1].player = p /\ Children(b)[m + 1].key = key
  BY DEF Kid
<1>15. \A q : PendingOf(b, q)' = {Children(b)[i].key : i \in {j \in (m + 1) + 1..Len(Children(b)) :
                                                              Children(b)[j].player = q}}
  BY <1>1 DEF PendingOf
<1>16. /\ PendingOf(b, p) = PendingOf(b, p)' \cup {key}
       /\ \A q : q # p => PendingOf(b, q)' = PendingOf(b, q)
  <2>1. \A q : PendingOf(b, q) = {Children(b)[i].key : i \in {j \in m + 1..Len(Children(b)) :
                                                              Children(b)[j].player = q}}
    BY DEF PendingOf
  <2> DEFINE From(k, q) == {j \in k..Len(Children(b)) : Children(b)[j].player = q}
  <2>2. /\ From(m + 1, p) = From((m + 1) + 1, p) \cup {m + 1}
        /\ \A q : q # p => From(m + 1, q) = From((m + 1) + 1, q)
    BY <1>13, <1>14
  <2>3. \A q : /\ PendingOf(b, q) = {Children(b)[i].key : i \in From(m + 1, q)}
               /\ PendingOf(b, q)' = {Children(b)[i].key : i \in From((m + 1) + 1, q)}
    BY <1>15, <2>1
  <2> HIDE DEF From
  <2>4. PendingOf(b, p) = PendingOf(b, p)' \cup {key}
    <3>1. PendingOf(b, p) = {Children(b)[i].key : i \in From((m + 1) + 1, p) \cup {m + 1}}
      BY <2>2, <2>3
    <3>2. PendingOf(b, p)' = {Children(b)[i].key : i \in From((m + 1) + 1, p)}
      BY <2>3
    <3> QED BY <1>14, <3>1, <3>2
  <2>5. ASSUME NEW q, q # p PROVE PendingOf(b, q)' = PendingOf(b, q)
    <3>1. From(m + 1, q) = From((m + 1) + 1, q)
      BY <2>2, <2>5
    <3> QED BY <2>3, <3>1
  <2> QED BY <2>4, <2>5
<1>17. Pending(p) = Pending(p)' \cup {key}
  <2>1. /\ Pending(p) = UNION {PendingOf(c, p) : c \in DOMAIN threads}
        /\ Pending(p)' = UNION {PendingOf(c, p)' : c \in DOMAIN threads}
    BY <1>1, <1>2, WantedParts DEF OnlyThread
  <2> QED BY <1>12, <1>16, <2>1
<1>18. ASSUME NEW q \in Players, q # p PROVE Pending(q)' = Pending(q)
  <2>1. DOMAIN threads' = DOMAIN threads
    BY <1>1 DEF OnlyThread
  <2>2. \A c \in DOMAIN threads : PendingOf(c, q)' = PendingOf(c, q)
    BY <1>12, <1>16, <1>18
  <2>3. {PendingOf(c, q)' : c \in DOMAIN threads'} = {PendingOf(c, q) : c \in DOMAIN threads}
    BY <2>1, <2>2
  <2> QED BY <2>3, WantedParts
<1> QED BY <1>10, <1>11, <1>17, <1>18 DEF Wanted

(* The end of a batch adds and loses no board.                             *)
LEMMA BatchDoneKeeps ==
  ASSUME GpuInv, GpuInv', BatchDone
  PROVE  \A p \in Players : Wanted(p)' = Wanted(p)
<1> USE DEF GpuInv
<1>1. /\ threads' = <<>> /\ writePos' = writePos /\ accum' = accum
      /\ \A b \in DOMAIN threads : threads[b].pc = "done"
  BY DEF BatchDone
<1>2. DOMAIN threads' = {}
  BY <1>1
<1>3. Writing = {} /\ Writing' = {}
  BY <1>1, <1>2 DEF Writing
<1>4. ASSUME NEW p \in Players PROVE Stored(p)' = Stored(p)
  <2>1. Busy(p)' = Busy(p)
    BY <1>3 DEF Busy
  <2> QED BY <1>1, <2>1, WantedParts
<1>5. ASSUME NEW p \in Players PROVE Pending(p) = {} /\ Pending(p)' = {}
  <2>1. ASSUME NEW b \in DOMAIN threads PROVE PendingOf(b, p) = {}
    <3>1. threads[b].made = Len(Children(b)) /\ Len(Children(b)) \in Nat
      BY <1>1, RunningThread DEF ThreadInv
    <3> QED BY <3>1 DEF PendingOf
  <2> QED BY <1>2, <2>1, WantedParts
<1> QED BY <1>4, <1>5 DEF Wanted

\* A launch adds the children of its batch.
LEMMA ProcessBatchAdds ==
  ASSUME GpuInv, GpuInv', ProcessBatch
  PROVE  \A p \in Players : Wanted(p)' = Wanted(p) \cup KidsOf(batch)[p]
<1> USE DEF GpuInv
<1>1. /\ phase = "read" /\ writePos' = writeOffset /\ accum' = accum
      /\ threads' = [b \in batch |-> [pc |-> "start", made |-> 0, slot |-> -1]]
  BY DEF ProcessBatch
<1>2. DOMAIN threads = {} /\ writePos = writeOffset
  BY <1>1 DEF BatchInv
<1>3. DOMAIN threads' = batch /\ \A b \in batch : threads'[b].made = 0 /\ threads'[b].pc = "start"
  BY <1>1
<1>4. Writing = {} /\ Writing' = {}
  BY <1>2, <1>3 DEF Writing
<1>5. ASSUME NEW p \in Players PROVE Stored(p)' = Stored(p)
  <2>1. Busy(p)' = Busy(p)
    BY <1>4 DEF Busy
  <2>2. writePos' = writePos /\ accum' = accum
    BY <1>1, <1>2
  <2> QED BY <2>1, <2>2, WantedParts
<1>6. ASSUME NEW p \in Players PROVE Pending(p) = {} /\ Pending(p)' = KidsOf(batch)[p]
  <2>1. Pending(p) = {}
    BY <1>2, WantedParts
  <2>2. ASSUME NEW b \in batch
        PROVE  PendingOf(b, p)' = {c.key : c \in {k \in Range(Children(b)) : k.player = p}}
    <3>1. 0 + 1 = 1 /\ DOMAIN Children(b) = 1..Len(Children(b))
      BY Boards DEF TypeInv, TypeOK
    <3>2. PendingOf(b, p)' = {Children(b)[i].key : i \in {j \in 1..Len(Children(b)) :
                                                           Children(b)[j].player = p}}
      BY <1>3, <3>1 DEF PendingOf
    <3>3. Range(Children(b)) = {Children(b)[i] : i \in 1..Len(Children(b))}
      BY <3>1 DEF Range
    <3> QED BY <3>2, <3>3
  <2>3. Pending(p)' = UNION {PendingOf(b, p)' : b \in batch}
    BY <1>3, WantedParts
  <2>4. KidsOf(batch)[p]
          = {c.key : c \in {k \in UNION {Range(Children(b)) : b \in batch} : k.player = p}}
    BY DEF KidsOf
  <2>5. ASSUME NEW v PROVE v \in Pending(p)' <=> v \in KidsOf(batch)[p]
    <3>1. v \in Pending(p)' <=> \E b \in batch : v \in PendingOf(b, p)'
      BY <2>3
    <3>2. v \in KidsOf(batch)[p]
            <=> \E b \in batch : v \in {c.key : c \in {k \in Range(Children(b)) : k.player = p}}
      BY <2>4
    <3> QED BY <2>2, <3>1, <3>2
  <2> QED BY <2>1, <2>5
<1> QED BY <1>5, <1>6 DEF Wanted

(* A step that leaves the array and the threads alone keeps the boards.    *)
LEMMA ArrayKept ==
  ASSUME UNCHANGED <<accum, writePos, threads>>
  PROVE  \A p \in Players : Wanted(p)' = Wanted(p)
BY DEF Wanted, Stored, Pending, Writing, Kid

bar == [p \in Players |-> Stored(p) \cup Pending(p)]

(* What the mapping calls pending are the boards wanted.                   *)
LEMMA BarIsWanted ==
  /\ bar = [p \in Players |-> Wanted(p)] /\ bar' = [p \in Players |-> Wanted(p)']
BY DEF bar, Wanted

\* One step of the accumulator is a batch added, a set delivered, the reset, or
\* nothing the abstract specification sees.
LEMMA AccumulatorStep ==
  ASSUME GpuInv, GpuInv', [Next]_vars
  PROVE  [Abstract!Next]_<<[p \in Players |-> Stored(p) \cup Pending(p)], received>>
<1> USE DEF GpuInv
<1>1. ASSUME \A p \in Players : Wanted(p)' = Wanted(p), received' = received
      PROVE  UNCHANGED <<bar, received>>
  BY <1>1, BarIsWanted
<1>2. CASE ReadBatch
  BY <1>1, <1>2, ArrayKept DEF ReadBatch, device, bar
<1>3. CASE ProcessBatch
  <2>1. KidsOf(batch) \in AllBatches
    BY DEF AllBatches, TypeInv, TypeOK, BatchInv
  <2>2. bar' = [p \in Players |-> bar[p] \cup KidsOf(batch)[p]]
    BY <1>3, ProcessBatchAdds, BarIsWanted
  <2>3. received' = received
    BY <1>3 DEF ProcessBatch
  <2>4. Abstract!Add(KidsOf(batch))
    BY <2>2, <2>3 DEF Abstract!Add, bar
  <2> QED BY <2>1, <2>4 DEF Abstract!Next
<1>4. CASE BatchDone
  BY <1>1, <1>4, BatchDoneKeeps DEF BatchDone, bar
<1>5. ASSUME NEW b \in DOMAIN threads, Look(b) \/ Claim(b) \/ Store(b) \/ Finish(b)
      PROVE  UNCHANGED <<bar, received>>
  <2>1. received' = received
    BY <1>5 DEF Look, Claim, Store, Finish, feeder
  <2>2. CASE Look(b)
    <3>1. UNCHANGED <<accum, writePos>>
      BY <2>2 DEF Look
    <3> QED BY <1>1, <2>1, <2>2, <3>1, LookMoves, QuietThread
  <2>3. CASE Claim(b)
    BY <1>1, <2>1, <2>3, ClaimKeeps
  <2>4. CASE Store(b)
    BY <1>1, <2>1, <2>4, StoreKeeps
  <2>5. CASE Finish(b)
    <3>1. UNCHANGED <<accum, writePos>>
      BY <2>5 DEF Finish
    <3> QED BY <1>1, <2>1, <2>5, <3>1, FinishMoves, QuietThread
  <2> QED BY <1>5, <2>2, <2>3, <2>4, <2>5
<1>6. CASE FlushPrepare
  BY <1>1, <1>6, ArrayKept DEF FlushPrepare, bar
<1>7. ASSUME NEW p \in Players, FlushRead(p)
      PROVE  Abstract!Deliver(p)
  <2>1. /\ phase = "prepared" /\ received[p] = <<>>
        /\ received' = [received EXCEPT ![p] = Read(p, 0, unique[p])]
        /\ UNCHANGED <<accum, writePos, threads>>
    BY <1>7 DEF FlushRead, device
  <2>2. Read(p, 0, unique[p]) = Abstract!Sorted(bar[p])
    BY <2>1 DEF FlushInv, bar
  <2>3. bar' = bar
    BY <2>1, ArrayKept, BarIsWanted
  <2> QED BY <2>1, <2>2, <2>3 DEF Abstract!Deliver, bar
<1>8. CASE FlushReset
  <2>1. /\ phase = "prepared" /\ writePos' = Zeros /\ received' = Nothing
        /\ threads' = threads
        /\ \A p \in Players : Len(received[p]) = unique[p]
    BY <1>8 DEF FlushReset
  <2>2. DOMAIN threads = {}
    BY <2>1 DEF BatchInv
  <2>3. ASSUME NEW p \in Players PROVE received[p] = Abstract!Sorted(bar[p])
    <3>1. Read(p, 0, unique[p]) = Abstract!Sorted(bar[p])
      BY <2>1 DEF FlushInv, bar
    <3>2. CASE received[p] = <<>>
      <4>1. unique[p] = 0
        BY <2>1, <3>2
      <4>2. Read(p, 0, 0) = <<>>
        <5>1. Smaller(0 - 0, 0) = 0 /\ 1..0 = {}
          BY DEF Smaller
        <5>2. DOMAIN Read(p, 0, 0) = 1..Smaller(unique[p] - 0, 0)
          BY DEF Read
        <5>3. Read(p, 0, 0) = [i \in DOMAIN Read(p, 0, 0) |-> Read(p, 0, 0)[i]]
          BY DEF Read
        <5> QED BY <4>1, <5>1, <5>2, <5>3
      <4> QED BY <3>1, <3>2, <4>1, <4>2
    <3>3. CASE received[p] = Read(p, 0, unique[p])
      BY <3>1, <3>3
    <3> QED BY <2>1, <3>2, <3>3 DEF FlushInv
  <2>4. bar' = [p \in Players |-> {}]
    <3>1. ASSUME NEW p \in Players PROVE Wanted(p)' = {}
      <4>1. Pending(p)' = {}
        BY <2>1, <2>2, WantedParts
      <4>2. Region(writePos'[p]) = {}
        BY <2>1 DEF Zeros, Region
      <4>3. Stored(p)' = {}
        BY <4>2, WantedParts
      <4> QED BY <4>1, <4>3 DEF Wanted
    <3> QED BY <3>1, BarIsWanted
  <2>5. Abstract!Reset
    BY <2>1, <2>3, <2>4 DEF Abstract!Reset, Abstract!NoResult, Nothing, bar
  <2> QED BY <2>5 DEF Abstract!Next
<1>9. CASE UNCHANGED vars
  BY <1>1, <1>9, ArrayKept DEF vars, device, feeder, bar
<1>10. \A p \in Players : Abstract!Deliver(p) => Abstract!Next
  BY DEF Abstract!Next
<1> QED BY <1>2, <1>3, <1>4, <1>5, <1>6, <1>7, <1>8, <1>9, <1>10 DEF Next, bar

\* The accumulator implements a pair of sorted sets: what the merge writer reads
\* back are the children of every batch since the reset, once each, in ascending
\* order, and nothing of an earlier flush (GpuProcessBatch, SortAndDedupRegion,
\* GpuFlushRead, GpuFlushReset).
THEOREM AccumulatorRefines == Spec => DeliversSortedSets
<1>1. ASSUME Init PROVE Abstract!Init
  <2>1. /\ threads = <<>> /\ writePos = Zeros /\ received = Nothing
    BY <1>1 DEF Init
  <2>2. Writing = {} /\ \A p \in Players : Pending(p) = {}
    BY <2>1 DEF Writing, Pending
  <2>3. \A p \in Players : Smaller(writePos[p], Capacity) = 0
    BY <2>1, Sizes DEF Zeros, Smaller
  <2>4. \A p \in Players : Stored(p) = {}
    BY <2>3 DEF Stored
  <2> QED BY <2>1, <2>2, <2>4 DEF Abstract!Init, Abstract!NoResult, Nothing
<1> QED BY <1>1, AccumulatorStep, GpuInvariance, PTL DEF Spec, DeliversSortedSets, Abstract!Spec
=============================================================================
