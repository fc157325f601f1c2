----------------------------- MODULE SumProofs -----------------------------
(***************************************************************************)
(* Sums over finite sets. SumFunctionOnSet adds up the values of a         *)
(* function in the order CHOOSE prefers; here is that the order does not   *)
(* matter. Induction over finite sets is stated with the set of the good   *)
(* subsets instead of a predicate.                                         *)
(***************************************************************************)
EXTENDS Integers, FiniteSets, Functions, FiniteSetTheorems, WellFoundedInduction, TLAPS

(* A set of numbers that is not empty has a least one.                     *)
LEMMA LeastNumber ==
  ASSUME NEW T \in SUBSET Nat, T # {}
  PROVE  \E m \in T : \A n \in T : m <= n
<1>1. PICK m \in T : \A n \in T : ~(<<n, m>> \in OpToRel(<, Nat))
  BY NatLessThanWellFounded, WFMin
<1>2. \A n \in T : ~(n < m)
  BY <1>1 DEF OpToRel
<1> QED BY <1>2

(* If every nonempty subset is good whose smaller ones by one element are, *)
(* then all subsets of a finite set are good.                              *)
LEMMA FiniteInduction ==
  ASSUME NEW S, IsFiniteSet(S), NEW Good, {} \in Good,
         \A s \in SUBSET S : s # {} /\ (\A x \in s : s \ {x} \in Good) => s \in Good
  PROVE  \A s \in SUBSET S : s \in Good
<1> DEFINE T == {n \in Nat : \E s \in SUBSET S : s \notin Good /\ Cardinality(s) = n}
<1>1. \A s \in SUBSET S : IsFiniteSet(s) /\ Cardinality(s) \in Nat
  BY FS_Subset, FS_CardinalityType
<1>2. CASE T = {}
  BY <1>1, <1>2
<1>3. CASE T # {}
  <2>1. PICK m \in T : \A n \in T : m <= n
    BY <1>3, LeastNumber
  <2>2. PICK s \in SUBSET S : s \notin Good /\ Cardinality(s) = m
    BY <2>1
  <2>3. ASSUME NEW x \in s PROVE s \ {x} \in Good
    <3>1. Cardinality(s \ {x}) = m - 1
      BY <1>1, <2>2, FS_RemoveElement
    <3>2. s \ {x} \in SUBSET S
      BY <2>2
    <3>3. Cardinality(s \ {x}) \in Nat
      BY <3>2, <1>1
    <3>4. ~(m <= m - 1)
      BY <2>1
    <3> QED BY <2>1, <3>1, <3>2, <3>3, <3>4
  <2> QED BY <2>2, <2>3
<1> QED BY <1>2, <1>3

-----------------------------------------------------------------------------
(* The recursive function behind a sum.                                    *)

FirstOf(s) == CHOOSE x \in s : TRUE
AddFirst(f, g, s) == IF s = {} THEN 0 ELSE f[FirstOf(s)] + g[s \ {FirstOf(s)}]

(* g adds up f on every part of S.                                         *)
Adds(g, f, S) == g = [s \in SUBSET S |-> AddFirst(f, g, s)]

(* A sum is the value of a chosen function that adds up.                   *)
LEMMA SumIsChosen ==
  ASSUME NEW f, NEW S
  PROVE  SumFunctionOnSet(f, S) = (CHOOSE g : Adds(g, f, S))[S]
BY DEF SumFunctionOnSet, FoldFunctionOnSet, MapThenFoldSet, Adds, AddFirst, FirstOf

(* Such a function exists: it is built for larger and larger parts.        *)
LEMMA SumExists ==
  ASSUME NEW f, NEW S, IsFiniteSet(S)
  PROVE  \E g : Adds(g, f, S)
<1> DEFINE Until(g, n) == \A s \in SUBSET S : Cardinality(s) < n => g[s] = AddFirst(f, g, s)
           Ok(n) == \E g : g = [s \in SUBSET S |-> g[s]] /\ Until(g, n)
           Bad == {n \in Nat : ~Ok(n)}
<1>1. \A s \in SUBSET S : IsFiniteSet(s) /\ Cardinality(s) \in Nat
  BY FS_Subset, FS_CardinalityType
<1>2. Ok(0)
  <2>1. Until([s \in SUBSET S |-> 0], 0)
    BY <1>1
  <2> QED BY <2>1
<1>3. ASSUME NEW n \in Nat, Ok(n) PROVE Ok(n + 1)
  <2>1. PICK g : g = [s \in SUBSET S |-> g[s]] /\ Until(g, n)
    BY <1>3
  <2> DEFINE h == [s \in SUBSET S |-> AddFirst(f, g, s)]
  <2>2. ASSUME NEW s \in SUBSET S, Cardinality(s) < n + 1 PROVE h[s] = AddFirst(f, h, s)
    <3>1. CASE s = {}
      BY <3>1 DEF AddFirst
    <3>2. CASE s # {}
      <4>1. FirstOf(s) \in s
        BY <3>2 DEF FirstOf
      <4>2. PICK r : r = s \ {FirstOf(s)}
        OBVIOUS
      <4>3. r \in SUBSET S /\ Cardinality(r) = Cardinality(s) - 1
        BY <1>1, <4>1, <4>2, FS_RemoveElement
      <4>4. Cardinality(r) < n
        BY <1>1, <2>2, <4>3
      <4>5. g[r] = AddFirst(f, g, r)
        BY <2>1, <4>3, <4>4
      <4>6. h[r] = g[r]
        BY <4>3, <4>5
      <4> HIDE DEF h
      <4>7. AddFirst(f, g, s) = AddFirst(f, h, s)
        BY <3>2, <4>2, <4>6 DEF AddFirst
      <4> QED BY <4>7 DEF h
    <3> QED BY <3>1, <3>2
  <2>3. h = [s \in SUBSET S |-> h[s]]
    OBVIOUS
  <2> HIDE DEF h
  <2> QED BY <2>2, <2>3
<1> HIDE DEF Ok
<1>4. ASSUME NEW n \in Nat PROVE Ok(n)
  <2>1. CASE Bad = {}
    BY <2>1
  <2>2. CASE Bad # {}
    <3>1. PICK m \in Bad : \A k \in Bad : m <= k
      BY <2>2, LeastNumber
    <3>2. m # 0
      BY <1>2, <3>1
    <3>3. m - 1 \in Nat /\ ~(m <= m - 1) /\ m = (m - 1) + 1
      BY <3>1, <3>2
    <3>4. Ok(m - 1)
      BY <3>1, <3>3
    <3> QED BY <1>3, <3>1, <3>3, <3>4
  <2> QED BY <2>1, <2>2
<1>5. Cardinality(S) + 1 \in Nat
  BY FS_CardinalityType
<1>6. PICK g : g = [s \in SUBSET S |-> g[s]] /\ Until(g, Cardinality(S) + 1)
  BY <1>4, <1>5 DEF Ok
<1>7. ASSUME NEW s \in SUBSET S PROVE g[s] = AddFirst(f, g, s)
  <2>1. Cardinality(s) <= Cardinality(S)
    BY FS_Subset
  <2>2. Cardinality(s) < Cardinality(S) + 1
    BY <1>1, <1>5, <2>1, FS_CardinalityType
  <2> QED BY <1>6, <2>2
<1> QED BY <1>6, <1>7 DEF Adds

(* Two functions that add up the same values agree, also when they run     *)
(* over different sets.                                                    *)
LEMMA SumUnique ==
  ASSUME NEW f, NEW e, NEW S, NEW R, NEW g, NEW h, IsFiniteSet(S),
         Adds(g, f, S), Adds(h, e, R), S \subseteq R, \A x \in S : f[x] = e[x]
  PROVE  g[S] = h[S]
<1> DEFINE Good == {s \in SUBSET S : g[s] = h[s]}
<1>1. \A s \in SUBSET S : g[s] = AddFirst(f, g, s) /\ h[s] = AddFirst(e, h, s)
  BY DEF Adds
<1>2. {} \in Good
  BY <1>1 DEF AddFirst
<1>3. ASSUME NEW s \in SUBSET S, s # {}, \A x \in s : s \ {x} \in Good PROVE s \in Good
  <2>1. FirstOf(s) \in s
    BY <1>3 DEF FirstOf
  <2>2. g[s \ {FirstOf(s)}] = h[s \ {FirstOf(s)}]
    BY <1>3, <2>1
  <2> QED BY <1>1, <1>3, <2>1, <2>2 DEF AddFirst
<1> HIDE DEF Good
<1>4. \A s \in SUBSET S : s \in Good
  BY <1>2, <1>3, FiniteInduction
<1> QED BY <1>4 DEF Good

-----------------------------------------------------------------------------
(* What a sum is, without the order.                                       *)

Sum(f, S) == SumFunctionOnSet(f, S)

(* The sum over part of a set is what the larger set's function says.      *)
LEMMA SumOfPart ==
  ASSUME NEW f, NEW S, IsFiniteSet(S), NEW s \in SUBSET S
  PROVE  Sum(f, s) = AddFirst(f, [r \in SUBSET S |-> Sum(f, r)], s)
<1>1. PICK g : g = (CHOOSE k : Adds(k, f, S)) /\ Adds(g, f, S)
  BY SumExists
<1>2. ASSUME NEW r \in SUBSET S PROVE Sum(f, r) = g[r]
  <2>1. IsFiniteSet(r)
    BY FS_Subset
  <2>2. PICK h : h = (CHOOSE k : Adds(k, f, r)) /\ Adds(h, f, r)
    BY <2>1, SumExists
  <2>3. h[r] = g[r]
    BY <1>1, <2>1, <2>2, SumUnique
  <2> QED BY <2>2, <2>3, SumIsChosen DEF Sum
<1>3. g[s] = AddFirst(f, g, s)
  BY <1>1 DEF Adds
<1>4. s # {} => FirstOf(s) \in s
  BY DEF FirstOf
<1> QED BY <1>2, <1>3, <1>4 DEF AddFirst

(* The element CHOOSE prefers may be taken out.                            *)
LEMMA SumOfFirst ==
  ASSUME NEW f, NEW S, IsFiniteSet(S), NEW s \in SUBSET S, s # {}
  PROVE  Sum(f, s) = f[FirstOf(s)] + Sum(f, s \ {FirstOf(s)})
<1>1. s \ {FirstOf(s)} \in SUBSET S
  OBVIOUS
<1> QED BY <1>1, SumOfPart DEF AddFirst

(* Nothing adds up to zero.                                                *)
LEMMA SumEmpty == \A f : Sum(f, {}) = 0
BY SumOfPart, FS_EmptySet DEF AddFirst

(* Only the values on the set matter.                                      *)
LEMMA SumSame ==
  ASSUME NEW f, NEW e, NEW S, IsFiniteSet(S), \A x \in S : f[x] = e[x]
  PROVE  Sum(f, S) = Sum(e, S)
<1>1. PICK g : g = (CHOOSE k : Adds(k, f, S)) /\ Adds(g, f, S)
  BY SumExists
<1>2. PICK h : h = (CHOOSE k : Adds(k, e, S)) /\ Adds(h, e, S)
  BY SumExists
<1>3. g[S] = h[S]
  BY <1>1, <1>2, SumUnique
<1> QED BY <1>1, <1>2, <1>3, SumIsChosen DEF Sum

(* Integers add up to an integer.                                          *)
LEMMA SumIsInt ==
  ASSUME NEW f, NEW S, IsFiniteSet(S), \A x \in S : f[x] \in Int
  PROVE  Sum(f, S) \in Int
<1> DEFINE Good == {s \in SUBSET S : Sum(f, s) \in Int}
<1>1. {} \in Good
  BY SumEmpty
<1>2. ASSUME NEW s \in SUBSET S, s # {}, \A x \in s : s \ {x} \in Good PROVE s \in Good
  <2>1. PICK y \in s : y = FirstOf(s)
    BY <1>2 DEF FirstOf
  <2>2. Sum(f, s) = f[y] + Sum(f, s \ {y})
    BY <1>2, <2>1, SumOfFirst
  <2> QED BY <1>2, <2>2
<1> HIDE DEF Good
<1>3. \A s \in SUBSET S : s \in Good
  BY <1>1, <1>2, FiniteInduction
<1> QED BY <1>3 DEF Good

(* Any element may be taken out of the sum.                                *)
LEMMA SumRemove ==
  ASSUME NEW f, NEW S, IsFiniteSet(S), \A x \in S : f[x] \in Int
  PROVE  \A x \in S : Sum(f, S) = f[x] + Sum(f, S \ {x})
<1> DEFINE Good == {s \in SUBSET S : \A x \in s : Sum(f, s) = f[x] + Sum(f, s \ {x})}
<1>1. {} \in Good
  BY SumEmpty
<1>2. ASSUME NEW s \in SUBSET S, s # {}, \A x \in s : s \ {x} \in Good PROVE s \in Good
  <2>1. PICK y \in s : y = FirstOf(s)
    BY <1>2 DEF FirstOf
  <2>2. Sum(f, s) = f[y] + Sum(f, s \ {y})
    BY <1>2, <2>1, SumOfFirst
  <2>3. \A x \in s : Sum(f, s \ {x}) \in Int /\ f[x] \in Int
    BY SumIsInt, FS_Subset
  <2>4. ASSUME NEW x \in s PROVE Sum(f, s) = f[x] + Sum(f, s \ {x})
    <3>1. CASE x = y
      BY <2>2, <3>1
    <3>2. CASE x # y
      <4>1. Sum(f, s \ {y}) = f[x] + Sum(f, (s \ {y}) \ {x})
        BY <1>2, <3>2
      <4>2. Sum(f, s \ {x}) = f[y] + Sum(f, (s \ {x}) \ {y})
        BY <1>2, <3>2
      <4>3. (s \ {y}) \ {x} = (s \ {x}) \ {y}
        OBVIOUS
      <4>4. PICK r : r = Sum(f, (s \ {x}) \ {y})
        OBVIOUS
      <4>6. Sum(f, s \ {x}) = f[y] + r /\ Sum(f, s \ {y}) = f[x] + r
        BY <4>1, <4>2, <4>3, <4>4
      <4>7. r \in Int
        <5>1. (s \ {x}) \ {y} \in SUBSET S /\ IsFiniteSet((s \ {x}) \ {y})
          BY FS_Subset
        <5> QED BY <4>4, <5>1, SumIsInt
      <4> QED BY <2>2, <2>3, <4>6, <4>7
    <3> QED BY <3>1, <3>2
  <2> QED BY <2>4
<1> HIDE DEF Good
<1>3. \A s \in SUBSET S : s \in Good
  BY <1>1, <1>2, FiniteInduction
<1> QED BY <1>3 DEF Good

(* Natural numbers add up to a natural number.                             *)
LEMMA SumIsNat ==
  ASSUME NEW f, NEW S, IsFiniteSet(S), \A x \in S : f[x] \in Nat
  PROVE  Sum(f, S) \in Nat
<1> DEFINE Good == {s \in SUBSET S : Sum(f, s) \in Nat}
<1>1. {} \in Good
  BY SumEmpty
<1>2. ASSUME NEW s \in SUBSET S, s # {}, \A x \in s : s \ {x} \in Good PROVE s \in Good
  <2>1. PICK y \in s : y = FirstOf(s)
    BY <1>2 DEF FirstOf
  <2>2. Sum(f, s) = f[y] + Sum(f, s \ {y})
    BY <1>2, <2>1, SumOfFirst
  <2> QED BY <1>2, <2>2
<1> HIDE DEF Good
<1>3. \A s \in SUBSET S : s \in Good
  BY <1>1, <1>2, FiniteInduction
<1> QED BY <1>3 DEF Good

(* The sum of two functions, added value by value.                         *)
LEMMA SumPlus ==
  ASSUME NEW f, NEW e, NEW S, IsFiniteSet(S), \A x \in S : f[x] \in Int /\ e[x] \in Int
  PROVE  Sum([x \in S |-> f[x] + e[x]], S) = Sum(f, S) + Sum(e, S)
<1> DEFINE h == [x \in S |-> f[x] + e[x]]
           Good == {s \in SUBSET S : Sum(h, s) = Sum(f, s) + Sum(e, s)}
<1>1. {} \in Good
  BY SumEmpty
<1>2. ASSUME NEW s \in SUBSET S, s # {}, \A x \in s : s \ {x} \in Good PROVE s \in Good
  <2>1. PICK y \in s : y = FirstOf(s)
    BY <1>2 DEF FirstOf
  <2>2. /\ Sum(f, s) = f[y] + Sum(f, s \ {y})
        /\ Sum(e, s) = e[y] + Sum(e, s \ {y})
        /\ Sum(h, s) = h[y] + Sum(h, s \ {y})
    BY <1>2, <2>1, SumOfFirst
  <2>3. Sum(h, s \ {y}) = Sum(f, s \ {y}) + Sum(e, s \ {y}) /\ h[y] = f[y] + e[y]
    BY <1>2
  <2>4. IsFiniteSet(s \ {y}) /\ s \ {y} \subseteq S
    BY FS_Subset
  <2>5. Sum(f, s \ {y}) \in Int /\ Sum(e, s \ {y}) \in Int /\ f[y] \in Int /\ e[y] \in Int
    BY <2>4, SumIsInt
  <2> HIDE DEF h
  <2>6. Sum(h, s) = Sum(f, s) + Sum(e, s)
    BY <2>2, <2>3, <2>5
  <2> QED BY <2>6
<1> HIDE DEF Good
<1>3. \A s \in SUBSET S : s \in Good
  BY <1>1, <1>2, FiniteInduction
<1> QED BY <1>3 DEF Good

(* Larger values, larger sum.                                              *)
LEMMA SumMonotone ==
  ASSUME NEW f, NEW e, NEW S, IsFiniteSet(S),
         \A x \in S : f[x] \in Int /\ e[x] \in Int /\ f[x] <= e[x]
  PROVE  Sum(f, S) <= Sum(e, S)
<1> DEFINE d == [x \in S |-> e[x] - f[x]]
<1>1. \A x \in S : d[x] \in Nat /\ f[x] + d[x] = e[x]
  OBVIOUS
<1>2. \A x \in S : d[x] \in Int
  BY <1>1
<1> HIDE DEF d
<1>3. Sum(f, S) \in Int /\ Sum(d, S) \in Nat
  BY <1>1, SumIsInt, SumIsNat
<1>4. Sum([x \in S |-> f[x] + d[x]], S) = Sum(f, S) + Sum(d, S)
  BY <1>2, SumPlus
<1>5. \A x \in S : [y \in S |-> f[y] + d[y]][x] = e[x]
  BY <1>1
<1>6. Sum([x \in S |-> f[x] + d[x]], S) = Sum(e, S)
  BY <1>5, SumSame
<1> QED BY <1>3, <1>4, <1>6

(* One value is changed.                                                   *)
LEMMA SumChange ==
  ASSUME NEW f, NEW e, NEW S, IsFiniteSet(S), NEW x \in S,
         \A y \in S : f[y] \in Int /\ e[y] \in Int,
         \A y \in S \ {x} : e[y] = f[y]
  PROVE  Sum(e, S) = Sum(f, S) - f[x] + e[x]
<1>1. IsFiniteSet(S \ {x})
  BY FS_Subset
<1>2. Sum(f, S \ {x}) = Sum(e, S \ {x}) /\ Sum(f, S \ {x}) \in Int
  BY <1>1, SumSame, SumIsInt
<1>3. Sum(f, S) = f[x] + Sum(f, S \ {x}) /\ Sum(e, S) = e[x] + Sum(e, S \ {x})
  BY SumRemove
<1> QED BY <1>2, <1>3

(* Sets without a common element.                                          *)
LEMMA SumDisjoint ==
  ASSUME NEW f, NEW A, NEW B, IsFiniteSet(A), IsFiniteSet(B), A \cap B = {},
         \A x \in A \cup B : f[x] \in Int
  PROVE  Sum(f, A \cup B) = Sum(f, A) + Sum(f, B)
<1> DEFINE Good == {s \in SUBSET A : Sum(f, s \cup B) = Sum(f, s) + Sum(f, B)}
<1>0. Sum(f, B) \in Int
  BY SumIsInt
<1>1. {} \in Good
  BY <1>0, SumEmpty
<1>2. ASSUME NEW s \in SUBSET A, s # {}, \A x \in s : s \ {x} \in Good PROVE s \in Good
  <2>1. PICK y \in s : TRUE
    BY <1>2
  <2>2. IsFiniteSet(s) /\ IsFiniteSet(s \cup B) /\ IsFiniteSet(s \ {y})
    BY FS_Subset, FS_Union
  <2>3. Sum(f, s) = f[y] + Sum(f, s \ {y})
    BY <2>2, SumRemove
  <2>4. (s \cup B) \ {y} = (s \ {y}) \cup B
    BY <2>1
  <2>5. Sum(f, s \cup B) = f[y] + Sum(f, (s \ {y}) \cup B)
    <3>1. Sum(f, s \cup B) = f[y] + Sum(f, (s \cup B) \ {y})
      BY <2>2, SumRemove
    <3> QED BY <2>4, <3>1
  <2>6. Sum(f, (s \ {y}) \cup B) = Sum(f, s \ {y}) + Sum(f, B)
    BY <1>2
  <2>7. Sum(f, s \ {y}) \in Int /\ f[y] \in Int
    BY <2>2, SumIsInt
  <2>8. Sum(f, s \cup B) = Sum(f, s) + Sum(f, B)
    BY <1>0, <2>3, <2>5, <2>6, <2>7
  <2> QED BY <2>8
<1> HIDE DEF Good
<1>3. \A s \in SUBSET A : s \in Good
  BY <1>1, <1>2, FiniteInduction
<1> QED BY <1>3 DEF Good

(* More values that are not negative, larger sum.                          *)
LEMMA SumGrows ==
  ASSUME NEW f, NEW A, NEW B, IsFiniteSet(B), A \subseteq B, \A x \in B : f[x] \in Nat
  PROVE  Sum(f, A) \in Nat /\ Sum(f, B) \in Nat /\ Sum(f, A) <= Sum(f, B)
<1>1. IsFiniteSet(A) /\ IsFiniteSet(B \ A) /\ A \cup (B \ A) = B
  BY FS_Subset
<1>2. Sum(f, A) \in Nat /\ Sum(f, B \ A) \in Nat /\ Sum(f, B) \in Nat
  BY <1>1, SumIsNat
<1>3. Sum(f, A \cup (B \ A)) = Sum(f, A) + Sum(f, B \ A)
  BY <1>1, SumDisjoint
<1> QED BY <1>1, <1>2, <1>3
=============================================================================
