-------------------------- MODULE BlasterFileProofs --------------------------
(***************************************************************************)
(* A BLF file is opened exactly when it is whole or ends in two boards that *)
(* read like a trailer, and what is read from a whole one is what was      *)
(* written, for all records, widths and sizes of buffers.                  *)
(*                                                                         *)
(* A body is described from its bytes S: v[j] of them are the first j      *)
(* varints, whose numbers are Z, which encode the records. FileInv says    *)
(* how far S has come into the file; ReadInv how far it has come out.      *)
(***************************************************************************)
EXTENDS BlasterFile, SumProofs, SequenceTheorems

-----------------------------------------------------------------------------
(* Delta and zigzag.                                                       *)

(* The numbers. *)
LEMMA Numbers ==
  /\ Half \in Nat /\ Half > 0 /\ Base \in Nat /\ Base > 1
  /\ MaxRecords \in Nat /\ VarBufSize \in Nat /\ ReadBufSize \in Nat /\ ReadBufSize > 0
  /\ MaxCount \in Nat /\ MaxCount > 0 /\ MaxRecords > 0
  /\ \A w \in Word : w \in Nat /\ w < 2 * Half
BY FileAssumption DEF Word

(* Quotient and remainder are unique. *)
LEMMA Remainder ==
  ASSUME NEW v \in Int, NEW b \in Int, b > 0,
         NEW q \in Int, NEW r \in 0..b - 1, v = b * q + r
  PROVE  v % b = r
OBVIOUS

(* What division leaves. *)
LEMMA DivMod ==
  ASSUME NEW v \in Nat, NEW b \in Nat, b > 1
  PROVE  /\ v \div b \in Nat /\ v % b \in 0..b - 1
         /\ v = b * (v \div b) + (v % b)
         /\ v >= b => v \div b > 0 /\ v \div b < v
<1> DEFINE q == v \div b
           r == v - b * q
<1>1. q \in Int
  OBVIOUS
<1>2. b * q <= v /\ v < b * q + b
  OBVIOUS
<1> HIDE DEF q
<1>3. b * q \in Int
  BY <1>1
<1>4. r \in 0..b - 1 /\ v = b * q + r
  BY <1>2, <1>3
<1> HIDE DEF r
<1>5. v % b = r
  BY <1>1, <1>4, Remainder
<1>6. q >= 0
  <2>1. q < 0 => b * q <= -b
    BY <1>1
  <2> QED BY <1>1, <1>2, <1>3, <2>1
<1>7. v >= b => q > 0
  <2>1. q = 0 => b * q = 0
    OBVIOUS
  <2> QED BY <1>1, <1>2, <1>3, <1>6, <2>1
<1>8. q > 0 => q < b * q
  BY <1>1
<1>9. v >= b => q < v
  BY <1>1, <1>2, <1>3, <1>7, <1>8
<1>10. q \in Nat /\ v % b \in 0..b - 1 /\ v = b * q + (v % b)
  BY <1>1, <1>4, <1>5, <1>6
<1>11. /\ q \in Nat /\ v % b \in 0..b - 1 /\ v = b * q + (v % b)
       /\ v >= b => q > 0 /\ q < v
  BY ONLY <1>7, <1>9, <1>10
<1> QED BY ONLY <1>11 DEF q

(* Wrapping by less than one width. *)
LEMMA WrapOnce ==
  ASSUME NEW n \in Int, n >= -2 * Half, n < 4 * Half
  PROVE  /\ Wrap(n) \in Word
         /\ Wrap(n) = IF n < 0 THEN n + 2 * Half ELSE IF n < 2 * Half THEN n ELSE n - 2 * Half
<1> DEFINE M == 2 * Half
           r == IF n < 0 THEN n + M ELSE IF n < M THEN n ELSE n - M
           q == IF n < 0 THEN -1 ELSE IF n < M THEN 0 ELSE 1
<1>1. M \in Int /\ M > 0 /\ Half \in Nat
  BY Numbers
<1>2. r \in 0..M - 1
  BY <1>1
<1>3. q \in Int /\ n = M * q + r
  <2>1. M * (-1) = -M /\ M * 0 = 0 /\ M * 1 = M
    BY <1>1
  <2>2. CASE n < 0
    BY <1>1, <2>1, <2>2
  <2>3. CASE n >= 0 /\ n < M
    BY <1>1, <2>1, <2>3
  <2>4. CASE n >= M
    BY <1>1, <2>1, <2>4
  <2> QED BY <1>1, <2>2, <2>3, <2>4
<1>4. n % M = r
  <2> HIDE DEF M, q, r
  <2> QED BY <1>1, <1>2, <1>3, Remainder
<1> QED BY <1>2, <1>4 DEF Wrap, Word

(* A difference is a number with sign, and adding it restores the word. *)
LEMMA DeltaAdds ==
  ASSUME NEW u \in Word, NEW p \in Word
  PROVE  /\ Delta(u, p) \in -Half..Half - 1
         /\ Wrap(p + Delta(u, p)) = u
<1>1. u \in Nat /\ p \in Nat /\ u < 2 * Half /\ p < 2 * Half /\ Half \in Nat
  BY Numbers
<1>2. Wrap(u - p) = IF u - p < 0 THEN u - p + 2 * Half ELSE u - p
  BY <1>1, WrapOnce
<1>3. Delta(u, p) = IF Wrap(u - p) < Half THEN Wrap(u - p) ELSE Wrap(u - p) - 2 * Half
  BY DEF Delta, Signed
<1> DEFINE d == Delta(u, p)
<1>4. d \in Int /\ d >= -Half /\ d < Half
  BY <1>1, <1>2, <1>3
<1>5. p + d = u \/ p + d = u + 2 * Half \/ p + d = u - 2 * Half
  BY <1>1, <1>2, <1>3
<1> HIDE DEF d
<1>6. Wrap(p + d) = IF p + d < 0 THEN p + d + 2 * Half ELSE IF p + d < 2 * Half THEN p + d ELSE p + d - 2 * Half
  BY <1>1, <1>4, WrapOnce
<1>7. Wrap(p + d) = u
  BY <1>1, <1>4, <1>5, <1>6
<1> QED BY <1>1, <1>4, <1>7 DEF d

(* Zigzag maps numbers with sign to words, and back. *)
LEMMA ZigZag ==
  ASSUME NEW v \in -Half..Half - 1
  PROVE  ZZEnc(v) \in Word /\ ZZDec(ZZEnc(v)) = v
<1>1. Half \in Nat /\ Half > 0
  BY Numbers
<1> DEFINE w == IF v < 0 THEN -v * 2 - 1 ELSE v * 2
<1>2. w \in Int /\ w >= 0 /\ w < 2 * Half
  BY <1>1
<1>3. ZZEnc(v) = w
  <2>1. Wrap(w) = w
    <3> HIDE DEF w
    <3> QED BY <1>1, <1>2, WrapOnce
  <2>2. ZZEnc(v) = Wrap(w)
    BY DEF ZZEnc
  <2> QED BY <2>1, <2>2
<1>4. ZZDec(w) = v
  <2>1. CASE v < 0
    <3>1. w = 2 * (-v - 1) + 1 /\ -v - 1 \in Nat
      BY <1>1, <2>1
    <3>2. w % 2 = 1 /\ w \div 2 = -v - 1
      <4> HIDE DEF w
      <4> QED BY <3>1
    <3> HIDE DEF w
    <3> QED BY <1>1, <3>2 DEF ZZDec
  <2>2. CASE v >= 0
    <3>1. w = 2 * v /\ v \in Nat
      BY <1>1, <2>2
    <3>2. w % 2 = 0 /\ w \div 2 = v
      <4> HIDE DEF w
      <4> QED BY <3>1
    <3> HIDE DEF w
    <3> QED BY <1>1, <3>2 DEF ZZDec
  <2> QED BY <1>1, <2>1, <2>2
<1>5. w \in Word
  BY <1>2, Numbers DEF Word
<1> HIDE DEF w
<1> QED BY <1>3, <1>4, <1>5

(* What the writer computes of a field, the reader turns into the field. *)
THEOREM DeltaRestores ==
  ASSUME NEW u \in Word, NEW p \in Word
  PROVE  /\ ZZEnc(Delta(u, p)) \in Word
         /\ Wrap(p + ZZDec(ZZEnc(Delta(u, p)))) = u
BY DeltaAdds, ZigZag

-----------------------------------------------------------------------------
(* Varints: the recursion has a solution, digit by digit.                  *)

(* One step of the recursion of VarInt, and its solutions below n. *)
NextDigits(g, v) == IF v < Base THEN <<v>> ELSE <<(v % Base) + Base>> \o g[v \div Base]
SolvesBelow(g, n) == g = [v \in 0..n - 1 |-> NextDigits(g, v)]

(* A solution of the recursion below n goes on below n + 1.                *)
LEMMA SolvesMore ==
  ASSUME NEW k \in Nat, NEW g, SolvesBelow(g, k)
  PROVE  \E h : SolvesBelow(h, k + 1)
<1> DEFINE h == [v \in 0..k |-> IF v < k THEN g[v] ELSE NextDigits(g, v)]
<1>1. \A v \in 0..k : v >= Base => v \div Base \in 0..k - 1
  <2> SUFFICES ASSUME NEW v \in 0..k, v >= Base PROVE v \div Base \in 0..k - 1
    OBVIOUS
  <2>1. v \in Nat /\ v <= k /\ Base \in Nat /\ Base > 1
    BY Numbers
  <2>2. v \div Base \in Nat /\ v \div Base < v
    BY <2>1, DivMod
  <2> DEFINE q == v \div Base
  <2> HIDE DEF q
  <2>3. q \in Nat /\ q < v => q \in 0..k - 1
    BY <2>1
  <2> QED BY <2>2, <2>3 DEF q
<1>2. \A v \in 0..k : v >= Base => h[v \div Base] = g[v \div Base]
  <2> TAKE v \in 0..k
  <2>1. v >= Base => v \div Base \in 0..k /\ v \div Base < k
    BY <1>1
  <2> DEFINE q == v \div Base
  <2> HIDE DEF q
  <2>2. q \in 0..k /\ q < k => h[q] = g[q]
    OBVIOUS
  <2> QED BY <2>1, <2>2 DEF q
<1>3. \A v \in 0..k : NextDigits(h, v) = NextDigits(g, v)
  <2> TAKE v \in 0..k
  <2>1. CASE v < Base
    BY <2>1 DEF NextDigits
  <2>2. CASE ~(v < Base)
    <3>2. v >= Base
      BY <2>2, Numbers
    <3> HIDE DEF h
    <3>1. h[v \div Base] = g[v \div Base]
      BY <1>2, <3>2
    <3> QED BY <2>2, <3>1 DEF NextDigits
  <2> QED BY <2>1, <2>2
<1>4. \A v \in 0..k : v < k => g[v] = NextDigits(g, v)
  BY DEF SolvesBelow
<1>5. \A v \in 0..k : h[v] = NextDigits(h, v)
  <2> TAKE v \in 0..k
  <2>1. h[v] = NextDigits(g, v)
    <3> HIDE DEF NextDigits
    <3> QED BY <1>4
  <2> QED BY <2>1, <1>3
<1>6. h = [v \in 0..k |-> h[v]]
  OBVIOUS
<1>7. 0..k = 0..(k + 1) - 1
  OBVIOUS
<1> HIDE DEF h, NextDigits
<1>8. h = [v \in 0..k |-> NextDigits(h, v)]
  BY <1>5, <1>6
<1>9. SolvesBelow(h, k + 1)
  BY <1>7, <1>8 DEF SolvesBelow
<1> QED BY <1>9

(* So the recursion has a solution, and VarInt is one. *)
LEMMA VarIntSolves == SolvesBelow(VarInt, 2 * Half)
<1> DEFINE T == {n \in Nat : ~\E g : SolvesBelow(g, n)}
<1>1. T = {}
  <2> SUFFICES ASSUME T # {} PROVE FALSE
    OBVIOUS
  <2>1. PICK m \in T : \A n \in T : m <= n
    BY LeastNumber
  <2>2. m # 0
    <3>1. SolvesBelow([v \in {} |-> v], 0)
      BY DEF SolvesBelow
    <3> QED BY <3>1, <2>1
  <2>3. m - 1 \in Nat /\ m - 1 \notin T /\ (m - 1) + 1 = m
    BY <2>1, <2>2
  <2> QED BY <2>1, <2>3, SolvesMore
<1>2. 2 * Half \in Nat
  BY Numbers
<1>3. \E g : SolvesBelow(g, 2 * Half)
  BY <1>1, <1>2
<1>4. VarInt = CHOOSE g : SolvesBelow(g, 2 * Half)
  BY DEF VarInt, SolvesBelow, NextDigits, Word
<1> QED BY <1>3, <1>4

(* VarInt is what its recursion says: one digit, or one digit and the      *)
(* rest.                                                                   *)
LEMMA VarIntStep ==
  ASSUME NEW v \in Word
  PROVE  VarInt[v] = IF v < Base THEN <<v>> ELSE <<(v % Base) + Base>> \o VarInt[v \div Base]
<1>1. VarInt = [u \in Word |-> NextDigits(VarInt, u)]
  BY VarIntSolves DEF SolvesBelow, Word
<1>2. VarInt[v] = NextDigits(VarInt, v)
  <2> HIDE DEF NextDigits
  <2> QED BY <1>1
<1> QED BY <1>2 DEF NextDigits

(* The quotient of a word by a digit's base is a smaller word. *)
LEMMA NextWord ==
  ASSUME NEW v \in Word, v >= Base
  PROVE  /\ v \div Base \in Word /\ v \div Base < v /\ v \div Base > 0
         /\ v % Base \in 0..Base - 1
         /\ v = Base * (v \div Base) + (v % Base)
<1>1. v \in Nat /\ v < 2 * Half /\ Half \in Nat /\ Base \in Nat /\ Base > 1
  BY Numbers
<1>2. /\ v \div Base \in Nat /\ v \div Base < v /\ v \div Base > 0
      /\ v % Base \in 0..Base - 1
      /\ v = Base * (v \div Base) + (v % Base)
  BY <1>1, DivMod
<1> DEFINE q == v \div Base
<1> HIDE DEF q
<1>3. q \in Nat /\ q < v => q \in Word
  BY <1>1 DEF Word
<1> QED BY <1>2, <1>3 DEF q

(* The digits of a varint are bytes, at least one.                         *)
LEMMA VarIntType ==
  \A v \in Word : VarInt[v] \in Seq(0..2 * Base - 1) /\ Len(VarInt[v]) > 0
<1> DEFINE T == {v \in Word : ~(VarInt[v] \in Seq(0..2 * Base - 1) /\ Len(VarInt[v]) > 0)}
<1> SUFFICES ASSUME T # {} PROVE FALSE
  OBVIOUS
<1>1. T \in SUBSET Nat
  BY Numbers
<1>2. PICK v \in T : \A u \in T : v <= u
  BY <1>1, LeastNumber
<1>3. v \in Word /\ v \in Nat
  BY <1>1, <1>2
<1>4. CASE v < Base
  <2>1. VarInt[v] = <<v>>
    BY <1>3, <1>4, VarIntStep
  <2>2. v \in 0..2 * Base - 1
    BY <1>3, <1>4, Numbers
  <2>3. <<v>> \in Seq(0..2 * Base - 1) /\ Len(<<v>>) > 0
    BY <2>2
  <2> QED BY <1>2, <2>1, <2>3
<1>5. CASE v >= Base
  <2> DEFINE u == v \div Base
             d == (v % Base) + Base
  <2>1. u \in Word /\ u < v /\ v % Base \in 0..Base - 1
    BY <1>3, <1>5, NextWord
  <2>2. VarInt[v] = <<d>> \o VarInt[u]
    <3>1. ~(v < Base)
      BY <1>3, <1>5, Numbers
    <3> QED BY <1>3, <3>1, VarIntStep, Zenon
  <2>3. d \in 0..2 * Base - 1
    BY <2>1, Numbers
  <2>4. u \notin T
    BY <1>2, <1>3, <2>1, Numbers
  <2> HIDE DEF u, d
  <2>5. VarInt[u] \in Seq(0..2 * Base - 1) /\ Len(VarInt[u]) > 0
    BY <2>1, <2>4
  <2>6. <<d>> \in Seq(0..2 * Base - 1) /\ Len(<<d>>) = 1
    BY <2>3
  <2>7. <<d>> \o VarInt[u] \in Seq(0..2 * Base - 1) /\ Len(<<d>> \o VarInt[u]) = 1 + Len(VarInt[u])
    BY <2>5, <2>6, ConcatProperties
  <2>8. Len(VarInt[u]) \in Nat
    BY <2>5, LenProperties
  <2>9. 1 + Len(VarInt[u]) > 0
    BY <2>8
  <2>10. VarInt[v] \in Seq(0..2 * Base - 1) /\ Len(VarInt[v]) > 0
    BY <2>2, <2>7, <2>9
  <2> QED BY <1>2, <2>10
<1> QED BY <1>3, <1>4, <1>5, Numbers

(* A longer varint belongs to a greater word. *)
LEMMA VarIntMonotone ==
  \A w \in Word : \A u \in Word : u <= w => Len(VarInt[u]) <= Len(VarInt[w])
<1> DEFINE T == {w \in Word : \E u \in Word : u <= w /\ ~(Len(VarInt[u]) <= Len(VarInt[w]))}
<1> SUFFICES ASSUME T # {} PROVE FALSE
  OBVIOUS
<1>1. T \in SUBSET Nat
  BY Numbers
<1>2. PICK w \in T : \A x \in T : w <= x
  BY <1>1, LeastNumber
<1>3. PICK u \in Word : u <= w /\ ~(Len(VarInt[u]) <= Len(VarInt[w]))
  BY <1>2
<1>4. w \in Word /\ w \in Nat /\ u \in Nat
  BY <1>2, Numbers
<1>5. /\ Len(VarInt[u]) \in Nat /\ Len(VarInt[w]) \in Nat
      /\ Len(VarInt[u]) > 0 /\ Len(VarInt[w]) > 0
  BY <1>4, VarIntType, LenProperties
<1>6. ~(u < Base)
  <2>1. SUFFICES ASSUME u < Base PROVE FALSE
    OBVIOUS
  <2>2. VarInt[u] = <<u>>
    BY <2>1, VarIntStep
  <2>3. Len(VarInt[u]) = 1
    BY <2>2
  <2> QED BY <1>3, <1>5, <2>3
<1>7. u >= Base /\ w >= Base
  BY <1>3, <1>4, <1>6, Numbers
<1> DEFINE qu == u \div Base
           qw == w \div Base
<1>8. /\ qu \in Word /\ qw \in Word /\ qw < w
      /\ u = Base * qu + (u % Base) /\ w = Base * qw + (w % Base)
      /\ u % Base \in 0..Base - 1 /\ w % Base \in 0..Base - 1
  BY <1>4, <1>7, NextWord
<1>9. VarInt[u] = <<(u % Base) + Base>> \o VarInt[qu] /\ VarInt[w] = <<(w % Base) + Base>> \o VarInt[qw]
  <2>1. ~(w < Base)
    BY <1>4, <1>7, Numbers
  <2>2. VarInt[u] = <<(u % Base) + Base>> \o VarInt[qu]
    BY <1>6, VarIntStep, Zenon
  <2>3. VarInt[w] = <<(w % Base) + Base>> \o VarInt[qw]
    BY <1>4, <2>1, VarIntStep, Zenon
  <2> QED BY <2>2, <2>3
<1> DEFINE ru == u % Base
           rw == w % Base
<1>15. ru \in 0..Base - 1 /\ rw \in 0..Base - 1
  BY <1>8
<1> HIDE DEF qu, qw, ru, rw
<1>10. Len(VarInt[u]) = 1 + Len(VarInt[qu]) /\ Len(VarInt[w]) = 1 + Len(VarInt[qw])
  <2>1. ru + Base \in 0..2 * Base - 1 /\ rw + Base \in 0..2 * Base - 1
    BY <1>15, Numbers
  <2>2. VarInt[u] = <<ru + Base>> \o VarInt[qu] /\ VarInt[w] = <<rw + Base>> \o VarInt[qw]
    BY <1>9 DEF ru, rw
  <2>3. <<ru + Base>> \in Seq(0..2 * Base - 1) /\ <<rw + Base>> \in Seq(0..2 * Base - 1)
    BY <2>1
  <2> QED BY <1>8, <2>2, <2>3, VarIntType, ConcatProperties
<1>11. qu <= qw
  <2>1. qu \in Nat /\ qw \in Nat /\ Base \in Nat
    BY <1>8, Numbers
  <2>2. qu > qw => Base * qu >= Base * qw + Base
    BY <2>1
  <2>3. u = Base * qu + ru /\ w = Base * qw + rw /\ ru \in 0..Base - 1 /\ rw \in 0..Base - 1
    BY <1>8 DEF ru, rw
  <2>4. Base * qu \in Int /\ Base * qw \in Int
    BY <2>1
  <2> QED BY <1>3, <2>1, <2>2, <2>3, <2>4
<1>12. qw \notin T
  BY <1>1, <1>2, <1>4, <1>8, Numbers
<1>13. Len(VarInt[qu]) <= Len(VarInt[qw])
  BY <1>8, <1>11, <1>12
<1>14. Len(VarInt[qu]) \in Nat /\ Len(VarInt[qw]) \in Nat
  BY <1>8, VarIntType, LenProperties
<1> QED BY <1>3, <1>10, <1>13, <1>14

(* No varint of a word is longer than that of the greatest word.           *)
LEMMA VarIntBound ==
  /\ MaxVarInt \in Nat /\ MaxVarInt > 0
  /\ \A v \in Word : Len(VarInt[v]) \in 1..MaxVarInt
<1>1. 2 * Half - 1 \in Word /\ \A v \in Word : v <= 2 * Half - 1
  BY Numbers DEF Word
<1>2. \A v \in Word : Len(VarInt[v]) \in Nat /\ Len(VarInt[v]) > 0
  BY VarIntType, LenProperties
<1>3. \A v \in Word : Len(VarInt[v]) <= Len(VarInt[2 * Half - 1])
  BY <1>1, VarIntMonotone
<1> QED BY <1>1, <1>2, <1>3 DEF MaxVarInt

(* The digits of a varint one by one. *)
LEMMA VarIntDigits ==
  ASSUME NEW v \in Word
  PROVE  /\ v < Base => Len(VarInt[v]) = 1 /\ VarInt[v][1] = v
         /\ v >= Base => LET u == v \div Base
                         IN  /\ Len(VarInt[v]) = 1 + Len(VarInt[u])
                             /\ VarInt[v][1] = (v % Base) + Base
                             /\ \A i \in 1..Len(VarInt[u]) : VarInt[v][1 + i] = VarInt[u][i]
<1>1. CASE v < Base
  <2>1. VarInt[v] = <<v>>
    BY <1>1, VarIntStep
  <2> QED BY <1>1, <2>1, Numbers
<1>2. CASE v >= Base
  <2> DEFINE u == v \div Base
             d == (v % Base) + Base
  <2>1. u \in Word /\ v % Base \in 0..Base - 1
    BY <1>2, NextWord
  <2>2. VarInt[v] = <<d>> \o VarInt[u]
    <3>1. ~(v < Base)
      BY <1>2, Numbers
    <3> QED BY <3>1, VarIntStep, Zenon
  <2>3. d \in 0..2 * Base - 1
    BY <2>1, Numbers
  <2> HIDE DEF u, d
  <2>4. VarInt[u] \in Seq(0..2 * Base - 1) /\ <<d>> \in Seq(0..2 * Base - 1) /\ Len(<<d>>) = 1
    BY <2>1, <2>3, VarIntType
  <2>5. /\ Len(VarInt[v]) = 1 + Len(VarInt[u])
        /\ VarInt[v][1] = d
        /\ \A i \in 1..Len(VarInt[u]) : VarInt[v][1 + i] = VarInt[u][i]
    <3>1. Len(VarInt[u]) \in Nat
      BY <2>4, LenProperties
    <3>2. /\ Len(VarInt[v]) = 1 + Len(VarInt[u])
          /\ \A i \in 1..1 + Len(VarInt[u]) :
               VarInt[v][i] = IF i <= 1 THEN <<d>>[i] ELSE VarInt[u][i - 1]
      BY <2>2, <2>4, ConcatProperties
    <3>3. ASSUME NEW i \in 1..Len(VarInt[u]) PROVE VarInt[v][1 + i] = VarInt[u][i]
      <4>1. 1 + i \in 1..1 + Len(VarInt[u]) /\ ~(1 + i <= 1) /\ (1 + i) - 1 = i
        BY <3>1
      <4> QED BY <3>2, <4>1
    <3>4. VarInt[v][1] = <<d>>[1]
      <4>1. 1 \in 1..1 + Len(VarInt[u]) /\ 1 <= 1
        BY <3>1
      <4> QED BY <3>2, <4>1
    <3> QED BY <3>2, <3>3, <3>4
  <2> QED BY <1>2, <2>5, Numbers DEF u, d
<1> QED BY <1>1, <1>2, Numbers

(* The elements of a sequence after the first a, up to the one at b.       *)
Part(S, a, b) == SubSeq(S, a + 1, b)

(* The length and the elements of a part.                                  *)
LEMMA PartAt ==
  ASSUME NEW S, NEW a \in Nat, NEW b \in Nat, a <= b
  PROVE  /\ Len(Part(S, a, b)) = b - a
         /\ \A i \in 1..b - a : Part(S, a, b)[i] = S[a + i]
<1> DEFINE X == {S[i] : i \in a + 1..b}
<1>1. \A i \in a + 1..b : S[i] \in X
  OBVIOUS
<1> HIDE DEF X
<1>2. /\ Part(S, a, b) \in Seq(X)
      /\ Len(Part(S, a, b)) = IF a + 1 <= b THEN b - (a + 1) + 1 ELSE 0
      /\ \A i \in 1..b - (a + 1) + 1 : Part(S, a, b)[i] = S[(a + 1) + i - 1]
  BY <1>1, SubSeqProperties DEF Part
<1> DEFINE p == Part(S, a, b)
<1> HIDE DEF p
<1>3. Len(p) = b - a
  BY <1>2 DEF p
<1>4. ASSUME NEW i \in 1..b - a PROVE p[i] = S[a + i]
  <2>1. i \in 1..b - (a + 1) + 1 /\ (a + 1) + i - 1 = a + i
    OBVIOUS
  <2>2. p[i] = S[(a + 1) + i - 1]
    BY <1>2, <2>1 DEF p
  <2> QED BY <2>1, <2>2
<1> QED BY <1>3, <1>4 DEF p

(* A part of a sequence over T is one.                                     *)
LEMMA PartIn ==
  ASSUME NEW X, NEW S \in Seq(X), NEW a \in Nat, NEW b \in Nat, a <= b, b <= Len(S)
  PROVE  Part(S, a, b) \in Seq(X)
<1>1. \A i \in a + 1..b : S[i] \in X
  <2>1. \A i \in a + 1..b : i \in 1..Len(S)
    OBVIOUS
  <2> QED BY <2>1, ElementOfSeq
<1> QED BY <1>1, SubSeqProperties DEF Part

(* A part is empty when its bounds are equal.                              *)
LEMMA PartEmpty ==
  ASSUME NEW X, NEW S \in Seq(X), NEW a \in Nat, NEW b \in Nat, a <= b, b <= Len(S)
  PROVE  (Part(S, a, b) = <<>>) <=> (a = b)
<1> DEFINE p == Part(S, a, b)
<1>1. p \in Seq(X) /\ Len(p) = b - a
  BY PartAt, PartIn
<1> HIDE DEF p
<1>2. p # <<>> => Len(p) \in Nat \ {0}
  BY <1>1, EmptySeq
<1>3. p = <<>> => Len(p) = 0
  BY EmptySeq
<1>4. (p = <<>>) <=> (a = b)
  BY <1>1, <1>2, <1>3
<1> QED BY <1>4 DEF p

(* Two parts that meet make one.                                           *)
LEMMA PartConcat ==
  ASSUME NEW X, NEW S \in Seq(X), NEW a \in Nat, NEW b \in Nat, NEW d \in Nat,
         a <= b, b <= d, d <= Len(S)
  PROVE  Part(S, a, b) \o Part(S, b, d) = Part(S, a, d)
<1>1. Len(S) \in Nat
  BY LenProperties
<1>2. a + 1 \in 1..Len(S) + 1 /\ b \in (a + 1) - 1..Len(S) /\ d \in b..Len(S)
  BY <1>1
<1> QED BY <1>2, ConcatAdjacentSubSeq DEF Part

(* A part without its head.                                                *)
LEMMA PartHead ==
  ASSUME NEW X, NEW S \in Seq(X), NEW a \in Nat, NEW b \in Nat, a < b, b <= Len(S)
  PROVE  Head(Part(S, a, b)) = S[a + 1] /\ Tail(Part(S, a, b)) = Part(S, a + 1, b)
<1>1. Len(S) \in Nat
  BY LenProperties
<1>2. a + 1 \in 1..Len(S) /\ b \in a + 1..Len(S)
  BY <1>1
<1> QED BY <1>2, HeadTailOfSubSeq DEF Part

(* Parts of two sequences agree when their elements do.                    *)
LEMMA PartsAgree ==
  ASSUME NEW S, NEW a \in Nat, NEW b \in Nat, a <= b,
         NEW T, NEW c \in Nat, NEW d \in Nat, c <= d,
         Len(Part(S, a, b)) = Len(Part(T, c, d)),
         \A i \in 1..Len(Part(S, a, b)) : Part(S, a, b)[i] = Part(T, c, d)[i]
  PROVE  Part(S, a, b) = Part(T, c, d)
<1> DEFINE X == {S[i] : i \in a + 1..b} \cup {T[i] : i \in c + 1..d}
           x == Part(S, a, b)
           y == Part(T, c, d)
<1>1. (\A i \in a + 1..b : S[i] \in X) /\ \A i \in c + 1..d : T[i] \in X
  OBVIOUS
<1>2. x \in Seq(X) /\ y \in Seq(X)
  <2> HIDE DEF X
  <2> QED BY <1>1, SubSeqProperties DEF Part
<1> HIDE DEF X
<1>3. Len(x) = Len(y) /\ \A i \in 1..Len(x) : x[i] = y[i]
  OBVIOUS
<1> HIDE DEF x, y
<1>4. x = y
  BY <1>2, <1>3, SeqEqual
<1> QED BY <1>4 DEF x, y

(* A part of a part.                                                       *)
LEMMA PartOfPart ==
  ASSUME NEW S, NEW a \in Nat, NEW b \in Nat, a <= b,
         NEW k \in Nat, NEW n \in Nat, k <= n, n <= b - a
  PROVE  Part(Part(S, a, b), k, n) = Part(S, a + k, a + n)
<1>1. \A i \in 1..b - a : Part(S, a, b)[i] = S[a + i]
  BY PartAt
<1> DEFINE p == Part(S, a, b)
           c == a + k
           d == a + n
<1> HIDE DEF p
<1>2. \A i \in 1..n - k : p[k + i] = S[c + i]
  <2>1. \A i \in 1..n - k : k + i \in 1..b - a /\ a + (k + i) = (a + k) + i
    OBVIOUS
  <2> QED BY <1>1, <2>1 DEF p
<1>3. c \in Nat /\ d \in Nat /\ c <= d
  OBVIOUS
<1>4. d - c = n - k
  OBVIOUS
<1> HIDE DEF c, d
<1> DEFINE x == Part(p, k, n)
           y == Part(S, c, d)
<1>5. Len(x) = n - k /\ \A i \in 1..n - k : x[i] = p[k + i]
  BY PartAt
<1>6. Len(y) = d - c /\ \A i \in 1..d - c : y[i] = S[c + i]
  BY <1>3, PartAt
<1>7. Len(x) = Len(y) /\ \A i \in 1..Len(x) : x[i] = y[i]
  <2> HIDE DEF x, y
  <2> QED BY <1>2, <1>4, <1>5, <1>6
<1>8. x = y
  BY <1>3, <1>7, PartsAgree
<1> QED BY <1>8 DEF p, c, d

(* Parts of a concatenation.                                               *)
LEMMA PartBeforeConcat ==
  ASSUME NEW X, NEW S \in Seq(X), NEW R \in Seq(X),
         NEW a \in Nat, NEW b \in Nat, a <= b, b <= Len(S)
  PROVE  Part(S \o R, a, b) = Part(S, a, b)
<1> DEFINE C == S \o R
<1>1. /\ Len(S) \in Nat /\ Len(R) \in Nat
      /\ \A i \in 1..Len(S) + Len(R) : C[i] = IF i <= Len(S) THEN S[i] ELSE R[i - Len(S)]
  BY LenProperties, ConcatProperties
<1> HIDE DEF C
<1>2. \A i \in 1..b - a : C[a + i] = S[a + i]
  <2>1. \A i \in 1..b - a : a + i \in 1..Len(S) + Len(R) /\ a + i <= Len(S)
    BY <1>1
  <2> QED BY <1>1, <2>1
<1> DEFINE x == Part(C, a, b)
           y == Part(S, a, b)
<1>3. Len(x) = b - a /\ \A i \in 1..b - a : x[i] = C[a + i]
  BY PartAt
<1>4. Len(y) = b - a /\ \A i \in 1..b - a : y[i] = S[a + i]
  BY PartAt
<1>5. Len(x) = Len(y) /\ \A i \in 1..Len(x) : x[i] = y[i]
  <2> HIDE DEF x, y
  <2> QED BY <1>2, <1>3, <1>4
<1>6. x = y
  BY <1>5, PartsAgree
<1> QED BY <1>6 DEF C

(* What lies behind the first of two sequences is the second.              *)
LEMMA PartAfterConcat ==
  ASSUME NEW X, NEW S \in Seq(X), NEW R \in Seq(X)
  PROVE  Part(S \o R, Len(S), Len(S \o R)) = R
<1> DEFINE C == S \o R
           l == Len(S)
           m == Len(C)
           n == Len(R)
<1>1. /\ l \in Nat /\ n \in Nat /\ m = l + n
      /\ C \in Seq(X)
      /\ \A i \in 1..l + n : C[i] = IF i <= l THEN S[i] ELSE R[i - l]
  BY LenProperties, ConcatProperties
<1>2. m <= Len(C)
  BY <1>1
<1> HIDE DEF C, l, m
<1>3. l \in Nat /\ m \in Nat /\ l <= m
  BY <1>1
<1> DEFINE x == Part(C, l, m)
<1>4. Len(x) = m - l /\ \A i \in 1..m - l : x[i] = C[l + i]
  BY <1>3, PartAt
<1>5. x \in Seq(X)
  BY <1>1, <1>2, <1>3, PartIn
<1> HIDE DEF x, n
<1>6. Len(x) = n /\ \A i \in 1..n : x[i] = R[i]
  <2>1. \A i \in 1..n : l + i \in 1..l + n /\ ~(l + i <= l) /\ (l + i) - l = i
    BY <1>1
  <2>2. Len(x) = n /\ m - l = n
    BY <1>1, <1>4
  <2>3. ASSUME NEW i \in 1..n PROVE x[i] = R[i]
    <3>1. x[i] = C[l + i]
      BY <1>4, <2>2
    <3>2. C[l + i] = R[(l + i) - l]
      BY <1>1, <2>1
    <3> QED BY <2>1, <3>1, <3>2
  <2> QED BY <2>2, <2>3
<1>7. x = R
  BY <1>5, <1>6, SeqEqual DEF n
<1> QED BY <1>7 DEF C, l, m, x

(* What lies behind a place in the first of two sequences.                 *)
LEMMA PartOfConcat ==
  ASSUME NEW X, NEW S \in Seq(X), NEW R \in Seq(X), NEW a \in Nat, a <= Len(S)
  PROVE  Part(S \o R, a, Len(S \o R)) = Part(S, a, Len(S)) \o R
<1> DEFINE C == S \o R
           l == Len(S)
           m == Len(C)
<1>1. l \in Nat /\ C \in Seq(X) /\ m \in Nat /\ l <= m /\ a <= l /\ m <= Len(C) /\ l <= Len(S)
  BY LenProperties, ConcatProperties
<1>3. Part(C, a, l) = Part(S, a, l)
  BY <1>1, PartBeforeConcat
<1>4. Part(C, l, m) = R
  BY PartAfterConcat
<1> HIDE DEF C, l, m
<1>2. Part(C, a, l) \o Part(C, l, m) = Part(C, a, m)
  BY <1>1, PartConcat
<1>5. Part(C, a, m) = Part(S, a, l) \o R
  BY <1>2, <1>3, <1>4
<1> QED BY <1>5 DEF C, l, m

-----------------------------------------------------------------------------
(* The bytes of records.                                                   *)

(* What a byte of a varint is: a digit, with or without the flag.          *)
Bytes == 0..2 * Base - 1

(* The bytes of S from the a-th to the b-th are the varint of z.           *)
HasVarInt(S, a, b, z) ==
  b = a + Len(VarInt[z]) /\ \A i \in 1..Len(VarInt[z]) : S[a + i] = VarInt[z][i]

(* S is the varints of Z, the j-th of which ends at v[j].                  *)
Digits(S, v, Z) ==
  /\ S \in Seq(Bytes) /\ Z \in Seq(Word)
  /\ v \in [0..Len(Z) -> 0..Len(S)] /\ v[0] = 0 /\ v[Len(Z)] = Len(S)
  /\ \A j \in 1..Len(Z) : HasVarInt(S, v[j - 1], v[j], Z[j])
  /\ Len(S) <= Len(Z) * MaxVarInt

(* Bytes appended later do not disturb a varint.                           *)
LEMMA HasVarIntBefore ==
  ASSUME NEW S \in Seq(Bytes), NEW R \in Seq(Bytes), NEW a \in Nat, NEW b \in Nat, b <= Len(S),
         NEW z \in Word, HasVarInt(S, a, b, z)
  PROVE  HasVarInt(S \o R, a, b, z)
<1> DEFINE n == Len(VarInt[z])
<1>1. n \in Nat
  BY VarIntType, LenProperties
<1>2. /\ Len(S) \in Nat /\ Len(R) \in Nat
      /\ \A i \in 1..Len(S) + Len(R) : (S \o R)[i] = IF i <= Len(S) THEN S[i] ELSE R[i - Len(S)]
  BY LenProperties, ConcatProperties
<1>3. b = a + n /\ \A i \in 1..n : S[a + i] = VarInt[z][i]
  BY DEF HasVarInt
<1>4. \A i \in 1..n : (S \o R)[a + i] = VarInt[z][i]
  <2> HIDE DEF n
  <2> TAKE i \in 1..n
  <2>1. a + i \in 1..Len(S) + Len(R) /\ a + i <= Len(S)
    BY <1>1, <1>2, <1>3
  <2> QED BY <1>2, <1>3, <2>1
<1> QED BY <1>3, <1>4 DEF HasVarInt

(* The varint appended is one.                                             *)
LEMMA HasVarIntAfter ==
  ASSUME NEW S \in Seq(Bytes), NEW z \in Word
  PROVE  HasVarInt(S \o VarInt[z], Len(S), Len(S) + Len(VarInt[z]), z)
<1> DEFINE R == VarInt[z]
<1>0. R \in Seq(Bytes)
  BY VarIntType DEF Bytes
<1> HIDE DEF R
<1>1. /\ Len(S) \in Nat /\ Len(R) \in Nat
      /\ \A i \in 1..Len(S) + Len(R) : (S \o R)[i] = IF i <= Len(S) THEN S[i] ELSE R[i - Len(S)]
  BY <1>0, LenProperties, ConcatProperties
<1>2. \A i \in 1..Len(R) : (S \o R)[Len(S) + i] = R[i]
  <2> TAKE i \in 1..Len(R)
  <2>1. Len(S) + i \in 1..Len(S) + Len(R) /\ ~(Len(S) + i <= Len(S)) /\ (Len(S) + i) - Len(S) = i
    BY <1>1
  <2> QED BY <1>1, <2>1
<1> QED BY <1>2 DEF HasVarInt, R

(* A varint more, at the end of the bytes.                                 *)
LEMMA DigitsMore ==
  ASSUME NEW S, NEW v, NEW Z, Digits(S, v, Z), NEW z \in Word
  PROVE  \E w : Digits(S \o VarInt[z], w, Append(Z, z))
<1> DEFINE R == VarInt[z]
           Y == Append(Z, z)
           n == Len(Z)
           l == Len(S)
           r == Len(R)
           w == [j \in 0..n + 1 |-> IF j <= n THEN v[j] ELSE l + r]
<1>1. /\ S \in Seq(Bytes) /\ Z \in Seq(Word)
      /\ v \in [0..n -> 0..l] /\ v[0] = 0 /\ v[n] = l
      /\ \A j \in 1..n : HasVarInt(S, v[j - 1], v[j], Z[j])
      /\ l <= n * MaxVarInt
  BY DEF Digits
<1>2. R \in Seq(Bytes) /\ l \in Nat /\ r \in Nat /\ r <= MaxVarInt /\ n \in Nat /\ MaxVarInt \in Nat
  BY <1>1, VarIntType, VarIntBound, LenProperties DEF Bytes
<1>3. S \o R \in Seq(Bytes) /\ Len(S \o R) = l + r
  BY <1>1, <1>2, ConcatProperties
<1>4. Y \in Seq(Word) /\ Len(Y) = n + 1 /\ (\A j \in 1..n : Y[j] = Z[j]) /\ Y[n + 1] = z
  BY <1>1, AppendProperties
<1>5. HasVarInt(S \o R, l, l + r, z)
  BY <1>1, HasVarIntAfter
<1>6. \A j \in 1..n : HasVarInt(S \o R, v[j - 1], v[j], Z[j])
  <2> TAKE j \in 1..n
  <2> DEFINE a == v[j - 1]
             b == v[j]
  <2>1. j - 1 \in 0..n /\ j \in 0..n
    BY <1>2
  <2>2. a \in 0..l /\ b \in 0..l /\ Z[j] \in Word /\ HasVarInt(S, a, b, Z[j])
    BY <1>1, <2>1, ElementOfSeq
  <2> HIDE DEF R, a, b
  <2>3. a \in Nat /\ b \in Nat /\ b <= l
    BY <1>2, <2>2
  <2>4. HasVarInt(S \o R, a, b, Z[j])
    BY <1>1, <1>2, <2>2, <2>3, HasVarIntBefore
  <2> QED BY <2>4 DEF a, b
<1> HIDE DEF R, Y, n, l, r
<1>7. /\ w \in [0..n + 1 -> 0..l + r] /\ w[0] = 0 /\ w[n + 1] = l + r
      /\ \A j \in 0..n : w[j] = v[j]
  <2>1. \A j \in 0..n : v[j] \in 0..l + r
    <3>1. \A i \in 0..l : i \in 0..l + r
      BY <1>2
    <3> QED BY <1>1, <3>1
  <2>2. l + r \in 0..l + r
    BY <1>2
  <2>3. \A j \in 0..n + 1 : j <= n => j \in 0..n
    BY <1>2
  <2>4. w \in [0..n + 1 -> 0..l + r]
    BY <2>1, <2>2, <2>3
  <2>5. 0 \in 0..n + 1 /\ 0 <= n /\ n + 1 \in 0..n + 1 /\ ~(n + 1 <= n)
    BY <1>2
  <2>6. \A j \in 0..n : j \in 0..n + 1 /\ j <= n
    BY <1>2
  <2> QED BY <1>1, <2>4, <2>5, <2>6
<1> HIDE DEF w
<1>8. \A j \in 1..n + 1 : HasVarInt(S \o R, w[j - 1], w[j], Y[j])
  <2> TAKE j \in 1..n + 1
  <2>1. CASE j = n + 1
    <3>1. j - 1 = n /\ n \in 0..n
      BY <1>2, <2>1
    <3>2. w[j - 1] = l /\ w[j] = l + r /\ Y[j] = z
      BY <1>1, <1>4, <1>7, <2>1, <3>1
    <3> QED BY <1>5, <3>2
  <2>2. CASE j # n + 1
    <3>1. j \in 1..n /\ j \in 0..n /\ j - 1 \in 0..n
      BY <1>2, <2>2
    <3>2. w[j - 1] = v[j - 1] /\ w[j] = v[j] /\ Y[j] = Z[j]
      BY <1>4, <1>7, <3>1
    <3> QED BY <1>6, <3>1, <3>2
  <2> QED BY <2>1, <2>2
<1>9. l + r <= (n + 1) * MaxVarInt
  <2>1. (n + 1) * MaxVarInt = n * MaxVarInt + MaxVarInt /\ n * MaxVarInt \in Int
    BY <1>2
  <2> QED BY <1>1, <1>2, <2>1
<1>10. Digits(S \o R, w, Y)
  BY <1>3, <1>4, <1>7, <1>8, <1>9 DEF Digits
<1> QED BY <1>10 DEF R, Y

(* The varints of a sequence of records.                                   *)
Before(recs, k) == IF k = 1 THEN Zero ELSE recs[k - 1]
Zig(recs, k, f) == ZZEnc(Delta(recs[k][f], Before(recs, k)[f]))
Fields(Z, recs) ==
  /\ Len(Z) = 2 * Len(recs)
  /\ \A k \in 1..Len(recs) : Z[2 * k - 1] = Zig(recs, k, 1) /\ Z[2 * k] = Zig(recs, k, 2)

(* The number before a record, the record and the zigzag code of a field   *)
(* are words.                                                              *)
LEMMA ZigType ==
  ASSUME NEW recs \in Seq(Word \X Word), NEW k \in 1..Len(recs)
  PROVE  /\ Before(recs, k) \in Word \X Word /\ recs[k] \in Word \X Word
         /\ \A f \in {1, 2} : Zig(recs, k, f) \in Word
<1>1. recs[k] \in Word \X Word
  BY ElementOfSeq
<1>2. Zero \in Word \X Word
  BY Numbers DEF Zero, Word
<1>3. Before(recs, k) \in Word \X Word
  <2>1. CASE k = 1
    BY <1>2, <2>1 DEF Before
  <2>2. CASE k # 1
    <3>1. k - 1 \in 1..Len(recs)
      BY <2>2
    <3>2. recs[k - 1] \in Word \X Word
      BY <3>1, ElementOfSeq
    <3> QED BY <2>2, <3>2 DEF Before
  <2> QED BY <2>1, <2>2
<1>4. \A f \in {1, 2} : recs[k][f] \in Word /\ Before(recs, k)[f] \in Word
  BY <1>1, <1>3
<1>5. \A f \in {1, 2} : Zig(recs, k, f) \in Word
  BY <1>4, DeltaRestores DEF Zig
<1> QED BY <1>1, <1>3, <1>5

(* A record more adds the codes of its two fields.                         *)
LEMMA FieldsMore ==
  ASSUME NEW recs \in Seq(Word \X Word), NEW key \in Word \X Word,
         NEW Z \in Seq(Word), Fields(Z, recs),
         NEW last, last = Before(recs, Len(recs) + 1)
  PROVE  LET z1 == ZZEnc(Delta(key[1], last[1]))
             z2 == ZZEnc(Delta(key[2], last[2]))
         IN  /\ z1 \in Word /\ z2 \in Word
             /\ Fields(Append(Append(Z, z1), z2), Append(recs, key))
<1> DEFINE z1 == ZZEnc(Delta(key[1], last[1]))
           z2 == ZZEnc(Delta(key[2], last[2]))
           more == Append(recs, key)
           n == Len(recs)
           Y == Append(Append(Z, z1), z2)
<1>1. /\ n \in Nat /\ more \in Seq(Word \X Word) /\ Len(more) = n + 1
      /\ (\A k \in 1..n : more[k] = recs[k]) /\ more[n + 1] = key
  BY LenProperties, AppendProperties
<1>2. \A k \in 1..n : Before(more, k) = Before(recs, k)
  <2> TAKE k \in 1..n
  <2>1. CASE k = 1
    BY <2>1 DEF Before
  <2>2. CASE k # 1
    <3>1. k - 1 \in 1..n
      BY <1>1, <2>2
    <3> HIDE DEF more
    <3> QED BY <1>1, <2>2, <3>1 DEF Before
  <2> QED BY <2>1, <2>2
<1>3. Before(more, n + 1) = last
  <2>1. CASE n = 0
    BY <2>1 DEF Before
  <2>2. CASE n # 0
    <3>1. n + 1 # 1 /\ (n + 1) - 1 = n /\ n \in 1..n
      BY <1>1, <2>2
    <3>2. Before(more, n + 1) = more[n] /\ last = recs[n]
      BY <3>1 DEF Before
    <3> QED BY <1>1, <3>1, <3>2
  <2> QED BY <2>1, <2>2
<1> HIDE DEF more
<1>4. n + 1 \in 1..Len(more)
  BY <1>1
<1>5. z1 = Zig(more, n + 1, 1) /\ z2 = Zig(more, n + 1, 2) /\ z1 \in Word /\ z2 \in Word
  BY <1>1, <1>3, <1>4, ZigType DEF Zig
<1>6. \A k \in 1..n : Zig(more, k, 1) = Zig(recs, k, 1) /\ Zig(more, k, 2) = Zig(recs, k, 2)
  BY <1>1, <1>2 DEF Zig
<1> HIDE DEF z1, z2, n
<1>7. /\ Len(Z) = 2 * n
      /\ \A k \in 1..n : Z[2 * k - 1] = Zig(recs, k, 1) /\ Z[2 * k] = Zig(recs, k, 2)
  BY DEF Fields, n
<1>8. /\ Len(Y) = 2 * n + 2 /\ (\A j \in 1..2 * n : Y[j] = Z[j])
      /\ Y[2 * n + 1] = z1 /\ Y[2 * n + 2] = z2
  <2> DEFINE W == Append(Z, z1)
  <2>1. W \in Seq(Word) /\ Len(W) = 2 * n + 1 /\ (\A j \in 1..2 * n : W[j] = Z[j]) /\ W[2 * n + 1] = z1
    BY <1>5, <1>7, AppendProperties
  <2> HIDE DEF W
  <2>2. /\ Len(Append(W, z2)) = Len(W) + 1
        /\ (\A j \in 1..Len(W) : Append(W, z2)[j] = W[j]) /\ Append(W, z2)[Len(W) + 1] = z2
    BY <1>5, <2>1, AppendProperties
  <2>3. (2 * n + 1) + 1 = 2 * n + 2 /\ 2 * n + 1 \in 1..2 * n + 1 /\ \A j \in 1..2 * n : j \in 1..2 * n + 1
    BY <1>1
  <2>4. Y = Append(W, z2)
    BY DEF W
  <2> HIDE DEF Y
  <2> QED BY <2>1, <2>2, <2>3, <2>4
<1> HIDE DEF Y
<1>9. \A k \in 1..n + 1 : Y[2 * k - 1] = Zig(more, k, 1) /\ Y[2 * k] = Zig(more, k, 2)
  <2> TAKE k \in 1..n + 1
  <2>1. CASE k = n + 1
    <3>1. 2 * k - 1 = 2 * n + 1 /\ 2 * k = 2 * n + 2
      BY <1>1, <2>1
    <3> QED BY <1>5, <1>8, <2>1, <3>1
  <2>2. CASE k # n + 1
    <3>1. k \in 1..n /\ 2 * k - 1 \in 1..2 * n /\ 2 * k \in 1..2 * n
      BY <1>1, <2>2
    <3> QED BY <1>6, <1>7, <1>8, <3>1
  <2> QED BY <2>1, <2>2
<1>10. 2 * (n + 1) = 2 * n + 2
  BY <1>1
<1>11. Fields(Y, more)
  BY <1>1, <1>8, <1>9, <1>10 DEF Fields
<1> QED BY <1>5, <1>11 DEF Y, more, z1, z2

(* S is what VarIntPut makes of the records, field by field.               *)
Encodes(S, v, Z, recs) == Digits(S, v, Z) /\ Fields(Z, recs)

(* The bytes BLFWriterRecord appends encode the record it is given.        *)
LEMMA EncodesMore ==
  ASSUME NEW recs \in Seq(Word \X Word), NEW key \in Word \X Word,
         NEW S, NEW v, NEW Z, Encodes(S, v, Z, recs),
         NEW last, last = Before(recs, Len(recs) + 1)
  PROVE  LET z1 == ZZEnc(Delta(key[1], last[1]))
             z2 == ZZEnc(Delta(key[2], last[2]))
         IN  /\ z1 \in Word /\ z2 \in Word
             /\ \E w, Y : Encodes(S \o (VarInt[z1] \o VarInt[z2]), w, Y, Append(recs, key))
<1> DEFINE z1 == ZZEnc(Delta(key[1], last[1]))
           z2 == ZZEnc(Delta(key[2], last[2]))
<1>1. Digits(S, v, Z) /\ Fields(Z, recs) /\ S \in Seq(Bytes) /\ Z \in Seq(Word)
  BY DEF Encodes, Digits
<1>2. /\ z1 \in Word /\ z2 \in Word
      /\ Fields(Append(Append(Z, z1), z2), Append(recs, key))
  BY <1>1, FieldsMore
<1> HIDE DEF z1, z2
<1>3. PICK u : Digits(S \o VarInt[z1], u, Append(Z, z1))
  BY <1>1, <1>2, DigitsMore
<1>4. PICK w : Digits((S \o VarInt[z1]) \o VarInt[z2], w, Append(Append(Z, z1), z2))
  BY <1>2, <1>3, DigitsMore
<1>5. (S \o VarInt[z1]) \o VarInt[z2] = S \o (VarInt[z1] \o VarInt[z2])
  <2>1. VarInt[z1] \in Seq(Bytes) /\ VarInt[z2] \in Seq(Bytes)
    BY <1>2, VarIntType DEF Bytes
  <2> DEFINE a == VarInt[z1]
             b == VarInt[z2]
  <2> HIDE DEF a, b
  <2>2. S \in Seq(Bytes) /\ a \in Seq(Bytes) /\ b \in Seq(Bytes)
    BY <1>1, <2>1 DEF a, b
  <2>3. (S \o a) \o b = S \o (a \o b)
    BY ONLY <2>2, SMTT(30)
  <2> QED BY <2>3 DEF a, b
<1>6. Encodes(S \o (VarInt[z1] \o VarInt[z2]), w, Append(Append(Z, z1), z2), Append(recs, key))
  BY <1>2, <1>4, <1>5 DEF Encodes
<1> QED BY <1>2, <1>6 DEF z1, z2

(* No bytes encode no records.                                             *)
LEMMA EncodesNothing == Encodes(<<>>, [j \in {0} |-> 0], <<>>, <<>>)
<1>1. <<>> \in Seq(Bytes) /\ <<>> \in Seq(Word) /\ Len(<<>>) = 0
  OBVIOUS
<1>2. 0..0 = {0} /\ 1..0 = {} /\ 0 * MaxVarInt = 0 /\ 2 * 0 = 0
  BY VarIntBound
<1>3. [j \in {0} |-> 0] \in [{0} -> {0}]
  OBVIOUS
<1>4. Digits(<<>>, [j \in {0} |-> 0], <<>>)
  BY <1>1, <1>2, <1>3 DEF Digits
<1>5. Fields(<<>>, <<>>)
  BY <1>1, <1>2 DEF Fields
<1> QED BY <1>4, <1>5 DEF Encodes

-----------------------------------------------------------------------------
(* The bytes in the file and in the buffers of the writer.                 *)

(* Records, trailer cells, bytes and marks; blocks.                        *)
CellSet == (Int \X Int) \cup (Seq(Bytes) \X Int)

(* The first n cells of a frame: its header, and the bytes of S up to the  *)
(* c[n]-th in blocks.                                                      *)
Blocks(S, c, cells, n) ==
  /\ c \in [1..n -> 0..Len(S)] /\ c[1] = 0
  /\ cells[1] = Header
  /\ \A q \in 2..n : c[q - 1] < c[q] /\ cells[q] = Block(Part(S, c[q - 1], c[q]))

(* S is in the cells of the file and then in the writer's buffer.          *)
ByteShape(S, cells, buf) ==
  /\ Len(cells) <= Len(S) /\ \A i \in 1..Len(cells) : cells[i] = Byte(S[i])
  /\ buf = Part(S, Len(cells), Len(S))

(* S is in the blocks of the file, inside the encoder and in the writer's  *)
(* buffer, in that order.                                                  *)
BlockShape(S, c, cells, enc, buf) ==
  /\ Len(cells) > 0 /\ Blocks(S, c, cells, Len(cells))
  /\ \E l \in 0..Len(S) : /\ c[Len(cells)] <= l
                          /\ enc = Part(S, c[Len(cells)], l)
                          /\ buf = Part(S, l, Len(S))

(* The cells of bytes.                                                     *)
LEMMA ByteCells ==
  ASSUME NEW buf \in Seq(Bytes)
  PROVE  LET cells == [i \in DOMAIN buf |-> Byte(buf[i])]
         IN  /\ cells \in Seq(CellSet) /\ Len(cells) = Len(buf)
             /\ \A i \in 1..Len(buf) : cells[i] = Byte(buf[i])
<1> DEFINE cells == [i \in DOMAIN buf |-> Byte(buf[i])]
           n == Len(buf)
<1>1. n \in Nat /\ DOMAIN buf = 1..n
  BY LenProperties
<1>2. \A i \in 1..n : Byte(buf[i]) \in CellSet
  <2> TAKE i \in 1..n
  <2>1. buf[i] \in Bytes
    BY ElementOfSeq
  <2>2. buf[i] \in Int
    BY <2>1, Numbers DEF Bytes
  <2> QED BY <2>2 DEF Byte, CellSet
<1> HIDE DEF n
<1>3. cells = [i \in 1..n |-> Byte(buf[i])]
  BY <1>1
<1>4. cells \in [1..n -> CellSet]
  BY <1>2, <1>3
<1>5. cells \in Seq(CellSet) /\ Len(cells) = n
  BY <1>1, <1>4, IsASeq, LenProperties
<1> QED BY <1>3, <1>5 DEF n

(* Flushing keeps a file of bytes in shape.                                *)
LEMMA ByteFlush ==
  ASSUME NEW S \in Seq(Bytes), NEW cells \in Seq(CellSet), NEW buf, ByteShape(S, cells, buf)
  PROVE  LET more == cells \o [i \in DOMAIN buf |-> Byte(buf[i])]
         IN  more \in Seq(CellSet) /\ ByteShape(S, more, <<>>) /\ Len(more) = Len(S)
<1> DEFINE new == [i \in DOMAIN buf |-> Byte(buf[i])]
           more == cells \o new
           l == Len(cells)
           n == Len(S)
<1>1. /\ l \in Nat /\ n \in Nat /\ l <= n /\ n <= Len(S)
      /\ \A i \in 1..l : cells[i] = Byte(S[i])
      /\ buf = Part(S, l, n)
  BY LenProperties DEF ByteShape
<1> HIDE DEF l, n
<1>2. buf \in Seq(Bytes) /\ Len(buf) = n - l /\ \A i \in 1..n - l : buf[i] = S[l + i]
  BY <1>1, PartAt, PartIn
<1>3. /\ new \in Seq(CellSet) /\ Len(new) = n - l
      /\ \A i \in 1..n - l : new[i] = Byte(buf[i])
  BY <1>2, ByteCells
<1> HIDE DEF new
<1>4. /\ more \in Seq(CellSet) /\ Len(more) = l + Len(new)
      /\ \A i \in 1..l + Len(new) : more[i] = IF i <= l THEN cells[i] ELSE new[i - l]
  BY <1>3, ConcatProperties DEF l
<1> HIDE DEF more
<1>5. Len(more) = n
  BY <1>1, <1>3, <1>4
<1>6. \A i \in 1..n : more[i] = Byte(S[i])
  <2> TAKE i \in 1..n
  <2>1. CASE i <= l
    <3>1. i \in 1..l /\ i \in 1..l + Len(new)
      BY <1>1, <1>3, <2>1
    <3> QED BY <1>1, <1>4, <2>1, <3>1
  <2>2. CASE ~(i <= l)
    <3>1. i - l \in 1..n - l /\ i \in 1..l + Len(new) /\ l + (i - l) = i
      BY <1>1, <1>3, <2>2
    <3>2. more[i] = new[i - l] /\ new[i - l] = Byte(buf[i - l]) /\ buf[i - l] = S[l + (i - l)]
      BY <1>2, <1>3, <1>4, <2>2, <3>1
    <3> QED BY <3>1, <3>2
  <2> QED BY <2>1, <2>2
<1>7. <<>> = Part(S, n, n)
  BY <1>1, PartEmpty
<1>8. ByteShape(S, more, <<>>)
  BY <1>1, <1>5, <1>6, <1>7 DEF ByteShape, n
<1> QED BY <1>4, <1>5, <1>8 DEF more, new, n

(* So does a record appended to the writer's buffer.                       *)
LEMMA ByteMore ==
  ASSUME NEW S \in Seq(Bytes), NEW R \in Seq(Bytes), NEW cells \in Seq(CellSet), NEW buf,
         ByteShape(S, cells, buf)
  PROVE  ByteShape(S \o R, cells, buf \o R)
<1> DEFINE C == S \o R
           l == Len(cells)
           n == Len(S)
<1>1. /\ l \in Nat /\ n \in Nat /\ l <= n
      /\ \A i \in 1..l : cells[i] = Byte(S[i])
      /\ buf = Part(S, l, n)
  BY LenProperties DEF ByteShape
<1>2. /\ Len(R) \in Nat /\ Len(C) = n + Len(R)
      /\ \A i \in 1..n + Len(R) : C[i] = IF i <= n THEN S[i] ELSE R[i - n]
  BY LenProperties, ConcatProperties
<1>3. Part(C, l, Len(C)) = Part(S, l, n) \o R
  BY <1>1, PartOfConcat
<1> HIDE DEF C, l, n
<1>4. l <= Len(C) /\ \A i \in 1..l : i \in 1..n + Len(R) /\ i <= n
  BY <1>1, <1>2
<1>5. \A i \in 1..l : cells[i] = Byte(C[i])
  BY <1>1, <1>2, <1>4
<1>6. ByteShape(C, cells, buf \o R)
  BY <1>1, <1>3, <1>4, <1>5 DEF ByteShape, l
<1> QED BY <1>6 DEF C

(* A block more, of the bytes since the last one.                          *)
LEMMA BlocksMore ==
  ASSUME NEW S \in Seq(Bytes), NEW R \in Seq(Bytes), NEW cells, NEW n \in Nat, NEW c,
         Blocks(S, c, cells, n)
  PROVE  Blocks(S \o R, c, cells, n)
<1> DEFINE C == S \o R
<1>1. Len(S) \in Nat /\ Len(R) \in Nat /\ Len(C) = Len(S) + Len(R)
  BY LenProperties, ConcatProperties
<1>2. /\ c \in [1..n -> 0..Len(S)] /\ c[1] = 0
      /\ cells[1] = Header
      /\ \A q \in 2..n : c[q - 1] < c[q] /\ cells[q] = Block(Part(S, c[q - 1], c[q]))
  BY DEF Blocks
<1>3. \A q \in 2..n : Part(C, c[q - 1], c[q]) = Part(S, c[q - 1], c[q])
  <2> TAKE q \in 2..n
  <2> DEFINE a == c[q - 1]
             b == c[q]
  <2>1. q - 1 \in 1..n /\ q \in 1..n
    OBVIOUS
  <2>2. a \in 0..Len(S) /\ b \in 0..Len(S) /\ a < b
    BY <1>2, <2>1
  <2> HIDE DEF a, b
  <2>3. a \in Nat /\ b \in Nat /\ a <= b /\ b <= Len(S)
    BY <1>1, <2>2
  <2>4. Part(C, a, b) = Part(S, a, b)
    BY <2>3, PartBeforeConcat
  <2> QED BY <2>4 DEF a, b
<1> HIDE DEF C
<1>4. c \in [1..n -> 0..Len(C)]
  <2>1. \A i \in 0..Len(S) : i \in 0..Len(C)
    BY <1>1
  <2>2. \A q \in 1..n : c[q] \in 0..Len(C)
    BY <1>2, <2>1
  <2> QED BY <1>2, <2>2
<1>5. Blocks(C, c, cells, n)
  BY <1>2, <1>3, <1>4 DEF Blocks
<1> QED BY <1>5 DEF C

(* Flushing keeps a file of blocks in shape.                               *)
LEMMA BlockFlush ==
  ASSUME NEW S \in Seq(Bytes), NEW c, NEW cells \in Seq(CellSet), NEW enc, NEW buf,
         BlockShape(S, c, cells, enc, buf)
  PROVE  BlockShape(S, c, cells, enc \o buf, <<>>)
<1> DEFINE k == Len(cells)
           n == Len(S)
           a == c[k]
<1>1. k \in Nat /\ k > 0 /\ n \in Nat /\ Blocks(S, c, cells, k)
  BY LenProperties DEF BlockShape
<1>2. PICK l \in 0..n : a <= l /\ enc = Part(S, a, l) /\ buf = Part(S, l, n)
  BY DEF BlockShape
<1>3. a \in 0..n
  BY <1>1 DEF Blocks
<1>4. a \in Nat /\ l \in Nat /\ a <= l /\ l <= n /\ a <= n /\ n \in 0..n
  BY <1>1, <1>2, <1>3
<1> HIDE DEF a, n
<1>5. enc \o buf = Part(S, a, n)
  <2>1. n <= Len(S)
    BY <1>1 DEF n
  <2> QED BY <1>1, <1>2, <1>4, <2>1, PartConcat
<1>6. <<>> = Part(S, n, n)
  <2>1. n <= Len(S)
    BY <1>1 DEF n
  <2> QED BY <1>1, <2>1, PartEmpty
<1>7. \E m \in 0..Len(S) : /\ c[Len(cells)] <= m
                           /\ enc \o buf = Part(S, c[Len(cells)], m)
                           /\ <<>> = Part(S, m, Len(S))
  BY <1>4, <1>5, <1>6 DEF a, n
<1> QED BY <1>1, <1>7 DEF BlockShape

(* So does a record appended to the writer's buffer.                       *)
LEMMA BlockMore ==
  ASSUME NEW S \in Seq(Bytes), NEW R \in Seq(Bytes), NEW c, NEW cells \in Seq(CellSet),
         NEW enc, NEW buf, BlockShape(S, c, cells, enc, buf)
  PROVE  BlockShape(S \o R, c, cells, enc, buf \o R)
<1> DEFINE k == Len(cells)
           n == Len(S)
           a == c[k]
           C == S \o R
<1>1. k \in Nat /\ k > 0 /\ n \in Nat /\ Blocks(S, c, cells, k)
  BY LenProperties DEF BlockShape
<1>2. PICK l \in 0..n : a <= l /\ enc = Part(S, a, l) /\ buf = Part(S, l, n)
  BY DEF BlockShape
<1>3. a \in 0..n
  BY <1>1 DEF Blocks
<1>4. a \in Nat /\ l \in Nat /\ a <= l /\ l <= n
  BY <1>1, <1>2, <1>3
<1>5. Blocks(C, c, cells, k)
  BY <1>1, BlocksMore
<1>6. Part(C, l, Len(C)) = Part(S, l, n) \o R
  BY <1>4, PartOfConcat
<1>7. Len(C) \in Nat /\ l \in 0..Len(C)
  <2>1. Len(R) \in Nat /\ Len(C) = n + Len(R)
    BY LenProperties, ConcatProperties
  <2> HIDE DEF C, n
  <2> QED BY <1>1, <1>4, <2>1
<1> HIDE DEF a
<1>8. Part(C, a, l) = Part(S, a, l)
  BY <1>4, PartBeforeConcat
<1> HIDE DEF C, n
<1>9. \E m \in 0..Len(C) : /\ a <= m /\ enc = Part(C, a, m) /\ buf \o R = Part(C, m, Len(C))
  BY <1>2, <1>4, <1>6, <1>7, <1>8
<1> QED BY <1>1, <1>5, <1>9 DEF BlockShape, a, C

(* So does a block the encoder emits.                                      *)
LEMMA BlockEmit ==
  ASSUME NEW S \in Seq(Bytes), NEW c, NEW cells \in Seq(CellSet), NEW enc, NEW buf,
         BlockShape(S, c, cells, enc, buf), enc # <<>>
  PROVE  /\ Append(cells, Block(enc)) \in Seq(CellSet)
         /\ \E d : BlockShape(S, d, Append(cells, Block(enc)), <<>>, buf)
<1> DEFINE k == Len(cells)
           n == Len(S)
           a == c[k]
           more == Append(cells, Block(enc))
<1>1. k \in Nat /\ k > 0 /\ n \in Nat /\ Blocks(S, c, cells, k)
  BY LenProperties DEF BlockShape
<1>2. PICK l \in 0..n : a <= l /\ enc = Part(S, a, l) /\ buf = Part(S, l, n)
  BY DEF BlockShape
<1>3. /\ c \in [1..k -> 0..n] /\ c[1] = 0 /\ cells[1] = Header
      /\ \A q \in 2..k : c[q - 1] < c[q] /\ cells[q] = Block(Part(S, c[q - 1], c[q]))
  BY <1>1 DEF Blocks
<1>4. a \in Nat /\ l \in Nat /\ a <= l /\ l <= n /\ k \in 1..k
  BY <1>1, <1>2, <1>3
<1>5. enc \in Seq(Bytes) /\ a # l
  <2> HIDE DEF a
  <2> QED BY <1>2, <1>4, PartIn, PartEmpty
<1>6. Block(enc) \in CellSet
  BY <1>5 DEF Block, CellSet
<1>7. /\ more \in Seq(CellSet) /\ Len(more) = k + 1
      /\ (\A q \in 1..k : more[q] = cells[q]) /\ more[k + 1] = Block(enc)
  BY <1>6, AppendProperties
<1> DEFINE d == [q \in 1..k + 1 |-> IF q <= k THEN c[q] ELSE l]
<1>8. /\ d \in [1..k + 1 -> 0..n] /\ d[k + 1] = l
      /\ \A q \in 1..k : d[q] = c[q]
  <2> HIDE DEF k, n
  <2>1. (\A q \in 1..k + 1 : q <= k => q \in 1..k) /\ (\A q \in 1..k : q \in 1..k + 1 /\ q <= k)
        /\ k + 1 \in 1..k + 1 /\ ~(k + 1 <= k)
    BY <1>1
  <2> QED BY <1>2, <1>3, <2>1
<1> HIDE DEF d, more, n
<1>9. \A q \in 2..k + 1 : d[q - 1] < d[q] /\ more[q] = Block(Part(S, d[q - 1], d[q]))
  <2> TAKE q \in 2..k + 1
  <2>1. CASE q = k + 1
    <3>1. q - 1 = k /\ d[q - 1] = a /\ d[q] = l
      BY <1>1, <1>4, <1>8, <2>1
    <3>2. a < l
      BY <1>4, <1>5
    <3> QED BY <1>2, <1>7, <2>1, <3>1, <3>2
  <2>2. CASE q # k + 1
    <3>1. q \in 2..k /\ q \in 1..k /\ q - 1 \in 1..k
      BY <1>1, <2>2
    <3> HIDE DEF k
    <3> QED BY <1>3, <1>7, <1>8, <3>1
  <2> QED BY <2>1, <2>2
<1>10. d[1] = 0 /\ more[1] = Header
  BY <1>1, <1>3, <1>7, <1>8
<1>11. Blocks(S, d, more, k + 1)
  BY <1>8, <1>9, <1>10 DEF Blocks, n
<1>12. <<>> = Part(S, l, l)
  <2>1. l <= Len(S)
    BY <1>4 DEF n
  <2> QED BY <1>4, <2>1, PartEmpty
<1>13. \E m \in 0..Len(S) : l <= m /\ <<>> = Part(S, l, m) /\ buf = Part(S, m, Len(S))
  BY <1>2, <1>4, <1>12 DEF n
<1>14. Len(more) > 0
  BY <1>1, <1>7
<1>15. BlockShape(S, d, more, <<>>, buf)
  BY <1>7, <1>8, <1>11, <1>13, <1>14 DEF BlockShape
<1> QED BY <1>7, <1>15 DEF more

(* Each block has a byte at least.                                         *)
LEMMA BlocksCount ==
  ASSUME NEW S \in Seq(Bytes), NEW c, NEW cells, NEW n \in Nat, Blocks(S, c, cells, n)
  PROVE  \A q \in 1..n : q - 1 <= c[q]
<1> DEFINE T == {q \in 1..n : ~(q - 1 <= c[q])}
<1> SUFFICES ASSUME T # {} PROVE FALSE
  OBVIOUS
<1>1. T \in SUBSET Nat
  OBVIOUS
<1>2. PICK q \in T : \A r \in T : q <= r
  BY <1>1, LeastNumber
<1>3. Len(S) \in Nat
  BY LenProperties
<1>4. /\ c \in [1..n -> 0..Len(S)] /\ c[1] = 0
      /\ \A r \in 2..n : c[r - 1] < c[r]
  BY DEF Blocks
<1>5. q # 1
  BY <1>2, <1>4
<1>6. q \in 2..n /\ q - 1 \in 1..n /\ q \in 1..n
  BY <1>2, <1>5
<1>7. c[q - 1] < c[q] /\ c[q - 1] \in Nat /\ c[q] \in Nat
  BY <1>3, <1>4, <1>6
<1>8. q - 1 \notin T
  BY <1>2, <1>6
<1>9. (q - 1) - 1 <= c[q - 1]
  BY <1>6, <1>8
<1> QED BY <1>2, <1>6, <1>7, <1>9

-----------------------------------------------------------------------------
(* Closed files and files cut short.                                       *)

(* A body that holds all the records.                                      *)
WholeBody(body, fmt, recs) ==
  /\ body \in Seq(CellSet)
  /\ fmt = "blf" => body = recs
  /\ fmt = "blfz" =>
       \E S, v, Z : Encodes(S, v, Z, recs) /\ ByteShape(S, body, <<>>) /\ Len(body) = Len(S)
  /\ fmt = "blfzl" =>
       \E S, v, Z, c : /\ Encodes(S, v, Z, recs) /\ Len(body) > 1
                       /\ Blocks(S, c, body, Len(body) - 1)
                       /\ c[Len(body) - 1] = Len(S) /\ body[Len(body)] = EndMark

(* The trailer BLFWriterClose puts behind a body.                          *)
TrailerOf(body, fmt, recs) ==
  <<IF Len(recs) = 0 THEN Zero ELSE recs[1], IF Len(recs) = 0 THEN Zero ELSE recs[Len(recs)],
    <<Len(recs), IF fmt # "blf" THEN Len(body) ELSE 0>>, <<0, Magics[fmt]>>>>

(* The bytes of the first n cells of a file whose body has b cells.        *)
BytesOfCells(n, b, fmt) ==
  LET small == IF fmt # "blf" THEN Smaller(n, b) ELSE 0
  IN  small + RecordBytes * (n - small)

(* BLFOpen accepts the cells.                                              *)
Opens(cells, bytes) ==
  /\ bytes >= 4 * RecordBytes
  /\ \E f \in FormatOf(cells[Len(cells)][2]) :
       bytes = 4 * RecordBytes + (IF f = "blf" THEN cells[Len(cells) - 1][1] * RecordBytes
                                               ELSE cells[Len(cells) - 1][2])

(* The cells end like a trailer.                                           *)
Lookalike(cells, bytes) ==
  /\ Len(cells) > 1 /\ cells[Len(cells) - 1] \in Keys /\ cells[Len(cells)] \in Keys
  /\ cells[Len(cells)][2] \in {Magics["blfz"], Magics["blfzl"]}
  /\ bytes = cells[Len(cells) - 1][2] + 4 * RecordBytes

(* A magic names one format, and it is no number of cells.                 *)
LEMMA MagicFormats ==
  /\ \A f \in Formats : Magics[f] \in Nat /\ Magics[f] > MaxCells
  /\ \A f, g \in Formats : Magics[f] = Magics[g] => f = g
  /\ \A m : FormatOf(m) = {f \in Formats : Magics[f] = m}
<1>1. \A f \in Formats : Magics[f] \in Word
  BY FileAssumption
<1>2. \A f \in Formats : Magics[f] \in Nat
  BY <1>1, Numbers
<1> QED BY <1>2, FileAssumption DEF FormatOf

(* A compressed body of n records has no more than MaxCells cells, counted *)
(* by its bytes.                                                           *)
LEMMA SizeOfRecords ==
  ASSUME NEW n \in Nat, n <= MaxRecords, NEW l \in Nat, l <= (2 * n) * MaxVarInt
  PROVE  l + 2 <= MaxCells /\ n + 2 <= MaxCells
<1>1. MaxVarInt \in Nat /\ MaxVarInt > 0 /\ MaxRecords \in Nat
  BY VarIntBound, Numbers
<1> DEFINE e == 2 * MaxVarInt
<1>2. e \in Nat /\ e >= 1
  BY <1>1
<1>3. (2 * n) * MaxVarInt = n * e
  BY <1>1
<1>4. MaxCells = MaxRecords * e + 2
  BY DEF MaxCells
<1> HIDE DEF e
<1>5. n * e <= MaxRecords * e /\ n <= n * e /\ n * e \in Nat /\ MaxRecords * e \in Nat
  BY <1>1, <1>2
<1> QED BY <1>3, <1>4, <1>5

(* The words of a record; the first is greater than any number of cells.   *)
LEMMA KeyWords ==
  /\ MaxCells \in Nat /\ MaxCells < Half
  /\ \A key \in Keys : /\ key \in Word \X Word /\ key \in Int \X Int
                       /\ key[1] \in Nat /\ key[2] \in Nat /\ key[1] > MaxCells
<1>1. MaxCells \in Nat
  BY Numbers, VarIntBound DEF MaxCells
<1>2. MaxCells < Half /\ \A key \in Keys : key[1] > MaxCells
  BY FileAssumption
<1> SUFFICES ASSUME NEW key \in Keys
             PROVE  key \in Word \X Word /\ key \in Int \X Int /\ key[1] \in Nat /\ key[2] \in Nat
  BY <1>1, <1>2
<1>3. key \in Word \X Word
  BY FileAssumption
<1>4. PICK a \in Word, b \in Word : key = <<a, b>>
  BY <1>3
<1>5. a \in Nat /\ b \in Nat
  BY Numbers
<1> QED BY <1>3, <1>4, <1>5

(* SubSeq from the start is a part.                                        *)
LEMMA PartFromStart ==
  ASSUME NEW S, NEW n
  PROVE  SubSeq(S, 1, n) = Part(S, 0, n)
<1>1. 0 + 1 = 1
  OBVIOUS
<1> QED BY <1>1 DEF Part

(* The cells of a body.                                                    *)
LEMMA BodyCells ==
  ASSUME NEW recs \in Seq(Keys), Len(recs) <= MaxRecords, NEW fmt \in Formats,
         NEW body, WholeBody(body, fmt, recs)
  PROVE  /\ Len(body) \in Nat /\ Len(body) <= MaxCells
         /\ fmt = "blf" => \A i \in 1..Len(body) : body[i] \in Keys
         /\ fmt # "blf" => \A i \in 1..Len(body) : body[i][2] \in {-9, -8, -7}
         /\ fmt # "blf" /\ Len(body) > 0 => body[Len(body)][1] \in Int /\ body[Len(body)][1] < 0
<1> DEFINE n == Len(body)
<1>1. n \in Nat /\ Len(recs) \in Nat
  BY LenProperties DEF WholeBody
<1>2. CASE fmt = "blf"
  <2>1. body = recs
    BY <1>2 DEF WholeBody
  <2>2. \A i \in 1..n : body[i] \in Keys
    BY <2>1, ElementOfSeq
  <2>3. n <= MaxCells
    <3>1. 0 <= (2 * n) * MaxVarInt
      BY <1>1, VarIntBound
    <3>2. n <= MaxRecords
      BY <2>1
    <3>3. n + 2 <= MaxCells
      BY <1>1, <3>1, <3>2, SizeOfRecords
    <3> HIDE DEF n
    <3>4. MaxCells \in Int
      BY Numbers, VarIntBound DEF MaxCells
    <3> QED BY <1>1, <3>3, <3>4
  <2> QED BY <1>1, <1>2, <2>2, <2>3
<1>3. CASE fmt = "blfz"
  <2>1. PICK S, v, Z : Encodes(S, v, Z, recs) /\ ByteShape(S, body, <<>>) /\ n = Len(S)
    BY <1>3 DEF WholeBody
  <2>2. S \in Seq(Bytes) /\ Len(S) <= (2 * Len(recs)) * MaxVarInt
    BY <2>1 DEF Encodes, Digits, Fields
  <2>3. \A i \in 1..n : body[i] = Byte(S[i]) /\ S[i] \in Bytes
    BY <2>1, <2>2, ElementOfSeq DEF ByteShape
  <2>4. \A i \in 1..n : body[i][2] = -9 /\ body[i][1] \in Int /\ body[i][1] < 0
    <3> TAKE i \in 1..n
    <3>1. S[i] \in Nat /\ body[i] = <<-1 - S[i], -9>>
      BY <2>3, Numbers DEF Bytes, Byte
    <3> QED BY <3>1
  <2>5. n + 2 <= MaxCells
    BY <1>1, <2>1, <2>2, SizeOfRecords
  <2>6. MaxCells \in Int
    BY Numbers, VarIntBound DEF MaxCells
  <2> HIDE DEF n
  <2>7. n > 0 => n \in 1..n
    BY <1>1
  <2>8. n <= MaxCells
    BY <1>1, <2>5, <2>6
  <2> QED BY <1>1, <1>3, <2>4, <2>7, <2>8 DEF n
<1>4. CASE fmt = "blfzl"
  <2>1. PICK S, v, Z, c : /\ Encodes(S, v, Z, recs) /\ n > 1
                          /\ Blocks(S, c, body, n - 1)
                          /\ c[n - 1] = Len(S) /\ body[n] = EndMark
    BY <1>4 DEF WholeBody
  <2>2. S \in Seq(Bytes) /\ Len(S) \in Nat /\ Len(S) <= (2 * Len(recs)) * MaxVarInt
    BY <2>1, LenProperties DEF Encodes, Digits, Fields
  <2> DEFINE m == n - 1
  <2> HIDE DEF n
  <2>3. m \in Nat /\ m \in 1..m
    BY <1>1, <2>1
  <2>4. m - 1 <= Len(S)
    BY <2>1, <2>2, <2>3, BlocksCount
  <2>5. Len(S) + 2 <= MaxCells
    BY <1>1, <2>2, SizeOfRecords
  <2>6. MaxCells \in Int
    BY Numbers, VarIntBound DEF MaxCells
  <2>7. n <= MaxCells
    BY <1>1, <2>2, <2>4, <2>5, <2>6
  <2>8. body[1] = Header /\ \A q \in 2..m : \E p : body[q] = Block(p)
    BY <2>1 DEF Blocks
  <2>9. \A i \in 1..n : body[i][2] \in {-9, -8, -7}
    <3> TAKE i \in 1..n
    <3>1. CASE i = 1
      BY <2>8, <3>1 DEF Header
    <3>2. CASE i = n
      BY <2>1, <3>2 DEF EndMark
    <3>3. CASE i # 1 /\ i # n
      <4>1. i \in 2..m
        BY <1>1, <3>3
      <4>2. PICK p : body[i] = Block(p)
        BY <2>8, <4>1
      <4> QED BY <4>2 DEF Block
    <3> QED BY <3>1, <3>2, <3>3
  <2>10. body[n][1] = -99
    BY <2>1 DEF EndMark
  <2> QED BY <1>1, <1>4, <2>7, <2>9, <2>10 DEF n
<1> QED BY <1>2, <1>3, <1>4 DEF Formats

(* The cells of a closed file.                                             *)
LEMMA StreamCells ==
  ASSUME NEW recs \in Seq(Keys), NEW fmt \in Formats,
         NEW body, WholeBody(body, fmt, recs)
  PROVE  LET stream == body \o TrailerOf(body, fmt, recs)
             n == Len(body)
         IN  /\ stream \in Seq(CellSet) /\ Len(stream) = n + 4
             /\ \A i \in 1..n : stream[i] = body[i]
             /\ stream[n + 1] = IF Len(recs) = 0 THEN Zero ELSE recs[1]
             /\ stream[n + 2] = IF Len(recs) = 0 THEN Zero ELSE recs[Len(recs)]
             /\ stream[n + 3] = <<Len(recs), IF fmt # "blf" THEN n ELSE 0>>
             /\ stream[n + 4] = <<0, Magics[fmt]>>
<1> DEFINE t == TrailerOf(body, fmt, recs)
           n == Len(body)
           stream == body \o t
<1>1. body \in Seq(CellSet) /\ n \in Nat /\ Len(recs) \in Nat
  BY LenProperties DEF WholeBody
<1>2. \A key \in Keys : key \in Int \X Int
  BY KeyWords
<1>3. Magics[fmt] \in Int
  BY MagicFormats
<1>4. t \in Seq(CellSet) /\ Len(t) = 4
  <2> DEFINE a == IF Len(recs) = 0 THEN Zero ELSE recs[1]
             b == IF Len(recs) = 0 THEN Zero ELSE recs[Len(recs)]
             c == <<Len(recs), IF fmt # "blf" THEN n ELSE 0>>
             d == <<0, Magics[fmt]>>
  <2>1. a \in Int \X Int
    <3>1. CASE Len(recs) = 0
      BY <3>1 DEF Zero
    <3>2. CASE Len(recs) # 0
      <4>1. 1 \in 1..Len(recs)
        BY <1>1, <3>2
      <4> QED BY <1>2, <3>2, <4>1, ElementOfSeq
    <3> QED BY <3>1, <3>2
  <2>2. b \in Int \X Int
    <3>1. CASE Len(recs) = 0
      BY <3>1 DEF Zero
    <3>2. CASE Len(recs) # 0
      <4>1. Len(recs) \in 1..Len(recs)
        BY <1>1, <3>2
      <4> QED BY <1>2, <3>2, <4>1, ElementOfSeq
    <3> QED BY <3>1, <3>2
  <2>3. c \in Int \X Int /\ d \in Int \X Int
    BY <1>1, <1>3
  <2>4. t = <<a, b, c, d>>
    BY DEF TrailerOf
  <2> HIDE DEF a, b, c, d, t
  <2>5. a \in CellSet /\ b \in CellSet /\ c \in CellSet /\ d \in CellSet
    BY <2>1, <2>2, <2>3 DEF CellSet
  <2> QED BY <2>4, <2>5
<1>5. /\ t[1] = IF Len(recs) = 0 THEN Zero ELSE recs[1]
      /\ t[2] = IF Len(recs) = 0 THEN Zero ELSE recs[Len(recs)]
      /\ t[3] = <<Len(recs), IF fmt # "blf" THEN n ELSE 0>>
      /\ t[4] = <<0, Magics[fmt]>>
  BY DEF TrailerOf
<1> HIDE DEF t
<1>6. /\ stream \in Seq(CellSet) /\ Len(stream) = n + 4
      /\ \A i \in 1..n + 4 : stream[i] = IF i <= n THEN body[i] ELSE t[i - n]
  <2>1. body \in Seq(CellSet) /\ t \in Seq(CellSet)
    BY <1>1, <1>4
  <2>2. /\ stream \in Seq(CellSet) /\ Len(stream) = n + Len(t)
        /\ \A i \in 1..n + Len(t) : stream[i] = IF i <= n THEN body[i] ELSE t[i - n]
    BY ONLY <2>1, ConcatProperties
  <2> HIDE DEF stream, n
  <2> QED BY <1>4, <2>2
<1> HIDE DEF n, stream
<1>7. \A i \in 1..n : stream[i] = body[i]
  BY <1>1, <1>6
<1>8. \A i \in 1..4 : stream[n + i] = t[i]
  <2> TAKE i \in 1..4
  <2>1. n + i \in 1..n + 4 /\ ~(n + i <= n) /\ (n + i) - n = i
    BY <1>1
  <2> QED BY <1>6, <2>1
<1>9. 1 \in 1..4 /\ 2 \in 1..4 /\ 3 \in 1..4 /\ 4 \in 1..4
  OBVIOUS
<1>10. stream[n + 1] = t[1] /\ stream[n + 2] = t[2] /\ stream[n + 3] = t[3] /\ stream[n + 4] = t[4]
  BY <1>8, <1>9
<1> QED BY <1>5, <1>6, <1>7, <1>10 DEF t, n, stream

(* A closed file opens, as what its writer made it.                        *)
LEMMA ClosedOpens ==
  ASSUME NEW recs \in Seq(Keys), NEW fmt \in Formats,
         NEW body, WholeBody(body, fmt, recs),
         NEW cells, cells = body \o TrailerOf(body, fmt, recs)
  PROVE  /\ Opens(cells, BytesOfCells(Len(cells), Len(body), fmt))
         /\ FormatOf(cells[Len(cells)][2]) = {fmt}
<1> DEFINE B == Len(body)
           bytes == BytesOfCells(Len(cells), B, fmt)
<1>1. B \in Nat /\ Len(recs) \in Nat /\ RecordBytes \in Nat
  BY FileAssumption, LenProperties DEF WholeBody
<1>2. /\ Len(cells) = B + 4
      /\ cells[B + 3] = <<Len(recs), IF fmt # "blf" THEN B ELSE 0>>
      /\ cells[B + 4] = <<0, Magics[fmt]>>
  BY StreamCells
<1>4. FormatOf(cells[Len(cells)][2]) = {fmt}
  <2>1. cells[Len(cells)][2] = Magics[fmt]
    BY <1>2
  <2>2. FormatOf(Magics[fmt]) = {f \in Formats : Magics[f] = Magics[fmt]}
    BY MagicFormats
  <2>3. {f \in Formats : Magics[f] = Magics[fmt]} = {fmt}
    BY MagicFormats
  <2> QED BY <2>1, <2>2, <2>3
<1>5. fmt = "blf" => B = Len(recs)
  BY DEF WholeBody
<1> HIDE DEF B
<1>3. Len(cells) - 1 = B + 3
  BY <1>1, <1>2
<1>6. CASE fmt = "blf"
  <2>1. bytes = 0 + RecordBytes * ((B + 4) - 0)
    BY <1>2, <1>6 DEF BytesOfCells
  <2>2. bytes = 4 * RecordBytes + B * RecordBytes /\ B * RecordBytes >= 0
    BY <1>1, <2>1
  <2>3. cells[Len(cells) - 1][1] = B
    BY <1>2, <1>3, <1>5, <1>6
  <2> HIDE DEF bytes
  <2>4. bytes >= 4 * RecordBytes
    BY <1>1, <2>2
  <2> QED BY <1>4, <1>6, <2>2, <2>3, <2>4 DEF Opens, bytes, B
<1>7. CASE fmt # "blf"
  <2>1. Smaller(B + 4, B) = B /\ (B + 4) - B = 4
    BY <1>1 DEF Smaller
  <2>2. bytes = B + RecordBytes * 4
    BY <1>2, <1>7, <2>1 DEF BytesOfCells
  <2>3. cells[Len(cells) - 1][2] = B
    <3>1. cells[B + 3] = <<Len(recs), B>>
      BY <1>2, <1>7
    <3>2. cells[Len(cells) - 1] = cells[B + 3]
      BY <1>3, Zenon
    <3> QED BY <3>1, <3>2
  <2> HIDE DEF bytes
  <2>4. bytes >= 4 * RecordBytes /\ bytes = 4 * RecordBytes + B
    BY <1>1, <2>2
  <2> QED BY <1>4, <1>7, <2>3, <2>4 DEF Opens, bytes, B
<1> QED BY <1>6, <1>7

(* No more bytes than the cells would have as records.                     *)
LEMMA BytesBound ==
  ASSUME NEW n \in Nat, NEW b \in Nat, NEW fmt
  PROVE  /\ BytesOfCells(n, b, fmt) \in Nat
         /\ BytesOfCells(n, b, fmt) <= RecordBytes * n
<1> DEFINE small == IF fmt # "blf" THEN Smaller(n, b) ELSE 0
<1>1. small \in Nat /\ small <= n /\ RecordBytes \in Nat /\ RecordBytes >= 1
  BY FileAssumption DEF Smaller
<1>2. BytesOfCells(n, b, fmt) = small + RecordBytes * (n - small)
  BY DEF BytesOfCells
<1> HIDE DEF small
<1> DEFINE m == n - small
<1>3. m \in Nat /\ n = small + m
  BY <1>1
<1> HIDE DEF m
<1>4. RecordBytes * n = RecordBytes * small + RecordBytes * m
  BY <1>1, <1>3
<1>5. small <= RecordBytes * small /\ RecordBytes * m \in Nat
  BY <1>1, <1>3
<1> QED BY <1>1, <1>2, <1>4, <1>5 DEF m

(* A board in the place of the count is too great a count.                 *)
LEMMA CountTooGreat ==
  ASSUME NEW n \in Nat, NEW x \in Nat, NEW bytes \in Nat,
         bytes <= RecordBytes * n, bytes = 4 * RecordBytes + x * RecordBytes
  PROVE  x + 4 <= n
<1>1. RecordBytes \in Nat /\ RecordBytes >= 1
  BY FileAssumption
<1>2. SUFFICES ASSUME n <= x + 3 PROVE FALSE
  OBVIOUS
<1>3. RecordBytes * n <= RecordBytes * (x + 3)
  BY <1>1, <1>2
<1>4. RecordBytes * (x + 3) = x * RecordBytes + 3 * RecordBytes /\ x * RecordBytes \in Nat
  BY <1>1
<1>5. RecordBytes * n \in Nat
  BY <1>1
<1> QED BY <1>1, <1>3, <1>4, <1>5

(* A file cut short opens only when it ends like a trailer.                *)
LEMMA CutLooksAlike ==
  ASSUME NEW recs \in Seq(Keys), Len(recs) <= MaxRecords, NEW fmt \in Formats,
         NEW body, WholeBody(body, fmt, recs),
         NEW n \in Nat, n < Len(body) + 4,
         NEW cells, cells = SubSeq(body \o TrailerOf(body, fmt, recs), 1, n),
         NEW bytes, bytes = BytesOfCells(n, Len(body), fmt), Opens(cells, bytes)
  PROVE  Lookalike(cells, bytes)
<1> DEFINE stream == body \o TrailerOf(body, fmt, recs)
           B == Len(body)
<1>1. /\ B \in Nat /\ B <= MaxCells /\ Len(recs) \in Nat
      /\ fmt = "blf" => \A i \in 1..B : body[i] \in Keys
      /\ fmt # "blf" => \A i \in 1..B : body[i][2] \in {-9, -8, -7}
      /\ fmt # "blf" /\ B > 0 => body[B][1] \in Int /\ body[B][1] < 0
  BY BodyCells, LenProperties
<1>2. /\ stream \in Seq(CellSet) /\ Len(stream) = B + 4
      /\ \A i \in 1..B : stream[i] = body[i]
      /\ stream[B + 1] = IF Len(recs) = 0 THEN Zero ELSE recs[1]
      /\ stream[B + 2] = IF Len(recs) = 0 THEN Zero ELSE recs[Len(recs)]
      /\ stream[B + 3] = <<Len(recs), IF fmt # "blf" THEN B ELSE 0>>
  BY StreamCells
<1>3. Len(cells) = n /\ \A i \in 1..n : cells[i] = stream[i]
  <2> HIDE DEF stream
  <2>1. cells = Part(stream, 0, n)
    BY PartFromStart DEF stream
  <2> DEFINE p == Part(stream, 0, n)
  <2>4. n \in Nat /\ 0 \in Nat /\ 0 <= n
    OBVIOUS
  <2>2. Len(p) = n - 0 /\ \A i \in 1..n - 0 : p[i] = stream[0 + i]
    BY ONLY <2>4, PartAt
  <2> HIDE DEF p
  <2>3. Len(p) = n /\ \A i \in 1..n : p[i] = stream[i]
    BY <2>2
  <2> QED BY <2>1, <2>3 DEF p
<1>4. /\ MaxCells \in Nat
      /\ \A key \in Keys : key[1] \in Nat /\ key[2] \in Nat /\ key[1] > MaxCells
  BY KeyWords
<1>5. RecordBytes \in Nat /\ RecordBytes >= 1
  BY FileAssumption
<1> HIDE DEF stream, B
<1>16. bytes \in Nat /\ bytes <= RecordBytes * n
  BY <1>1, BytesBound DEF B
<1>17. n < B + 4
  BY DEF B
<1>6. n >= 4
  <2>1. bytes >= 4 * RecordBytes
    BY DEF Opens
  <2>2. SUFFICES ASSUME n <= 3 PROVE FALSE
    OBVIOUS
  <2>3. RecordBytes * n <= RecordBytes * 3
    BY <1>5, <2>2
  <2> QED BY <1>5, <1>16, <2>1, <2>3
<1>7. PICK f \in Formats : /\ Magics[f] = stream[n][2]
                           /\ bytes = 4 * RecordBytes + (IF f = "blf" THEN stream[n - 1][1] * RecordBytes
                                                                      ELSE stream[n - 1][2])
  <2>1. n \in 1..n /\ n - 1 \in 1..n
    BY <1>6
  <2>2. cells[n] = stream[n] /\ cells[n - 1] = stream[n - 1]
    BY <1>3, <2>1
  <2>3. PICK f \in FormatOf(cells[n][2]) :
          bytes = 4 * RecordBytes + (IF f = "blf" THEN cells[n - 1][1] * RecordBytes ELSE cells[n - 1][2])
    BY <1>3 DEF Opens
  <2>4. f \in Formats /\ Magics[f] = cells[n][2]
    BY <2>3, MagicFormats
  <2> QED BY <2>2, <2>3, <2>4
<1>8. Magics[f] \in Nat /\ Magics[f] > MaxCells
  BY <1>7, MagicFormats
<1>9. stream[n][2] \notin {-9, -8, -7} /\ stream[n][2] \notin 0..MaxCells
  BY <1>4, <1>7, <1>8
<1>10. ASSUME stream[n - 1] \in Keys, stream[n] \in Keys PROVE Lookalike(cells, bytes)
  <2>1. f # "blf"
    <3>1. SUFFICES ASSUME f = "blf" PROVE FALSE
      OBVIOUS
    <3> DEFINE x == stream[n - 1][1]
    <3>2. x \in Nat /\ x > MaxCells
      BY <1>4, <1>10
    <3>3. bytes = 4 * RecordBytes + x * RecordBytes
      BY <1>7, <3>1
    <3> HIDE DEF x
    <3>4. x + 4 <= n
      BY <1>16, <3>2, <3>3, CountTooGreat
    <3> QED BY <1>1, <1>4, <1>17, <3>2, <3>4
  <2>2. n - 1 \in 1..n /\ n \in 1..n /\ n > 1
    BY <1>6
  <2>3. cells[n - 1] = stream[n - 1] /\ cells[n] = stream[n]
    BY <1>3, <2>2
  <2>4. stream[n][2] \in {Magics["blfz"], Magics["blfzl"]}
    BY <1>7, <2>1 DEF Formats
  <2>5. bytes = stream[n - 1][2] + 4 * RecordBytes
    <3> DEFINE y == stream[n - 1][2]
    <3>1. y \in Nat /\ bytes = 4 * RecordBytes + y
      BY <1>4, <1>7, <1>10, <2>1
    <3> HIDE DEF y
    <3>2. bytes = y + 4 * RecordBytes
      BY <1>5, <3>1
    <3> QED BY <3>2 DEF y
  <2> QED BY <1>3, <1>10, <2>2, <2>3, <2>4, <2>5 DEF Lookalike
<1>11. CASE n <= B
  <2>1. n \in 1..B /\ n - 1 \in 1..B
    BY <1>1, <1>6, <1>11
  <2>2. fmt = "blf"
    BY <1>1, <1>2, <1>9, <2>1
  <2> QED BY <1>1, <1>2, <1>10, <2>1, <2>2
<1>12. CASE n = B + 1
  <2>1. n - 1 = B /\ B \in 1..B /\ B > 0
    BY <1>1, <1>6, <1>12
  <2>2. stream[n - 1] = body[B]
    BY <1>2, <2>1
  <2>3. CASE fmt = "blf"
    <3>1. Len(recs) = B
      BY <2>3 DEF WholeBody, B
    <3>2. 1 \in 1..Len(recs)
      BY <1>1, <2>1, <3>1
    <3>3. recs[1] \in Keys
      BY <3>2, ElementOfSeq
    <3>4. stream[n] \in Keys
      BY <1>2, <1>12, <2>1, <3>1, <3>3
    <3> QED BY <1>1, <1>10, <2>1, <2>2, <2>3, <3>4
  <2>4. CASE fmt # "blf"
    <3> DEFINE x == body[B][1]
               y == body[B][2]
    <3>1. x \in Int /\ x < 0 /\ y \in Int /\ y < 0
      BY <1>1, <2>1, <2>4
    <3>2. bytes = 4 * RecordBytes + (IF f = "blf" THEN x * RecordBytes ELSE y)
      BY <1>7, <2>2
    <3>3. bytes >= 4 * RecordBytes
      BY DEF Opens
    <3> HIDE DEF x, y
    <3>4. x * RecordBytes < 0
      BY <1>5, <3>1
    <3>5. x * RecordBytes \in Int
      BY <1>5, <3>1
    <3>6. FALSE
      BY <1>5, <3>1, <3>2, <3>3, <3>4, <3>5
    <3> QED BY <3>6
  <2> QED BY <2>3, <2>4
<1>13. CASE n = B + 2
  <2>1. n - 1 = B + 1
    BY <1>1, <1>13
  <2>2. Len(recs) # 0
    <3> SUFFICES ASSUME Len(recs) = 0 PROVE FALSE
      OBVIOUS
    <3>1. stream[n][2] = 0
      BY <1>2, <1>13 DEF Zero
    <3> QED BY <1>4, <1>9, <3>1
  <2>3. 1 \in 1..Len(recs) /\ Len(recs) \in 1..Len(recs)
    BY <1>1, <2>2
  <2>4. recs[1] \in Keys /\ recs[Len(recs)] \in Keys
    BY <2>3, ElementOfSeq
  <2>5. stream[n - 1] \in Keys /\ stream[n] \in Keys
    BY <1>2, <1>13, <2>1, <2>2, <2>4
  <2> QED BY <1>10, <2>5
<1>14. CASE n = B + 3
  <2>1. stream[n][2] = IF fmt # "blf" THEN B ELSE 0
    BY <1>2, <1>14
  <2> QED BY <1>1, <1>4, <1>9, <2>1
<1> QED BY <1>1, <1>11, <1>12, <1>13, <1>14, <1>17

-----------------------------------------------------------------------------
(* The invariant of the file.                                              *)

(* Where the bytes made so far are while the file is written.              *)
WriteState ==
  /\ varBuf \in Seq(Bytes) /\ Len(varBuf) <= VarBufSize
  /\ prev = IF Compressed THEN Before(written, Len(written) + 1) ELSE Zero
  /\ format = "blf" => file = written /\ varBuf = <<>> /\ lz4 = <<>>
  /\ format = "blfz" =>
       /\ lz4 = <<>>
       /\ \E S, v, Z : Encodes(S, v, Z, written) /\ ByteShape(S, file, varBuf)
  /\ format = "blfzl" =>
       \E S, v, Z, c : Encodes(S, v, Z, written) /\ BlockShape(S, c, file, lz4, varBuf)

(* A file its writer closed.                                               *)
Closed(cells, bytes, fmt, recs) ==
  \E body : /\ WholeBody(body, fmt, recs) /\ cells = body \o TrailerOf(body, fmt, recs)
            /\ bytes = BytesOfCells(Len(cells), Len(body), fmt)

(* The inductive invariant of the file.                                    *)
FileInv ==
  /\ format \in Formats
  /\ phase \in {"write", "cut", "closed", "read", "mistaken", "refused", "fatal"}
  /\ written \in Seq(Keys) /\ Len(written) <= MaxRecords
  /\ file \in Seq(CellSet)
  /\ phase = "write" => WriteState
  /\ phase = "cut" => (Opens(file, fileBytes) => Lookalike(file, fileBytes))
  /\ phase = "mistaken" => Lookalike(file, fileBytes)
  /\ phase \in {"write", "cut", "refused", "mistaken"} => result = <<0, 0>>
  /\ phase \in {"closed", "read", "fatal"} =>
       result = <<Len(written), fileBytes>> /\ Closed(file, fileBytes, format, written)

(* Records are cells and pairs of words.                                   *)
LEMMA KeyCells == Keys \subseteq CellSet /\ Seq(Keys) \subseteq Seq(CellSet) /\ Seq(Keys) \subseteq Seq(Word \X Word)
<1>1. Keys \subseteq CellSet /\ Keys \subseteq Word \X Word
  BY KeyWords DEF CellSet
<1> QED BY <1>1

(* FileInv holds at the start.                                             *)
LEMMA FileInit == Init => FileInv
<1> SUFFICES ASSUME Init PROVE FileInv
  OBVIOUS
<1>1. /\ format \in Formats /\ phase = "write" /\ written = <<>> /\ varBuf = <<>> /\ prev = Zero
      /\ lz4 = <<>> /\ result = <<0, 0>>
      /\ file = IF format = "blfzl" THEN <<Header>> ELSE <<>>
  BY DEF Init, Formats
<1>2. written \in Seq(Keys) /\ Len(written) = 0 /\ Len(written) <= MaxRecords
  BY <1>1, Numbers
<1>3. Header \in CellSet
  BY DEF Header, CellSet
<1>4. file \in Seq(CellSet)
  BY <1>1, <1>3
<1>5. varBuf \in Seq(Bytes) /\ Len(varBuf) <= VarBufSize
  BY <1>1, Numbers
<1>6. prev = IF Compressed THEN Before(written, Len(written) + 1) ELSE Zero
  BY <1>1, <1>2 DEF Before
<1> DEFINE v0 == [j \in {0} |-> 0]
<1>7. Encodes(<<>>, v0, <<>>, written)
  BY <1>1, EncodesNothing
<1>8. <<>> \in Seq(Bytes) /\ Len(<<>>) = 0
  OBVIOUS
<1>9. Part(<<>>, 0, 0) = <<>>
  BY SubSeqEmpty DEF Part
<1> HIDE DEF v0
<1>10. format = "blfz" => \E S, v, Z : Encodes(S, v, Z, written) /\ ByteShape(S, file, varBuf)
  <2>1. format = "blfz" => ByteShape(<<>>, file, varBuf)
    BY <1>1, <1>8, <1>9 DEF ByteShape
  <2> QED BY <1>7, <2>1
<1>11. format = "blfzl" => \E S, v, Z, c : Encodes(S, v, Z, written) /\ BlockShape(S, c, file, lz4, varBuf)
  <2> SUFFICES ASSUME format = "blfzl"
               PROVE  \E c : BlockShape(<<>>, c, file, lz4, varBuf)
    BY <1>7
  <2> DEFINE c == [q \in 1..1 |-> 0]
  <2>1. Len(file) = 1 /\ file[1] = Header
    BY <1>1
  <2>2. c \in [1..1 -> 0..0] /\ c[1] = 0 /\ 2..1 = {}
    OBVIOUS
  <2>3. Blocks(<<>>, c, file, 1)
    BY <1>8, <2>1, <2>2 DEF Blocks
  <2>4. 0 \in 0..0 /\ 0 <= 0
    OBVIOUS
  <2> HIDE DEF c
  <2>5. \E l \in 0..Len(<<>>) : c[1] <= l /\ lz4 = Part(<<>>, c[1], l) /\ varBuf = Part(<<>>, l, Len(<<>>))
    BY <1>1, <1>8, <1>9, <2>2, <2>4
  <2>6. BlockShape(<<>>, c, file, lz4, varBuf)
    BY <2>1, <2>3, <2>5 DEF BlockShape
  <2> QED BY <2>6
<1>12. WriteState
  BY <1>1, <1>5, <1>6, <1>10, <1>11 DEF WriteState
<1> QED BY <1>1, <1>2, <1>4, <1>12 DEF FileInv

(* BLFOpen accepts the file when its last cells say so.                    *)
LEMMA OpensReadable ==
  /\ fileBytes >= TrailerBytes /\ Readable(LastCells) => Opens(file, fileBytes)
  /\ Opens(file, fileBytes) => fileBytes >= TrailerBytes /\ Readable(LastCells)
<1>1. Len(file) - 4 + 4 = Len(file) /\ Len(file) - 4 + 3 = Len(file) - 1
  OBVIOUS
<1>2. LastCells.magic = file[Len(file)][2] /\ LastCells.count = file[Len(file) - 1][1]
      /\ LastCells.size = file[Len(file) - 1][2]
  BY <1>1 DEF LastCells, Cell, TrailerCells
<1>3. TrailerBytes = 4 * RecordBytes
  BY DEF TrailerBytes, TrailerCells
<1> QED BY <1>2, <1>3 DEF Readable, SizeFits, Opens

(* The writer's step on a record of a compressed file.                     *)
LEMMA FlushedShape ==
  ASSUME FileInv, phase = "write", Compressed
  PROVE  LET flushed == IF NeedsFlush THEN FlushVarBuf(varBuf) ELSE <<file, lz4>>
             buf == IF NeedsFlush THEN <<>> ELSE varBuf
         IN  /\ flushed[1] \in Seq(CellSet)
             /\ buf \in Seq(Bytes) /\ Len(buf) + 2 * MaxVarInt <= VarBufSize
             /\ format = "blfz" =>
                  /\ flushed[2] = <<>>
                  /\ \E S, v, Z : Encodes(S, v, Z, written) /\ ByteShape(S, flushed[1], buf)
             /\ format = "blfzl" =>
                  \E S, v, Z, c : Encodes(S, v, Z, written) /\ BlockShape(S, c, flushed[1], flushed[2], buf)
<1>1. WriteState /\ file \in Seq(CellSet) /\ format \in Formats
  BY DEF FileInv
<1>2. varBuf \in Seq(Bytes) /\ Len(varBuf) \in Nat /\ MaxVarInt \in Nat
  BY <1>1, VarIntBound, LenProperties DEF WriteState
<1>3. CASE ~NeedsFlush
  <2>1. Len(varBuf) + 2 * MaxVarInt <= VarBufSize
    BY <1>2, <1>3, Numbers DEF NeedsFlush
  <2> QED BY <1>1, <1>2, <1>3, <2>1 DEF WriteState
<1>4. CASE NeedsFlush
  <2>1. <<>> \in Seq(Bytes) /\ Len(<<>>) + 2 * MaxVarInt <= VarBufSize
    <3>1. 2 * MaxVarInt <= VarBufSize
      BY FileAssumption
    <3> QED BY <1>2, <3>1
  <2>2. CASE format = "blfz"
    <3>1. PICK S, v, Z : Encodes(S, v, Z, written) /\ ByteShape(S, file, varBuf)
      BY <1>1, <2>2 DEF WriteState
    <3>2. S \in Seq(Bytes)
      BY <3>1 DEF Encodes, Digits
    <3> DEFINE more == file \o [i \in DOMAIN varBuf |-> Byte(varBuf[i])]
    <3>3. more \in Seq(CellSet) /\ ByteShape(S, more, <<>>)
      BY <1>1, <3>1, <3>2, ByteFlush
    <3>4. FlushVarBuf(varBuf) = <<more, lz4>> /\ lz4 = <<>>
      BY <1>1, <2>2 DEF FlushVarBuf, WriteState
    <3> HIDE DEF more
    <3>5. FlushVarBuf(varBuf)[1] = more /\ FlushVarBuf(varBuf)[2] = <<>>
      BY <3>4
    <3> QED BY <1>4, <2>1, <2>2, <3>1, <3>3, <3>5
  <2>3. CASE format = "blfzl"
    <3>1. PICK S, v, Z, c : Encodes(S, v, Z, written) /\ BlockShape(S, c, file, lz4, varBuf)
      BY <1>1, <2>3 DEF WriteState
    <3>2. S \in Seq(Bytes)
      BY <3>1 DEF Encodes, Digits
    <3>3. BlockShape(S, c, file, lz4 \o varBuf, <<>>)
      BY <1>1, <3>1, <3>2, BlockFlush
    <3>4. FlushVarBuf(varBuf) = <<file, lz4 \o varBuf>>
      BY <2>3 DEF FlushVarBuf
    <3>5. FlushVarBuf(varBuf)[1] = file /\ FlushVarBuf(varBuf)[2] = lz4 \o varBuf
      BY <3>4
    <3> QED BY <1>1, <1>4, <2>1, <2>3, <3>1, <3>3, <3>5
  <2> QED BY <1>1, <2>2, <2>3 DEF Formats, Compressed
<1> QED BY <1>3, <1>4

(* BLFWriterRecord keeps FileInv.                                          *)
LEMMA RecordStep ==
  ASSUME FileInv, NEW key \in Keys, BLFWriterRecord(key)
  PROVE  FileInv'
<1>1. /\ phase = "write" /\ Len(written) < MaxRecords /\ written' = Append(written, key)
      /\ format' = format /\ phase' = phase /\ result' = result
  BY DEF BLFWriterRecord
<1>2. WriteState /\ file \in Seq(CellSet) /\ format \in Formats /\ written \in Seq(Keys) /\ result = <<0, 0>>
  BY <1>1 DEF FileInv
<1>3. written' \in Seq(Keys) /\ Len(written') = Len(written) + 1 /\ written'[Len(written) + 1] = key
      /\ Len(written) \in Nat
  BY <1>1, <1>2, AppendProperties, LenProperties
<1>4. Len(written') <= MaxRecords
  BY <1>1, <1>3, Numbers
<1>5. CASE ~Compressed
  <2>1. file' = Append(file, key) /\ lz4' = lz4 /\ varBuf' = varBuf /\ prev' = prev
    BY <1>5 DEF BLFWriterRecord
  <2>2. format = "blf"
    BY <1>5 DEF Compressed
  <2>3. file' = written'
    BY <1>1, <1>2, <2>1, <2>2 DEF WriteState
  <2>4. file' \in Seq(CellSet)
    BY <1>3, <2>3, KeyCells
  <2>5. WriteState'
    BY <1>1, <1>2, <2>1, <2>2, <2>3 DEF WriteState, Compressed
  <2> QED BY <1>1, <1>2, <1>3, <1>4, <2>4, <2>5 DEF FileInv
<1>6. CASE Compressed
  <2> DEFINE flushed == IF NeedsFlush THEN FlushVarBuf(varBuf) ELSE <<file, lz4>>
             buf == IF NeedsFlush THEN <<>> ELSE varBuf
             z1 == ZZEnc(Delta(key[1], prev[1]))
             z2 == ZZEnc(Delta(key[2], prev[2]))
             R == VarInt[z1] \o VarInt[z2]
  <2>1. file' = flushed[1] /\ lz4' = flushed[2] /\ varBuf' = buf \o R /\ prev' = key
    BY <1>6 DEF BLFWriterRecord, Encoded, VarIntPut
  <2>2. /\ flushed[1] \in Seq(CellSet)
        /\ buf \in Seq(Bytes) /\ Len(buf) + 2 * MaxVarInt <= VarBufSize
        /\ format = "blfz" =>
             /\ flushed[2] = <<>>
             /\ \E S, v, Z : Encodes(S, v, Z, written) /\ ByteShape(S, flushed[1], buf)
        /\ format = "blfzl" =>
             \E S, v, Z, c : Encodes(S, v, Z, written) /\ BlockShape(S, c, flushed[1], flushed[2], buf)
    BY <1>1, <1>6, FlushedShape
  <2> HIDE DEF flushed, buf
  <2>3. prev = Before(written, Len(written) + 1)
    BY <1>2, <1>6 DEF WriteState
  <2>4. written \in Seq(Word \X Word) /\ key \in Word \X Word
    BY <1>2, KeyCells, KeyWords
  <2>5. \A S, v, Z : Encodes(S, v, Z, written) =>
          z1 \in Word /\ z2 \in Word /\ \E w, Y : Encodes(S \o R, w, Y, written')
    <3> TAKE S, v, Z
    <3> HAVE Encodes(S, v, Z, written)
    <3> QED BY <1>1, <2>3, <2>4, EncodesMore
  <2>6. z1 \in Word /\ z2 \in Word
    <3>1. \E S, v, Z : Encodes(S, v, Z, written)
      BY <1>2, <1>6, <2>2 DEF Formats, Compressed
    <3> QED BY <2>5, <3>1
  <2> HIDE DEF z1, z2
  <2>7. R \in Seq(Bytes) /\ Len(R) <= 2 * MaxVarInt /\ Len(R) \in Nat
    <3>1. VarInt[z1] \in Seq(Bytes) /\ VarInt[z2] \in Seq(Bytes)
      BY <2>6, VarIntType DEF Bytes
    <3>2. Len(VarInt[z1]) \in 1..MaxVarInt /\ Len(VarInt[z2]) \in 1..MaxVarInt /\ MaxVarInt \in Nat
      BY <2>6, VarIntBound
    <3>3. R \in Seq(Bytes) /\ Len(R) = Len(VarInt[z1]) + Len(VarInt[z2])
      BY <3>1, ConcatProperties
    <3> DEFINE a == Len(VarInt[z1])
               b == Len(VarInt[z2])
    <3> HIDE DEF a, b, R
    <3>4. a \in Nat /\ b \in Nat /\ a <= MaxVarInt /\ b <= MaxVarInt
      BY <3>2 DEF a, b
    <3>5. a + b \in Nat /\ a + b <= 2 * MaxVarInt
      BY <3>2, <3>4
    <3> QED BY <3>3, <3>5 DEF a, b
  <2> HIDE DEF R
  <2>8. varBuf' \in Seq(Bytes) /\ Len(varBuf') <= VarBufSize
    <3>1. buf \o R \in Seq(Bytes) /\ Len(buf \o R) = Len(buf) + Len(R) /\ Len(buf) \in Nat
      BY <2>2, <2>7, ConcatProperties, LenProperties
    <3>2. MaxVarInt \in Nat /\ VarBufSize \in Nat
      BY VarIntBound, Numbers
    <3> QED BY <2>1, <2>2, <2>7, <3>1, <3>2
  <2>9. prev' = IF Compressed' THEN Before(written', Len(written') + 1) ELSE Zero
    <3>1. Compressed'
      BY <1>1, <1>6 DEF Compressed
    <3>2. Len(written') + 1 # 1 /\ (Len(written') + 1) - 1 = Len(written) + 1
      BY <1>3
    <3> QED BY <1>3, <2>1, <3>1, <3>2 DEF Before
  <2>10. ASSUME format = "blfz"
         PROVE  lz4' = <<>> /\ \E S, v, Z : Encodes(S, v, Z, written') /\ ByteShape(S, file', varBuf')
    <3>1. PICK S, v, Z : Encodes(S, v, Z, written) /\ ByteShape(S, flushed[1], buf)
      BY <2>2, <2>10
    <3>2. S \in Seq(Bytes)
      BY <3>1 DEF Encodes, Digits
    <3>3. PICK w, Y : Encodes(S \o R, w, Y, written')
      BY <2>5, <3>1
    <3>4. ByteShape(S \o R, file', varBuf')
      BY <2>1, <2>2, <2>7, <3>1, <3>2, ByteMore
    <3> QED BY <2>1, <2>2, <2>10, <3>3, <3>4
  <2>11. ASSUME format = "blfzl"
         PROVE  \E S, v, Z, c : Encodes(S, v, Z, written') /\ BlockShape(S, c, file', lz4', varBuf')
    <3>1. PICK S, v, Z, c : Encodes(S, v, Z, written) /\ BlockShape(S, c, flushed[1], flushed[2], buf)
      BY <2>2, <2>11
    <3>2. S \in Seq(Bytes)
      BY <3>1 DEF Encodes, Digits
    <3>3. PICK w, Y : Encodes(S \o R, w, Y, written')
      BY <2>5, <3>1
    <3>4. BlockShape(S \o R, c, file', lz4', varBuf')
      BY <2>1, <2>2, <2>7, <3>1, <3>2, BlockMore
    <3> QED BY <3>3, <3>4
  <2>12. WriteState'
    <3>1. format # "blf"
      BY <1>6 DEF Compressed
    <3> QED BY <1>1, <2>8, <2>9, <2>10, <2>11, <3>1 DEF WriteState
  <2> QED BY <1>1, <1>2, <1>3, <1>4, <2>1, <2>2, <2>12 DEF FileInv
<1> QED BY <1>5, <1>6

(* BLFWrite keeps FileInv.                                                 *)
LEMMA ArrayStep ==
  ASSUME FileInv, NEW first \in Keys, NEW second \in Keys, BLFWrite(first, second)
  PROVE  FileInv'
<1>1. /\ phase = "write" /\ ~Compressed /\ MaxRecords >= 2
      /\ written' = <<first, second>> /\ file' = <<first, second>>
      /\ format' = format /\ phase' = phase /\ varBuf' = varBuf /\ prev' = prev /\ lz4' = lz4
      /\ result' = result
  BY DEF BLFWrite
<1>2. WriteState /\ format = "blf" /\ result = <<0, 0>>
  BY <1>1 DEF FileInv, Compressed
<1>3. written' \in Seq(Keys) /\ Len(written') = 2
  BY <1>1
<1>4. file' \in Seq(CellSet)
  BY <1>1, <1>3, KeyCells
<1>5. WriteState'
  BY <1>1, <1>2 DEF WriteState, Compressed
<1> QED BY <1>1, <1>2, <1>3, <1>4, <1>5 DEF FileInv, Formats

(* A block emitted keeps FileInv.                                          *)
LEMMA EmitStep ==
  ASSUME FileInv, LZ4Emits
  PROVE  FileInv'
<1>1. /\ phase = "write" /\ format = "blfzl" /\ lz4 # <<>>
      /\ file' = Append(file, Block(lz4)) /\ lz4' = <<>>
      /\ format' = format /\ phase' = phase /\ varBuf' = varBuf /\ prev' = prev
      /\ written' = written /\ result' = result
  BY DEF LZ4Emits, writerVars
<1>2. WriteState /\ file \in Seq(CellSet) /\ result = <<0, 0>>
  BY <1>1 DEF FileInv
<1>3. PICK S, v, Z, c : Encodes(S, v, Z, written) /\ BlockShape(S, c, file, lz4, varBuf)
  BY <1>1, <1>2 DEF WriteState
<1>4. S \in Seq(Bytes)
  BY <1>3 DEF Encodes, Digits
<1>5. file' \in Seq(CellSet) /\ \E d : BlockShape(S, d, file', <<>>, varBuf)
  BY <1>1, <1>2, <1>3, <1>4, BlockEmit
<1>6. \E U, w, Y, d : Encodes(U, w, Y, written') /\ BlockShape(U, d, file', lz4', varBuf')
  BY <1>1, <1>3, <1>5
<1>7. WriteState'
  BY <1>1, <1>2, <1>6 DEF WriteState, Compressed
<1> QED BY <1>1, <1>2, <1>5, <1>7 DEF FileInv

(* What the writer has put in the stream when it closes it.                *)
LEMMA BodyIsWhole ==
  ASSUME FileInv, phase = "write"
  PROVE  WholeBody(Body, format, written) /\ Trailer(Body) = TrailerOf(Body, format, written)
<1>1. WriteState /\ file \in Seq(CellSet) /\ format \in Formats /\ written \in Seq(Keys)
  BY DEF FileInv
<1>2. Trailer(Body) = TrailerOf(Body, format, written)
  BY DEF Trailer, TrailerOf, Compressed
<1>3. CASE format = "blf"
  <2>1. Body = file /\ file = written
    BY <1>1, <1>3 DEF Body, WriteState
  <2> QED BY <1>1, <1>2, <1>3, <2>1 DEF WholeBody
<1>4. CASE format = "blfz"
  <2>1. PICK S, v, Z : Encodes(S, v, Z, written) /\ ByteShape(S, file, varBuf)
    BY <1>1, <1>4 DEF WriteState
  <2>2. S \in Seq(Bytes)
    BY <2>1 DEF Encodes, Digits
  <2> DEFINE more == file \o [i \in DOMAIN varBuf |-> Byte(varBuf[i])]
  <2>3. more \in Seq(CellSet) /\ ByteShape(S, more, <<>>) /\ Len(more) = Len(S)
    BY <1>1, <2>1, <2>2, ByteFlush
  <2>4. FlushVarBuf(varBuf) = <<more, lz4>>
    BY <1>4 DEF FlushVarBuf
  <2> HIDE DEF more
  <2>5. Body = more
    BY <1>4, <2>4 DEF Body
  <2>6. WholeBody(more, format, written)
    BY <1>4, <2>1, <2>3 DEF WholeBody
  <2> QED BY <1>2, <2>5, <2>6
<1>5. CASE format = "blfzl"
  <2>1. PICK S, v, Z, c : Encodes(S, v, Z, written) /\ BlockShape(S, c, file, lz4, varBuf)
    BY <1>1, <1>5 DEF WriteState
  <2>2. S \in Seq(Bytes) /\ Len(S) \in Nat
    BY <2>1, LenProperties DEF Encodes, Digits
  <2> DEFINE enc == lz4 \o varBuf
  <2>3. BlockShape(S, c, file, enc, <<>>)
    BY <1>1, <2>1, <2>2, BlockFlush
  <2>4. FlushVarBuf(varBuf) = <<file, enc>>
    BY <1>5 DEF FlushVarBuf
  <2> HIDE DEF enc
  <2> DEFINE cells == IF enc = <<>> THEN file ELSE Append(file, Block(enc))
  <2>5. cells \in Seq(CellSet) /\ \E d : BlockShape(S, d, cells, <<>>, <<>>)
    <3>1. CASE enc = <<>>
      BY <1>1, <2>3, <3>1
    <3>2. CASE enc # <<>>
      BY <1>1, <2>2, <2>3, <3>2, BlockEmit
    <3> QED BY <3>1, <3>2
  <2>6. PICK d : BlockShape(S, d, cells, <<>>, <<>>)
    BY <2>5
  <2>7. Body = Append(cells, EndMark)
    <3>1. Body = (file \o (IF enc = <<>> THEN <<>> ELSE <<Block(enc)>>)) \o <<EndMark>>
      BY <1>5, <2>4 DEF Body
    <3>2. (IF enc = <<>> THEN file ELSE Append(file, Block(enc))) = file \o (IF enc = <<>> THEN <<>> ELSE <<Block(enc)>>)
      BY <1>1, AppendIsConcat, ConcatEmptySeq
    <3> HIDE DEF cells
    <3>3. Append(cells, EndMark) = cells \o <<EndMark>>
      BY <2>5, AppendIsConcat
    <3> QED BY <3>1, <3>2, <3>3 DEF cells
  <2> DEFINE k == Len(cells)
  <2>8. k \in Nat /\ k > 0 /\ Blocks(S, d, cells, k) /\ \E l \in 0..Len(S) : d[k] <= l /\ <<>> = Part(S, d[k], l) /\ <<>> = Part(S, l, Len(S))
    BY <2>5, <2>6, LenProperties DEF BlockShape
  <2>9. d[k] = Len(S)
    <3>1. PICK l \in 0..Len(S) : d[k] <= l /\ <<>> = Part(S, d[k], l) /\ <<>> = Part(S, l, Len(S))
      BY <2>8
    <3>2. k \in 1..k
      BY <2>8
    <3>3. d[k] \in 0..Len(S)
      BY <2>8, <3>2 DEF Blocks
    <3> DEFINE a == d[k]
    <3>4. a \in Nat /\ l \in Nat /\ a <= l /\ l <= Len(S)
      BY <2>2, <3>1, <3>3
    <3> HIDE DEF a
    <3>5. <<>> = Part(S, a, l)
      BY <3>1 DEF a
    <3>6. a = l
      BY <2>2, <3>4, <3>5, PartEmpty
    <3>7. l = Len(S)
      BY <2>2, <3>1, <3>4, PartEmpty
    <3> QED BY <3>6, <3>7 DEF a
  <2> HIDE DEF cells
  <2>10. EndMark \in CellSet
    BY DEF EndMark, CellSet
  <2>11. /\ Body \in Seq(CellSet) /\ Len(Body) = k + 1
         /\ (\A q \in 1..k : Body[q] = cells[q]) /\ Body[k + 1] = EndMark
    BY <2>5, <2>7, <2>10, AppendProperties
  <2> HIDE DEF k
  <2>12. Blocks(S, d, Body, k)
    <3>1. 1 \in 1..k /\ \A q \in 2..k : q \in 1..k
      BY <2>8
    <3> QED BY <2>8, <2>11, <3>1 DEF Blocks
  <2>13. Len(Body) > 1 /\ Len(Body) - 1 = k
    BY <2>8, <2>11
  <2>14. WholeBody(Body, format, written)
    BY <1>5, <2>1, <2>9, <2>11, <2>12, <2>13 DEF WholeBody
  <2> QED BY <1>2, <2>14
<1> QED BY <1>1, <1>3, <1>4, <1>5 DEF Formats

(* BLFWriterClose keeps FileInv.                                           *)
LEMMA CloseStep ==
  ASSUME FileInv, BLFWriterClose
  PROVE  FileInv'
<1>1. /\ phase = "write" /\ phase' = "closed" /\ file' = Stream
      /\ result' = <<Len(written), StreamBytes(Len(Stream))>> /\ fileBytes' = StreamBytes(Len(Stream))
      /\ format' = format /\ written' = written
  BY DEF BLFWriterClose
<1>2. WholeBody(Body, format, written) /\ Stream = Body \o TrailerOf(Body, format, written)
  BY <1>1, BodyIsWhole DEF Stream
<1>3. format \in Formats /\ written \in Seq(Keys) /\ Len(written) <= MaxRecords
  BY DEF FileInv
<1>4. file' \in Seq(CellSet)
  BY <1>1, <1>2, <1>3, StreamCells
<1>6. StreamBytes(Len(Stream)) = BytesOfCells(Len(Stream), Len(Body), format)
  BY DEF StreamBytes, BytesOfCells, Compressed
<1>5. Closed(file', fileBytes', format', written')
  BY <1>1, <1>2, <1>6 DEF Closed
<1> QED BY <1>1, <1>3, <1>4, <1>5 DEF FileInv

(* A file cut short keeps FileInv: it opens only when it ends like a       *)
(* trailer.                                                                *)
LEMMA CutStep ==
  ASSUME FileInv, CutShort
  PROVE  FileInv'
<1>1. /\ phase = "write" /\ phase' = "cut" /\ format' = format /\ written' = written /\ result' = result
      /\ \E n \in 0..Len(Stream) - 1 : file' = SubSeq(Stream, 1, n) /\ fileBytes' = StreamBytes(n)
  BY DEF CutShort
<1>2. WholeBody(Body, format, written) /\ Stream = Body \o TrailerOf(Body, format, written)
  BY <1>1, BodyIsWhole DEF Stream
<1>3. format \in Formats /\ written \in Seq(Keys) /\ Len(written) <= MaxRecords /\ result = <<0, 0>>
  BY <1>1 DEF FileInv
<1>4. Stream \in Seq(CellSet) /\ Len(Stream) = Len(Body) + 4 /\ Len(Body) \in Nat
  BY <1>2, <1>3, StreamCells, BodyCells
<1>5. PICK n \in 0..Len(Stream) - 1 : file' = SubSeq(Stream, 1, n) /\ fileBytes' = StreamBytes(n)
  BY <1>1
<1>6. n \in Nat /\ n < Len(Body) + 4 /\ n <= Len(Stream) /\ 0 <= n
  BY <1>4
<1>7. Opens(file', fileBytes') => Lookalike(file', fileBytes')
  <2>1. fileBytes' = BytesOfCells(n, Len(Body), format)
    BY <1>5 DEF StreamBytes, BytesOfCells, Compressed
  <2> QED BY <1>2, <1>3, <1>5, <1>6, <2>1, CutLooksAlike
<1>8. file' \in Seq(CellSet)
  <2>1. Part(Stream, 0, n) \in Seq(CellSet)
    BY <1>4, <1>6, PartIn
  <2> QED BY <1>5, <2>1, PartFromStart
<1> QED BY <1>1, <1>3, <1>7, <1>8 DEF FileInv, Opens, Lookalike

(* BLFOpen keeps FileInv: what it opens was closed or looks alike.         *)
LEMMA OpenStep ==
  ASSUME FileInv, BLFOpen
  PROVE  FileInv' /\ (phase = "closed" => phase' = "read" /\ format' = format)
<1>1. /\ phase \in {"closed", "cut"} /\ fileBytes >= TrailerBytes /\ Readable(LastCells)
      /\ format' = CHOOSE f \in FormatOf(LastCells.magic) : TRUE
      /\ phase' = IF phase = "closed" THEN "read" ELSE "mistaken"
      /\ written' = written /\ file' = file /\ fileBytes' = fileBytes /\ result' = result
  BY DEF BLFOpen, writerVars
<1>2. Opens(file, fileBytes)
  BY <1>1, OpensReadable
<1>3. LastCells.magic = file[Len(file)][2]
  <2>1. Len(file) - 4 + 4 = Len(file)
    OBVIOUS
  <2> QED BY <2>1 DEF LastCells, Cell, TrailerCells
<1>4. /\ format \in Formats /\ written \in Seq(Keys) /\ Len(written) <= MaxRecords
      /\ file \in Seq(CellSet)
  BY DEF FileInv
<1>5. CASE phase = "closed"
  <2>1. result = <<Len(written), fileBytes>> /\ Closed(file, fileBytes, format, written)
    BY <1>5 DEF FileInv
  <2>2. FormatOf(file[Len(file)][2]) = {format}
    BY <1>4, <2>1, ClosedOpens DEF Closed
  <2>3. format' = format
    BY <1>1, <1>3, <2>2
  <2>4. FileInv'
    BY <1>1, <1>4, <1>5, <2>1, <2>3 DEF FileInv
  <2> QED BY <1>1, <1>5, <2>3, <2>4
<1>6. CASE phase = "cut"
  <2>1. Lookalike(file, fileBytes) /\ result = <<0, 0>>
    BY <1>2, <1>6 DEF FileInv
  <2>2. format' \in Formats
    <3>1. \E f : f \in FormatOf(LastCells.magic)
      BY <1>1 DEF Readable
    <3>2. FormatOf(LastCells.magic) \subseteq Formats
      BY DEF FormatOf
    <3> QED BY <1>1, <3>1, <3>2
  <2>3. FileInv'
    BY <1>1, <1>4, <1>6, <2>1, <2>2 DEF FileInv, Lookalike
  <2> QED BY <1>6, <2>3
<1> QED BY <1>1, <1>5, <1>6

(* A refusal keeps FileInv: what is refused was never closed.              *)
LEMMA RefuseStep ==
  ASSUME FileInv, Refuse
  PROVE  FileInv' /\ phase = "cut"
<1>1. /\ phase \in {"closed", "cut"} /\ (fileBytes >= TrailerBytes => ~Readable(LastCells))
      /\ phase' = "refused" /\ format' = format /\ written' = written /\ file' = file /\ result' = result
  BY DEF Refuse, writerVars
<1>2. ~Opens(file, fileBytes)
  BY <1>1, OpensReadable
<1>3. phase # "closed"
  <2> SUFFICES ASSUME phase = "closed" PROVE FALSE
    OBVIOUS
  <2>1. format \in Formats /\ written \in Seq(Keys) /\ Closed(file, fileBytes, format, written)
    BY DEF FileInv
  <2>2. PICK body : /\ WholeBody(body, format, written) /\ file = body \o TrailerOf(body, format, written)
                    /\ fileBytes = BytesOfCells(Len(file), Len(body), format)
    BY <2>1 DEF Closed
  <2>3. Opens(file, BytesOfCells(Len(file), Len(body), format))
    BY <2>1, <2>2, ClosedOpens
  <2> QED BY <1>2, <2>2, <2>3
<1>4. FileInv'
  BY <1>1, <1>3 DEF FileInv
<1> QED BY <1>1, <1>3, <1>4

(* A step that leaves the writer's state and the file alone.               *)
ReadStep ==
  /\ phase = "read" /\ phase' \in {"read", "fatal"}
  /\ format' = format /\ written' = written /\ varBuf' = varBuf /\ result' = result /\ file' = file
  /\ fileBytes' = fileBytes /\ trailer' = trailer

(* BLFRead leaves the file alone.                                          *)
LEMMA ReadersSteps ==
  ASSUME FileInv, ReadPlain \/ RefillVarInts \/ RefillFrame \/ Decompress \/ TakeDigit \/ TakeLastDigit
  PROVE  ReadStep
<1>1. CASE ReadPlain
  BY <1>1 DEF ReadPlain, ReadStep, writerVars
<1>2. CASE RefillVarInts \/ RefillFrame
  BY <1>2 DEF RefillVarInts, RefillFrame, Refill, Reading, ReadStep, writerVars
<1>3. CASE Decompress
  BY <1>3 DEF Decompress, Reading, ReadStep, writerVars
<1>4. CASE TakeDigit
  BY <1>4 DEF TakeDigit, Reading, ReadStep, writerVars
<1>5. CASE TakeLastDigit
  BY <1>5 DEF TakeLastDigit, Reading, ReadStep, writerVars
<1> QED BY <1>1, <1>2, <1>3, <1>4, <1>5

(* Every step keeps FileInv.                                               *)
LEMMA FileStep ==
  ASSUME FileInv, [Next]_vars
  PROVE  FileInv'
<1>1. CASE \E key \in Keys : BLFWriterRecord(key)
  BY <1>1, RecordStep
<1>2. CASE \E key, next \in Keys : BLFWrite(key, next)
  BY <1>2, ArrayStep
<1>3. CASE LZ4Emits
  BY <1>3, EmitStep
<1>4. CASE BLFWriterClose
  BY <1>4, CloseStep
<1>5. CASE CutShort
  BY <1>5, CutStep
<1>6. CASE BLFOpen
  BY <1>6, OpenStep
<1>7. CASE Refuse
  BY <1>7, RefuseStep
<1>8. CASE ReadPlain \/ RefillVarInts \/ RefillFrame \/ Decompress \/ TakeDigit \/ TakeLastDigit
  <2>1. ReadStep
    BY <1>8, ReadersSteps
  <2> QED BY <2>1 DEF FileInv, ReadStep
<1>9. CASE UNCHANGED vars
  BY <1>9 DEF FileInv, WriteState, Compressed, Opens, Lookalike, vars, writerVars, readerVars
<1> QED BY <1>1, <1>2, <1>3, <1>4, <1>5, <1>6, <1>7, <1>8, <1>9 DEF Next, Writer, Reader, BLFClose

(* FileInv says what BLFOpen may have opened.                              *)
LEMMA OpenedOrAlike ==
  ASSUME FileInv
  PROVE  /\ phase \in {"read", "mistaken"} => result = <<Len(written), fileBytes>> \/ EndsLikeTrailer
         /\ phase = "refused" => result = <<0, 0>>
<1>1. phase = "refused" => result = <<0, 0>>
  BY DEF FileInv
<1>2. phase = "read" => result = <<Len(written), fileBytes>>
  BY DEF FileInv
<1>3. Lookalike(file, fileBytes) => EndsLikeTrailer
  BY DEF Lookalike, EndsLikeTrailer, TrailerBytes, TrailerCells
<1>4. phase = "mistaken" => Lookalike(file, fileBytes)
  BY DEF FileInv
<1> QED BY <1>1, <1>2, <1>3, <1>4

(* BLFOpen opens every file BLFWriterClose finished. Of the files that were *)
(* cut, wherever that was, it refuses all but those whose last two cells   *)
(* are boards whose colors are the magic of a compressed file and the size *)
(* of this one; colors that are the magic of a plain file never deceive it. *)
THEOREM OpenedIsWhole == Spec => []OpensOnlyWhole
<1>1. Init => FileInv
  BY FileInit
<1>2. FileInv /\ [Next]_vars => FileInv'
  BY FileStep
<1>3. FileInv => OpensOnlyWhole
  BY OpenedOrAlike DEF OpensOnlyWhole
<1> QED BY <1>1, <1>2, <1>3, PTL DEF Spec

(* So on a board whose masks exclude the magics of compressed files, as the *)
(* 4x4 and the 6x6 board do, BLFOpen opens a file exactly when it is whole. *)
THEOREM SmallBoardsWhole ==
  ASSUME \A key \in Keys : key[2] \notin {Magics["blfz"], Magics["blfzl"]}
  PROVE  Spec => [](/\ phase \in {"read", "mistaken"} => result = <<Len(written), fileBytes>>
                    /\ phase = "refused" => result = <<0, 0>>)
<1>1. Init => FileInv
  BY FileInit
<1>2. FileInv /\ [Next]_vars => FileInv'
  BY FileStep
<1>3. ASSUME FileInv
      PROVE  /\ phase \in {"read", "mistaken"} => result = <<Len(written), fileBytes>>
             /\ phase = "refused" => result = <<0, 0>>
  <2>1. ~EndsLikeTrailer
    BY DEF EndsLikeTrailer
  <2> QED BY <1>3, <2>1, OpenedOrAlike
<1> QED BY <1>1, <1>2, <1>3, PTL DEF Spec

-----------------------------------------------------------------------------
(* What the reader has decoded.                                            *)

(* The reader has taken pos bytes of S: j varints, and of the next one the *)
(* digits that make val, below the weight wt.                              *)
Decoded(S, v, Z, pos, j, val, wt) ==
  /\ pos \in 0..Len(S) /\ val \in Word /\ wt \in Word /\ wt > 0
  /\ j = Len(Z) => pos = Len(S)
  /\ j # Len(Z) => \E u \in Word : HasVarInt(S, pos, v[j + 1], u) /\ Z[j + 1] = val + wt * u

(* A varint begins with its lowest digit, and the rest is a varint of the  *)
(* quotient.                                                               *)
LEMMA HasVarIntDigit ==
  ASSUME NEW S, NEW a \in Nat, NEW b \in Nat, NEW u \in Word, HasVarInt(S, a, b, u)
  PROVE  /\ a < b
         /\ u < Base => S[a + 1] = u /\ b = a + 1
         /\ u >= Base => /\ S[a + 1] = (u % Base) + Base
                         /\ HasVarInt(S, a + 1, b, u \div Base)
<1> DEFINE n == Len(VarInt[u])
<1>1. n \in Nat /\ n > 0 /\ b = a + n /\ \A i \in 1..n : S[a + i] = VarInt[u][i]
  BY VarIntType, LenProperties DEF HasVarInt
<1>2. 1 \in 1..n
  BY <1>1
<1>3. S[a + 1] = VarInt[u][1]
  BY <1>1, <1>2
<1>4. a < b
  <2> HIDE DEF n
  <2> QED BY <1>1
<1>5. CASE u < Base
  <2>1. n = 1 /\ VarInt[u][1] = u
    BY <1>5, VarIntDigits
  <2>2. ~(u >= Base)
    BY <1>5, Numbers
  <2> HIDE DEF n
  <2> QED BY <1>1, <1>3, <1>4, <1>5, <2>1, <2>2
<1>6. CASE u >= Base
  <2> DEFINE w == u \div Base
             m == Len(VarInt[w])
  <2>1. n = 1 + m /\ VarInt[u][1] = (u % Base) + Base /\ \A i \in 1..m : VarInt[u][1 + i] = VarInt[w][i]
    BY <1>6, VarIntDigits
  <2>2. w \in Word
    BY <1>6, NextWord
  <2> HIDE DEF w
  <2>3. m \in Nat
    BY <2>2, VarIntType, LenProperties
  <2> HIDE DEF n, m
  <2>4. \A i \in 1..m : S[(a + 1) + i] = VarInt[w][i]
    <3> TAKE i \in 1..m
    <3>1. 1 + i \in 1..n /\ a + (1 + i) = (a + 1) + i
      BY <2>1, <2>3
    <3> QED BY <1>1, <2>1, <3>1
  <2>5. b = (a + 1) + m
    BY <1>1, <2>1, <2>3
  <2>6. HasVarInt(S, a + 1, b, w)
    BY <2>4, <2>5 DEF HasVarInt, m
  <2>7. ~(u < Base)
    BY <1>6, Numbers
  <2> QED BY <1>3, <1>4, <1>6, <2>1, <2>6, <2>7 DEF w
<1> QED BY <1>5, <1>6, Numbers

(* A word that is a sum of a value and a multiple of the weight.           *)
LEMMA Weights ==
  ASSUME NEW x \in Word, NEW val \in Word, NEW wt \in Word, wt > 0,
         NEW u \in Word, u >= Base, x = val + wt * u
  PROVE  LET d == u % Base
             w == u \div Base
         IN  /\ val + d * wt \in Word /\ Wrap(val + d * wt) = val + d * wt
             /\ wt * Base \in Word /\ wt * Base > 0
             /\ x = (val + d * wt) + (wt * Base) * w
<1> DEFINE d == u % Base
           w == u \div Base
<1>1. d \in Nat /\ w \in Nat /\ w > 0 /\ u = Base * w + d
  BY NextWord, Numbers
<1>2. x \in Nat /\ val \in Nat /\ wt \in Nat /\ Base \in Nat /\ Base > 1 /\ u \in Nat
  BY Numbers
<1> HIDE DEF d, w
<1> DEFINE y == wt * Base
<1>3. y \in Nat /\ y > 0 /\ wt * (Base * w) = y * w
  BY <1>1, <1>2
<1>4. d * wt \in Nat /\ wt * u = y * w + d * wt
  <2>1. wt * u = wt * (Base * w) + wt * d /\ wt * d = d * wt
    BY <1>1, <1>2
  <2> QED BY <1>1, <1>2, <1>3, <2>1
<1>5. y <= y * w
  BY <1>1, <1>3
<1> HIDE DEF y
<1> DEFINE s == d * wt
           t == y * w
<1>6. s \in Nat /\ t \in Nat /\ x = val + (t + s) /\ y <= t
  BY <1>1, <1>3, <1>4, <1>5
<1> HIDE DEF s, t
<1>7. x = (val + s) + t /\ val + s \in Nat /\ val + s <= x /\ y <= x
  BY <1>2, <1>3, <1>6
<1>8. \A n \in Nat : n <= x => n \in Word
  BY Numbers DEF Word
<1>9. val + s \in Word /\ y \in Word
  BY <1>3, <1>7, <1>8
<1>10. \A n \in Word : Wrap(n) = n
  <2> TAKE n \in Word
  <2>1. n \in Nat /\ n < 2 * Half /\ Half \in Nat
    BY Numbers
  <2> QED BY <2>1, WrapOnce
<1>11. Wrap(val + s) = val + s
  BY <1>9, <1>10
<1> QED BY <1>3, <1>7, <1>9, <1>11 DEF s, t, y, d, w

(* Between two varints the value is 0 and the weight 1.                    *)
LEMMA FreshVarInt ==
  ASSUME NEW S, NEW v, NEW Z, Digits(S, v, Z), NEW j \in 0..Len(Z)
  PROVE  Decoded(S, v, Z, v[j], j, 0, 1)
<1>1. /\ S \in Seq(Bytes) /\ Z \in Seq(Word) /\ Len(Z) \in Nat /\ Len(S) \in Nat
      /\ v \in [0..Len(Z) -> 0..Len(S)] /\ v[Len(Z)] = Len(S)
      /\ \A i \in 1..Len(Z) : HasVarInt(S, v[i - 1], v[i], Z[i])
  BY LenProperties DEF Digits
<1>2. v[j] \in 0..Len(S) /\ 0 \in Word /\ 1 \in Word /\ 1 > 0
  <2>1. Half \in Nat /\ Half > 0
    BY Numbers
  <2>2. 0 \in Word /\ 1 \in Word
    BY <2>1 DEF Word
  <2> QED BY <1>1, <2>2
<1>3. ASSUME j # Len(Z)
      PROVE  \E u \in Word : HasVarInt(S, v[j], v[j + 1], u) /\ Z[j + 1] = 0 + 1 * u
  <2>1. j + 1 \in 1..Len(Z) /\ (j + 1) - 1 = j
    BY <1>1, <1>3
  <2>2. HasVarInt(S, v[j], v[j + 1], Z[j + 1]) /\ Z[j + 1] \in Word
    <3>1. HasVarInt(S, v[(j + 1) - 1], v[j + 1], Z[j + 1])
      BY <1>1, <2>1
    <3> QED BY <1>1, <2>1, <3>1, ElementOfSeq
  <2>3. Z[j + 1] = 0 + 1 * Z[j + 1]
    BY <2>2, Numbers
  <2> QED BY <2>2, <2>3
<1> QED BY <1>1, <1>2, <1>3 DEF Decoded

(* One digit more: the value grows by the digit at its weight, which fits  *)
(* the word, or the varint is complete and is the number that was written. *)
LEMMA DigitStep ==
  ASSUME NEW S, NEW v, NEW Z, Digits(S, v, Z), NEW pos, NEW j \in 0..Len(Z), j # Len(Z),
         NEW val, NEW wt, Decoded(S, v, Z, pos, j, val, wt)
  PROVE  /\ pos \in Nat /\ pos < Len(S) /\ pos + 1 \in 1..Len(S) /\ S[pos + 1] \in Bytes
         /\ S[pos + 1] >= Base =>
              Decoded(S, v, Z, pos + 1, j, Wrap(val + (S[pos + 1] - Base) * wt), wt * Base)
         /\ S[pos + 1] < Base =>
              /\ Wrap(val + S[pos + 1] * wt) = Z[j + 1]
              /\ Decoded(S, v, Z, pos + 1, j + 1, 0, 1)
<1>1. /\ S \in Seq(Bytes) /\ Z \in Seq(Word) /\ Len(Z) \in Nat /\ Len(S) \in Nat
      /\ v \in [0..Len(Z) -> 0..Len(S)]
  BY LenProperties DEF Digits
<1>2. /\ pos \in 0..Len(S) /\ val \in Word /\ wt \in Word /\ wt > 0
      /\ \E u \in Word : HasVarInt(S, pos, v[j + 1], u) /\ Z[j + 1] = val + wt * u
  BY DEF Decoded
<1>3. PICK u \in Word : HasVarInt(S, pos, v[j + 1], u) /\ Z[j + 1] = val + wt * u
  BY <1>2
<1>4. j + 1 \in 0..Len(Z) /\ j + 1 \in 1..Len(Z)
  BY <1>1
<1> DEFINE b == v[j + 1]
           x == Z[j + 1]
<1>5. b \in 0..Len(S) /\ x \in Word
  BY <1>1, <1>4, ElementOfSeq
<1>6. b = v[j + 1]
  OBVIOUS
<1> HIDE DEF b
<1>7. b \in Nat /\ pos \in Nat /\ b <= Len(S)
  BY <1>1, <1>2, <1>5
<1>8. HasVarInt(S, pos, b, u)
  BY <1>3, <1>6
<1>9. /\ pos < b
      /\ u < Base => S[pos + 1] = u /\ b = pos + 1
      /\ u >= Base => S[pos + 1] = (u % Base) + Base /\ HasVarInt(S, pos + 1, b, u \div Base)
  BY <1>7, <1>8, HasVarIntDigit
<1>10. pos < Len(S) /\ pos + 1 \in 1..Len(S) /\ pos + 1 \in 0..Len(S) /\ S[pos + 1] \in Bytes
  <2>1. pos < Len(S) /\ pos + 1 \in 1..Len(S) /\ pos + 1 \in 0..Len(S)
    BY <1>1, <1>7, <1>9
  <2> QED BY <1>1, <2>1, ElementOfSeq
<1> HIDE DEF x
<1>11. x = val + wt * u
  BY <1>3 DEF x
<1>12. CASE u < Base
  <2>1. S[pos + 1] = u /\ b = pos + 1
    BY <1>9, <1>12
  <2>2. Wrap(val + S[pos + 1] * wt) = x
    <3>1. x \in Nat /\ x < 2 * Half /\ wt \in Nat /\ u \in Nat /\ val \in Nat /\ Half \in Nat
      BY <1>2, <1>5, Numbers
    <3>2. val + S[pos + 1] * wt = x
      <4>1. u * wt = wt * u
        BY <3>1
      <4> QED BY <1>11, <2>1, <4>1
    <3>3. Wrap(x) = x
      BY <3>1, WrapOnce
    <3> QED BY <3>2, <3>3
  <2>3. Decoded(S, v, Z, pos + 1, j + 1, 0, 1)
    BY <1>4, <1>6, <2>1, FreshVarInt
  <2>4. ~(S[pos + 1] >= Base)
    BY <1>12, <2>1, Numbers
  <2> QED BY <1>7, <1>10, <2>2, <2>3, <2>4 DEF x
<1>13. CASE u >= Base
  <2> DEFINE d == u % Base
             w == u \div Base
  <2>1. S[pos + 1] = d + Base /\ HasVarInt(S, pos + 1, b, w)
    BY <1>9, <1>13
  <2>2. /\ val + d * wt \in Word /\ Wrap(val + d * wt) = val + d * wt
        /\ wt * Base \in Word /\ wt * Base > 0
        /\ x = (val + d * wt) + (wt * Base) * w
    BY <1>2, <1>5, <1>11, <1>13, Weights
  <2>3. w \in Word /\ d \in Nat /\ Base \in Nat
    BY <1>13, NextWord, Numbers
  <2> HIDE DEF d, w
  <2>4. S[pos + 1] - Base = d /\ S[pos + 1] >= Base /\ ~(S[pos + 1] < Base)
    BY <2>1, <2>3
  <2> DEFINE val1 == val + d * wt
             wt1 == wt * Base
  <2>5. val1 \in Word /\ wt1 \in Word /\ wt1 > 0 /\ Wrap(val1) = val1 /\ x = val1 + wt1 * w
    BY <2>2
  <2> HIDE DEF val1, wt1
  <2>6. \E y \in Word : HasVarInt(S, pos + 1, v[j + 1], y) /\ Z[j + 1] = val1 + wt1 * y
    BY <1>6, <2>1, <2>3, <2>5 DEF x
  <2>7. Decoded(S, v, Z, pos + 1, j, val1, wt1)
    BY <1>10, <2>5, <2>6 DEF Decoded
  <2>8. Wrap(val + (S[pos + 1] - Base) * wt) = val1
    BY <2>4, <2>5 DEF val1
  <2> QED BY <1>7, <1>10, <2>4, <2>7, <2>8 DEF wt1
<1> QED BY <1>12, <1>13, Numbers

(* The records delivered, and what is at hand of the one under way.        *)
Delivered(recs, o, ff, pv) ==
  /\ Len(o) <= Len(recs) /\ o = Part(recs, 0, Len(o)) /\ o \in Seq(Word \X Word)
  /\ pv \in Word \X Word
  /\ \/ ff = <<>> /\ pv = Before(recs, Len(o) + 1)
     \/ /\ Len(o) < Len(recs)
        /\ ff = <<recs[Len(o) + 1][1]>>
        /\ pv = <<recs[Len(o) + 1][1], Before(recs, Len(o) + 1)[2]>>

(* The reader has taken pos bytes of S and its variables are what they     *)
(* make.                                                                   *)
Decoder(S, v, Z, recs, pos, o, ff, pv, val, wt) ==
  /\ Encodes(S, v, Z, recs)
  /\ Delivered(recs, o, ff, pv)
  /\ Decoded(S, v, Z, pos, 2 * Len(o) + Len(ff), val, wt)

(* The number of varints taken is twice the records delivered, and one     *)
(* when a first field is at hand.                                          *)
LEMMA DecoderFacts ==
  ASSUME NEW recs \in Seq(Word \X Word), NEW S, NEW v, NEW Z, NEW pos, NEW o, NEW ff, NEW pv,
         NEW val, NEW wt, Decoder(S, v, Z, recs, pos, o, ff, pv, val, wt)
  PROVE  /\ S \in Seq(Bytes) /\ Z \in Seq(Word) /\ Digits(S, v, Z) /\ Fields(Z, recs)
         /\ Len(recs) \in Nat /\ Len(o) \in Nat /\ Len(Z) = 2 * Len(recs)
         /\ 2 * Len(o) + Len(ff) \in 0..Len(Z)
         /\ (2 * Len(o) + Len(ff) = Len(Z)) <=> (Len(o) = Len(recs))
         /\ ff = <<>> => Len(ff) = 0
         /\ ff # <<>> => Len(ff) = 1
<1>1. Encodes(S, v, Z, recs) /\ Delivered(recs, o, ff, pv)
  BY DEF Decoder
<1>2. /\ S \in Seq(Bytes) /\ Z \in Seq(Word) /\ Digits(S, v, Z) /\ Fields(Z, recs)
      /\ Len(Z) = 2 * Len(recs)
  BY <1>1 DEF Encodes, Digits, Fields
<1>3. Len(recs) \in Nat /\ Len(o) \in Nat /\ Len(o) <= Len(recs)
  BY <1>1, LenProperties DEF Delivered
<1> DEFINE m == Len(o)
           n == Len(recs)
           l == Len(ff)
<1>6. ASSUME l \in {0, 1}, l = 1 => m < n
      PROVE  2 * m + l \in 0..2 * n /\ ((2 * m + l = 2 * n) <=> (m = n))
  <2> HIDE DEF m, n, l
  <2>1. m \in Nat /\ n \in Nat /\ m <= n
    BY <1>3 DEF m, n
  <2> QED BY <1>6, <2>1
<1>4. CASE ff = <<>>
  <2>1. l = 0
    BY <1>4
  <2>2. 2 * m + l \in 0..2 * n /\ ((2 * m + l = 2 * n) <=> (m = n))
    BY <1>6, <2>1
  <2> HIDE DEF l
  <2> QED BY <1>2, <1>3, <1>4, <2>1, <2>2 DEF l
<1>5. CASE ff # <<>>
  <2>1. Len(o) < Len(recs) /\ ff = <<recs[Len(o) + 1][1]>>
    BY <1>1, <1>5 DEF Delivered
  <2>2. l = 1
    BY <2>1
  <2>3. 2 * m + l \in 0..2 * n /\ ((2 * m + l = 2 * n) <=> (m = n))
    BY <1>6, <2>1, <2>2
  <2> HIDE DEF l
  <2> QED BY <1>2, <1>3, <1>5, <2>2, <2>3 DEF l
<1> QED BY <1>4, <1>5

(* Adding the decoded difference to the number before restores the field.  *)
LEMMA RestoredField ==
  ASSUME NEW recs \in Seq(Word \X Word), NEW k \in 1..Len(recs), NEW f \in {1, 2}
  PROVE  Wrap(Before(recs, k)[f] + ZZDec(Zig(recs, k, f))) = recs[k][f] /\ recs[k][f] \in Word
<1>1. Before(recs, k) \in Word \X Word /\ recs[k] \in Word \X Word
  BY ZigType
<1>2. Before(recs, k)[f] \in Word /\ recs[k][f] \in Word
  BY <1>1
<1> QED BY <1>2, DeltaRestores DEF Zig

(* A byte less than Base completes a field, and the field is the one that  *)
(* was written; any other adds a digit.                                    *)
LEMMA DecoderDigit ==
  ASSUME NEW recs \in Seq(Word \X Word), NEW S, NEW v, NEW Z, NEW pos, NEW o, NEW ff, NEW pv,
         NEW val, NEW wt, Decoder(S, v, Z, recs, pos, o, ff, pv, val, wt),
         Len(o) < Len(recs)
  PROVE  LET byte == S[pos + 1]
             zz == Wrap(val + byte * wt)
             field == Len(ff) + 1
             sum == Wrap(pv[field] + ZZDec(zz))
             new == [pv EXCEPT ![field] = sum]
         IN  /\ pos \in Nat /\ pos < Len(S) /\ pos + 1 \in 1..Len(S) /\ byte \in Bytes
             /\ byte >= Base =>
                  Decoder(S, v, Z, recs, pos + 1, o, ff, pv, Wrap(val + (byte - Base) * wt), wt * Base)
             /\ byte < Base /\ ff = <<>> =>
                  Decoder(S, v, Z, recs, pos + 1, o, <<sum>>, new, 0, 1)
             /\ byte < Base /\ ff # <<>> =>
                  Decoder(S, v, Z, recs, pos + 1, Append(o, Append(ff, sum)), <<>>, new, 0, 1)
<1> DEFINE byte == S[pos + 1]
           zz == Wrap(val + byte * wt)
           field == Len(ff) + 1
           sum == Wrap(pv[field] + ZZDec(zz))
           new == [pv EXCEPT ![field] = sum]
           k == Len(o) + 1
           j == 2 * Len(o) + Len(ff)
<1>1. /\ S \in Seq(Bytes) /\ Z \in Seq(Word) /\ Digits(S, v, Z) /\ Fields(Z, recs)
      /\ Len(recs) \in Nat /\ Len(o) \in Nat /\ Len(Z) = 2 * Len(recs)
      /\ j \in 0..Len(Z) /\ j # Len(Z)
      /\ ff = <<>> => Len(ff) = 0
      /\ ff # <<>> => Len(ff) = 1
  <2>1. (j = Len(Z)) <=> (Len(o) = Len(recs))
    BY DecoderFacts
  <2> HIDE DEF j
  <2>2. Len(o) # Len(recs)
    <3>1. Len(recs) \in Nat /\ Len(o) \in Nat
      BY DecoderFacts
    <3> QED BY <3>1
  <2> QED BY <2>1, <2>2, DecoderFacts DEF j
<1>2. Encodes(S, v, Z, recs) /\ Delivered(recs, o, ff, pv) /\ Decoded(S, v, Z, pos, j, val, wt)
  BY DEF Decoder
<1> HIDE DEF j
<1>3. /\ pos \in Nat /\ pos < Len(S) /\ pos + 1 \in 1..Len(S) /\ byte \in Bytes
      /\ byte >= Base => Decoded(S, v, Z, pos + 1, j, Wrap(val + (byte - Base) * wt), wt * Base)
      /\ byte < Base => zz = Z[j + 1] /\ Decoded(S, v, Z, pos + 1, j + 1, 0, 1)
  BY <1>1, <1>2, DigitStep
<1>4. /\ o = Part(recs, 0, Len(o)) /\ o \in Seq(Word \X Word)
      /\ pv \in Word \X Word /\ Len(o) <= Len(recs)
      /\ ff = <<>> => pv = Before(recs, k)
      /\ ff # <<>> => ff = <<recs[k][1]>> /\ pv = <<recs[k][1], Before(recs, k)[2]>>
  <2>1. /\ o = Part(recs, 0, Len(o)) /\ o \in Seq(Word \X Word)
        /\ pv \in Word \X Word /\ Len(o) <= Len(recs)
        /\ \/ ff = <<>> /\ pv = Before(recs, k)
           \/ ff = <<recs[k][1]>> /\ pv = <<recs[k][1], Before(recs, k)[2]>>
    BY <1>2 DEF Delivered
  <2>2. <<recs[k][1]>> # <<>>
    OBVIOUS
  <2> HIDE DEF k
  <2> QED BY <2>1, <2>2, Zenon
<1>5. k \in 1..Len(recs) /\ k \in Nat
  BY <1>1
<1>6. Z[2 * k - 1] = Zig(recs, k, 1) /\ Z[2 * k] = Zig(recs, k, 2)
  BY <1>1, <1>5 DEF Fields
<1>7. recs[k] \in Word \X Word /\ Before(recs, k) \in Word \X Word
  BY <1>5, ZigType
<1> HIDE DEF byte, zz
<1>8. byte >= Base => Decoder(S, v, Z, recs, pos + 1, o, ff, pv, Wrap(val + (byte - Base) * wt), wt * Base)
  BY <1>2, <1>3 DEF Decoder, j
<1>9. ASSUME byte < Base, ff = <<>>
      PROVE  Decoder(S, v, Z, recs, pos + 1, o, <<sum>>, new, 0, 1)
  <2>1. field = 1 /\ j + 1 = 2 * k - 1
    BY <1>1, <1>9 DEF j
  <2>2. zz = Zig(recs, k, 1)
    BY <1>3, <1>6, <1>9, <2>1
  <2>3. sum = recs[k][1] /\ recs[k][1] \in Word
    BY <1>4, <1>5, <1>9, <2>1, <2>2, RestoredField
  <2>4. new = <<recs[k][1], Before(recs, k)[2]>>
    BY <1>4, <1>7, <1>9, <2>1, <2>3
  <2> HIDE DEF sum, new, field
  <2>5. new \in Word \X Word
    BY <1>7, <2>4
  <2>6. Delivered(recs, o, <<sum>>, new)
    BY <1>4, <2>3, <2>4, <2>5 DEF Delivered
  <2>7. 2 * Len(o) + Len(<<sum>>) = j + 1
    <3>1. Len(<<sum>>) = 1 /\ Len(ff) = 0
      BY <1>1, <1>9
    <3> QED BY <1>1, <3>1 DEF j
  <2>8. Decoded(S, v, Z, pos + 1, j + 1, 0, 1)
    BY <1>3, <1>9
  <2> QED BY <1>2, <2>6, <2>7, <2>8 DEF Decoder
<1>10. ASSUME byte < Base, ff # <<>>
       PROVE  Decoder(S, v, Z, recs, pos + 1, Append(o, Append(ff, sum)), <<>>, new, 0, 1)
  <2>1. field = 2 /\ j + 1 = 2 * k
    <3>1. Len(ff) = 1
      BY <1>1, <1>10
    <3> QED BY <1>1, <3>1 DEF j
  <2>2. zz = Zig(recs, k, 2)
    BY <1>3, <1>6, <1>10, <2>1
  <2>3. pv[2] = Before(recs, k)[2]
    BY <1>4, <1>10
  <2>4. sum = recs[k][2] /\ recs[k][2] \in Word
    BY <1>5, <2>1, <2>2, <2>3, RestoredField
  <2>5. new = <<recs[k][1], recs[k][2]>>
    BY <1>4, <1>10, <2>1, <2>4
  <2>6. new = recs[k] /\ Append(ff, sum) = recs[k]
    <3>1. recs[k] = <<recs[k][1], recs[k][2]>>
      BY <1>7
    <3>2. ff = <<recs[k][1]>> /\ sum = recs[k][2]
      BY <1>4, <1>10, <2>4
    <3>3. ASSUME NEW a \in Word, NEW b \in Word PROVE Append(<<a>>, b) = <<a, b>>
      <4>1. <<a>> \in Seq(Word) /\ <<a, b>> \in Seq(Word) /\ Len(<<a, b>>) = 2 /\ Len(<<a>>) = 1
        OBVIOUS
      <4>2. Append(<<a>>, b) \in Seq(Word) /\ Len(Append(<<a>>, b)) = 2
            /\ Append(<<a>>, b)[1] = a /\ Append(<<a>>, b)[2] = b
        BY <4>1, AppendProperties
      <4> DEFINE x == Append(<<a>>, b)
                 y == <<a, b>>
      <4>3. y[1] = a /\ y[2] = b
        OBVIOUS
      <4>4. x \in Seq(Word) /\ y \in Seq(Word) /\ Len(x) = 2 /\ Len(y) = 2 /\ x[1] = y[1] /\ x[2] = y[2]
        BY <4>1, <4>2, <4>3
      <4> HIDE DEF x, y
      <4>5. \A i \in 1..Len(x) : x[i] = y[i]
        BY <4>4
      <4>6. x = y
        BY <4>4, <4>5, SeqEqual
      <4> QED BY <4>6 DEF x, y
    <3> HIDE DEF new, sum
    <3>4. Append(ff, sum) = <<recs[k][1], recs[k][2]>>
      BY <1>7, <3>2, <3>3
    <3> QED BY <2>5, <3>1, <3>4
  <2> DEFINE more == Append(o, Append(ff, sum))
  <2> HIDE DEF sum, new, field
  <2>7. more \in Seq(Word \X Word) /\ Len(more) = k
    BY <1>4, <1>7, <2>6, AppendProperties
  <2>8. more = Part(recs, 0, k)
    <3>1. 1 \in 1..Len(recs) /\ k \in 1..Len(recs)
      BY <1>5
    <3>2. SubSeq(recs, 1, k) = SubSeq(recs, 1, k - 1) \o <<recs[k]>>
      BY <3>1, SubSeqRecursiveSecond
    <3>3. k - 1 = Len(o)
      BY <1>1
    <3>4. more = o \o <<recs[k]>>
      BY <1>4, <1>7, <2>6, AppendIsConcat
    <3> HIDE DEF k
    <3> QED BY <1>4, <3>2, <3>3, <3>4, PartFromStart
  <2> HIDE DEF more
  <2>9. Before(recs, k + 1) = recs[k]
    BY <1>5 DEF Before
  <2>10. Delivered(recs, more, <<>>, new)
    <3>1. new \in Word \X Word
      BY <1>7, <2>6
    <3>2. k <= Len(recs)
      BY <1>5
    <3> HIDE DEF k
    <3> QED BY <2>6, <2>7, <2>8, <2>9, <3>1, <3>2 DEF Delivered
  <2>11. 2 * Len(more) + Len(<<>>) = j + 1
    BY <1>5, <2>1, <2>7
  <2>12. Decoded(S, v, Z, pos + 1, j + 1, 0, 1)
    BY <1>3, <1>10
  <2> QED BY <1>2, <2>10, <2>11, <2>12 DEF Decoder, more
<1> QED BY <1>3, <1>8, <1>9, <1>10 DEF byte, zz

-----------------------------------------------------------------------------
(* The buffers of the reader.                                              *)

(* The frame of a closed file: the bytes up to the e[q]-th lie in its first *)
(* q cells.                                                                 *)
Frame(S, e, cells, n) ==
  /\ n \in Nat /\ e \in [0..n -> 0..Len(S)] /\ e[0] = 0 /\ e[n] = Len(S)
  /\ \A q \in 1..n :
       \/ q < n /\ cells[q] = Header /\ e[q] = e[q - 1]
       \/ q = n /\ cells[q] = EndMark /\ e[q] = e[q - 1]
       \/ q < n /\ e[q - 1] < e[q] /\ cells[q] = Block(Part(S, e[q - 1], e[q]))

(* The cells between the g-th and the a-th lie in the read buffer.         *)
Window(cells, n, g, a, comp) ==
  /\ g \in 0..n /\ a \in 0..n /\ g <= a /\ a - g <= ReadBufSize
  /\ comp = Part(cells, g, a)

(* The bytes between p and r are decoded and not taken, those up to t still *)
(* inside the decoder.                                                      *)
Handed(S, p, r, t, dec, enc) ==
  /\ p \in Nat /\ r \in Nat /\ t \in 0..Len(S) /\ p <= r /\ r <= t /\ r - p <= ReadBufSize
  /\ dec = Part(S, p, r) /\ enc = Part(S, r, t)

(* A plain file while it is read.                                          *)
PlainState ==
  /\ Len(file) = Len(written) + 4 /\ \A i \in 1..Len(written) : file[i] = written[i]
  /\ at = Len(out) /\ Len(out) <= Len(written) /\ out = Part(written, 0, Len(out))
  /\ out \in Seq(Word \X Word)
  /\ compBuf = <<>> /\ decBuf = <<>> /\ value = 0 /\ weight = 1 /\ prev = Zero

(* A file of bytes while it is read: g of them are taken, those up to at   *)
(* in the read buffer.                                                     *)
BytesState ==
  \E S, v, Z, g :
    /\ Decoder(S, v, Z, written, g, out, firstField, prev, value, weight)
    /\ Len(file) = Len(S) + 4 /\ \A i \in 1..Len(S) : file[i] = Byte(S[i])
    /\ Window(file, Len(file) - 4, g, at, compBuf)
    /\ decBuf = <<>> /\ lz4 = <<>>

(* An LZ4 file while it is read: q cells are taken from the read buffer,   *)
(* their bytes up to p decoded and taken, up to r handed out.              *)
FrameState ==
  \E S, v, Z, e, q, p, r :
    /\ Decoder(S, v, Z, written, p, out, firstField, prev, value, weight)
    /\ Frame(S, e, file, Len(file) - 4)
    /\ Window(file, Len(file) - 4, q, at, compBuf)
    /\ Handed(S, p, r, e[q], decBuf, lz4)
    /\ frameDone <=> (q = Len(file) - 4)

(* The reader of an open file.                                             *)
ReadState ==
  /\ varBuf = <<>>
  /\ trailer.count = Len(written) /\ (Compressed => trailer.size = Len(file) - 4)
  /\ format = "blf" => PlainState
  /\ format = "blfz" => BytesState
  /\ format = "blfzl" => FrameState

(* The reader's variables before a file is open.                           *)
Idle ==
  /\ at = 0 /\ compBuf = <<>> /\ decBuf = <<>> /\ frameDone = FALSE
  /\ value = 0 /\ weight = 1 /\ firstField = NoField /\ out = <<>>

(* The inductive invariant of the reader.                                  *)
ReadInv ==
  /\ FileInv
  /\ phase # "fatal"
  /\ phase # "read" => Idle
  /\ phase \in {"closed", "cut", "refused", "mistaken"} => prev = Zero /\ varBuf = <<>> /\ lz4 = <<>>
  /\ phase = "read" => ReadState

(* The blocks of a closed file and its end mark are a frame.               *)
LEMMA FrameOfBlocks ==
  ASSUME NEW S \in Seq(Bytes), NEW c, NEW cells, NEW n \in Nat, n > 1,
         Blocks(S, c, cells, n - 1), c[n - 1] = Len(S), cells[n] = EndMark
  PROVE  \E e : Frame(S, e, cells, n)
<1> DEFINE e == [q \in 0..n |-> IF q = 0 THEN 0 ELSE IF q = n THEN Len(S) ELSE c[q]]
           l == Len(S)
<1>1. /\ c \in [1..n - 1 -> 0..l] /\ c[1] = 0 /\ cells[1] = Header
      /\ \A q \in 2..n - 1 : c[q - 1] < c[q] /\ cells[q] = Block(Part(S, c[q - 1], c[q]))
  BY DEF Blocks
<1>2. l \in Nat
  BY LenProperties
<1>3. e[0] = 0 /\ e[n] = l /\ \A q \in 1..n - 1 : e[q] = c[q]
  OBVIOUS
<1>4. e \in [0..n -> 0..l]
  <2>1. \A q \in 0..n : (q # 0 /\ q # n) => q \in 1..n - 1
    OBVIOUS
  <2> HIDE DEF l
  <2>2. 0 \in 0..l /\ l \in 0..l
    BY <1>2
  <2>3. \A q \in 0..n : (IF q = 0 THEN 0 ELSE IF q = n THEN l ELSE c[q]) \in 0..l
    BY <1>1, <2>1, <2>2
  <2> QED BY <2>3 DEF l
<1> HIDE DEF e
<1>5. \A q \in 1..n :
       \/ q < n /\ cells[q] = Header /\ e[q] = e[q - 1]
       \/ q = n /\ cells[q] = EndMark /\ e[q] = e[q - 1]
       \/ q < n /\ e[q - 1] < e[q] /\ cells[q] = Block(Part(S, e[q - 1], e[q]))
  <2> TAKE q \in 1..n
  <2>1. CASE q = 1
    <3>1. q < n /\ q - 1 = 0 /\ q \in 1..n - 1
      BY <2>1
    <3> QED BY <1>1, <1>3, <2>1, <3>1
  <2>2. CASE q = n
    <3>1. q - 1 = n - 1 /\ n - 1 \in 1..n - 1
      BY <2>2
    <3>2. e[q] = l /\ e[q - 1] = c[n - 1]
      BY <1>3, <2>2, <3>1
    <3> QED BY <2>2, <3>2
  <2>3. CASE q # 1 /\ q # n
    <3>1. q < n /\ q \in 2..n - 1 /\ q \in 1..n - 1 /\ q - 1 \in 1..n - 1
      BY <2>3
    <3>2. e[q] = c[q] /\ e[q - 1] = c[q - 1]
      BY <1>3, <3>1
    <3> QED BY <1>1, <3>1, <3>2
  <2> QED BY <2>1, <2>2, <2>3
<1>6. Frame(S, e, cells, n)
  BY <1>3, <1>4, <1>5 DEF Frame
<1> QED BY <1>6

(* The bounds of the read buffer.                                          *)
LEMMA WindowFacts ==
  ASSUME NEW cells, NEW n \in Nat, NEW g, NEW a, NEW comp, Window(cells, n, g, a, comp)
  PROVE  /\ g \in Nat /\ a \in Nat /\ g <= a /\ a <= n /\ Len(comp) = a - g /\ Len(comp) <= ReadBufSize
         /\ a - Len(comp) = g
         /\ \A i \in 1..a - g : comp[i] = cells[g + i]
<1>1. g \in Nat /\ a \in Nat /\ g <= a /\ a <= n /\ a - g <= ReadBufSize /\ comp = Part(cells, g, a)
  BY DEF Window
<1>2. Len(comp) = a - g /\ \A i \in 1..a - g : comp[i] = cells[g + i]
  BY <1>1, PartAt
<1>3. a - (a - g) = g
  BY <1>1
<1> QED BY <1>1, <1>2, <1>3

(* A cell is taken out of the read buffer.                                 *)
LEMMA WindowTake ==
  ASSUME NEW cells \in Seq(CellSet), NEW n \in Nat, n <= Len(cells), NEW g, NEW a, NEW comp,
         Window(cells, n, g, a, comp)
  PROVE  /\ comp = <<>> => g = a
         /\ comp # <<>> => /\ g < a /\ Head(comp) = cells[g + 1]
                           /\ Window(cells, n, g + 1, a, Tail(comp))
<1>1. g \in Nat /\ a \in Nat /\ g <= a /\ a <= n /\ a - g <= ReadBufSize /\ comp = Part(cells, g, a)
  BY DEF Window
<1>2. a <= Len(cells)
  BY <1>1, LenProperties
<1>3. (comp = <<>>) <=> (g = a)
  BY <1>1, <1>2, PartEmpty
<1>4. ASSUME comp # <<>>
      PROVE  g < a /\ Head(comp) = cells[g + 1] /\ Window(cells, n, g + 1, a, Tail(comp))
  <2>1. g < a
    BY <1>1, <1>3, <1>4
  <2>2. Head(comp) = cells[g + 1] /\ Tail(comp) = Part(cells, g + 1, a)
    BY <1>1, <1>2, <2>1, PartHead
  <2>3. g + 1 \in 0..n /\ a \in 0..n /\ g + 1 <= a /\ a - (g + 1) <= ReadBufSize
    BY <1>1, <2>1, Numbers
  <2> QED BY <2>1, <2>2, <2>3 DEF Window
<1> QED BY <1>3, <1>4

(* The empty read buffer is filled, with nothing only at the end of the    *)
(* body.                                                                   *)
LEMMA WindowRefill ==
  ASSUME NEW cells \in Seq(CellSet), NEW n \in Nat, n <= Len(cells), NEW g, NEW a,
         Window(cells, n, g, a, <<>>)
  PROVE  LET toRead == Smaller(n - a, ReadBufSize)
         IN  /\ g = a /\ a - Len(<<>>) = a
             /\ Window(cells, n, g, a + toRead, SubSeq(cells, a + 1, a + toRead))
             /\ toRead = 0 => g = n
<1> DEFINE t == Smaller(n - a, ReadBufSize)
           comp == <<>>
<1>1. g = a
  <2>1. comp = <<>> => g = a
    BY WindowTake
  <2> QED BY <2>1
<1>2. a \in Nat /\ a <= n /\ ReadBufSize \in Nat /\ ReadBufSize > 0
  BY Numbers DEF Window
<1>3. t \in Nat /\ t <= n - a /\ t <= ReadBufSize /\ (t = 0 => a = n)
  BY <1>2 DEF Smaller
<1> HIDE DEF t
<1>4. a \in 0..n /\ a + t \in 0..n /\ a <= a + t /\ (a + t) - a <= ReadBufSize
  BY <1>2, <1>3
<1>5. Window(cells, n, a, a + t, SubSeq(cells, a + 1, a + t))
  BY <1>4 DEF Window, Part
<1>6. a - Len(<<>>) = a
  <2>1. Len(<<>>) = 0
    OBVIOUS
  <2> QED BY <1>2, <2>1
<1> QED BY <1>1, <1>3, <1>5, <1>6 DEF t

(* The bounds of the decoded bytes, and one of them taken.                 *)
LEMMA HandedFacts ==
  ASSUME NEW S \in Seq(Bytes), NEW p, NEW r, NEW t, NEW dec, NEW enc, Handed(S, p, r, t, dec, enc)
  PROVE  /\ dec \in Seq(Bytes) /\ Len(dec) <= ReadBufSize
         /\ p \in Nat /\ r \in Nat /\ t \in Nat /\ t <= Len(S)
         /\ (dec = <<>>) <=> (p = r)
         /\ (enc = <<>>) <=> (r = t)
         /\ dec # <<>> => Head(dec) = S[p + 1] /\ Handed(S, p + 1, r, t, Tail(dec), enc)
<1>1. /\ p \in Nat /\ r \in Nat /\ t \in Nat /\ t \in 0..Len(S) /\ t <= Len(S) /\ p <= r /\ r <= t /\ r - p <= ReadBufSize
      /\ dec = Part(S, p, r) /\ enc = Part(S, r, t)
  BY LenProperties DEF Handed
<1>2. r <= Len(S)
  BY <1>1, LenProperties
<1>3. dec \in Seq(Bytes) /\ Len(dec) = r - p
  BY <1>1, <1>2, PartAt, PartIn
<1>4. ((dec = <<>>) <=> (p = r)) /\ ((enc = <<>>) <=> (r = t))
  BY <1>1, <1>2, PartEmpty
<1>5. ASSUME dec # <<>> PROVE Head(dec) = S[p + 1] /\ Handed(S, p + 1, r, t, Tail(dec), enc)
  <2>1. p < r
    BY <1>1, <1>4, <1>5
  <2>2. Head(dec) = S[p + 1] /\ Tail(dec) = Part(S, p + 1, r)
    BY <1>1, <1>2, <2>1, PartHead
  <2>3. p + 1 \in Nat /\ p + 1 <= r /\ r - (p + 1) <= ReadBufSize
    BY <1>1, <2>1, Numbers
  <2> QED BY <1>1, <2>2, <2>3 DEF Handed
<1> QED BY <1>1, <1>3, <1>4, <1>5

(* No bytes between equal bounds only.                                     *)
LEMMA HandedEmpty ==
  ASSUME NEW S \in Seq(Bytes), NEW p, NEW r, NEW t, NEW dec, NEW enc, Handed(S, p, r, t, dec, enc)
  PROVE  (dec = <<>> => p = r) /\ (enc = <<>> => r = t)
<1>1. /\ p \in Nat /\ r \in Nat /\ t \in Nat /\ t \in 0..Len(S) /\ t <= Len(S) /\ p <= r /\ r <= t
      /\ dec = Part(S, p, r) /\ enc = Part(S, r, t)
  BY LenProperties DEF Handed
<1>2. r <= Len(S)
  BY <1>1, LenProperties
<1>3. ((dec = <<>>) <=> (p = r)) /\ ((enc = <<>>) <=> (r = t))
  BY <1>1, <1>2, PartEmpty
<1> QED BY <1>3, Zenon

(* What one call of the decoder hands out.                                 *)
LEMMA HandedMore ==
  ASSUME NEW S \in Seq(Bytes), NEW r \in Nat, NEW t \in 0..Len(S), r <= t,
         NEW fresh, fresh = Part(S, r, t)
  PROVE  LET n == Smaller(Len(fresh), ReadBufSize)
         IN  \E l : Handed(S, r, l, t, SubSeq(fresh, 1, n), SubSeq(fresh, n + 1, Len(fresh)))
<1> DEFINE m == Len(fresh)
           n == Smaller(m, ReadBufSize)
           dec == Part(fresh, 0, n)
           enc == Part(fresh, n, m)
           l == r + n
<1>1. Len(S) \in Nat /\ t \in Nat /\ t <= Len(S) /\ ReadBufSize \in Nat
  BY LenProperties, Numbers
<1>2. m = t - r
  <2>1. Len(Part(S, r, t)) = t - r
    BY <1>1, PartAt
  <2> QED BY <2>1
<1>3. m \in Nat
  BY <1>1, <1>2
<1>4. n \in Nat /\ n <= m /\ n <= ReadBufSize
  BY <1>1, <1>3 DEF Smaller
<1>5. dec = SubSeq(fresh, 1, n) /\ enc = SubSeq(fresh, n + 1, m)
  <2> HIDE DEF n, m
  <2> QED BY PartFromStart DEF Part
<1> HIDE DEF n, m
<1>6. dec = Part(S, r, l) /\ enc = Part(S, l, t)
  <2>1. 0 \in Nat /\ 0 <= n /\ n <= t - r /\ m <= t - r /\ m \in Nat
    BY <1>2, <1>3, <1>4
  <2>2. Part(Part(S, r, t), 0, n) = Part(S, r + 0, r + n)
    BY <1>1, <1>4, <2>1, PartOfPart
  <2>3. Part(Part(S, r, t), n, m) = Part(S, r + n, r + m)
    BY <1>1, <1>4, <2>1, PartOfPart
  <2>4. r + 0 = r /\ r + m = t
    BY <1>1, <1>2
  <2> QED BY <2>2, <2>3, <2>4
<1>7. l \in Nat /\ r <= l /\ l <= t /\ l - r <= ReadBufSize
  BY <1>1, <1>2, <1>4
<1> HIDE DEF dec, enc, l
<1>8. Handed(S, r, l, t, dec, enc)
  BY <1>6, <1>7 DEF Handed
<1> QED BY <1>5, <1>8 DEF n, m

-----------------------------------------------------------------------------
(* The inductive invariant of the reader, step by step.                    *)

(* ReadInv holds at the start.                                             *)
LEMMA ReadInit == Init => ReadInv
<1> SUFFICES ASSUME Init PROVE ReadInv
  OBVIOUS
<1>1. FileInv
  BY FileInit
<1> QED BY <1>1 DEF Init, ReadInv, Idle

(* What the reader knows of the records.                                   *)
LEMMA WrittenWords == FileInv => written \in Seq(Word \X Word) /\ Len(written) \in Nat /\ file \in Seq(CellSet)
<1>1. \A s \in Seq(Keys) : Len(s) \in Nat
  BY LenProperties
<1> QED BY <1>1, KeyCells DEF FileInv

(* At the start nothing is decoded.                                        *)
LEMMA DecoderStart ==
  ASSUME NEW recs \in Seq(Word \X Word), NEW S, NEW v, NEW Z, Encodes(S, v, Z, recs)
  PROVE  Decoder(S, v, Z, recs, 0, <<>>, <<>>, Zero, 0, 1)
<1>1. Digits(S, v, Z) /\ v[0] = 0 /\ Len(Z) \in Nat
  BY LenProperties DEF Encodes, Digits
<1>2. 0 \in 0..Len(Z)
  BY <1>1
<1>3. Decoded(S, v, Z, 0, 0, 0, 1)
  BY <1>1, <1>2, FreshVarInt
<1>4. Len(<<>>) = 0 /\ <<>> \in Seq(Word \X Word)
  OBVIOUS
<1>5. Part(recs, 0, 0) = <<>>
  <2>1. 0 <= Len(recs) /\ 0 \in Nat
    BY LenProperties
  <2> QED BY <2>1, PartEmpty
<1>6. Zero \in Word \X Word
  BY Numbers DEF Zero, Word
<1>7. Len(recs) >= 0
  BY LenProperties
<1>8. Before(recs, Len(<<>>) + 1) = Zero
  BY <1>4 DEF Before
<1>9. Delivered(recs, <<>>, <<>>, Zero)
  BY <1>4, <1>5, <1>6, <1>7, <1>8 DEF Delivered
<1>10. 2 * Len(<<>>) + Len(<<>>) = 0
  BY <1>4
<1> QED BY <1>3, <1>9, <1>10 DEF Decoder

(* Opening a closed file.                                                  *)
LEMMA OpenClosed ==
  ASSUME ReadInv, BLFOpen, phase = "closed"
  PROVE  ReadInv'
<1>1. FileInv /\ FileInv' /\ phase = "closed" /\ phase' = "read" /\ format' = format
  BY OpenStep DEF ReadInv
<1>2. /\ phase' = "read" /\ trailer' = LastCells /\ file' = file /\ written' = written /\ varBuf' = varBuf
      /\ prev' = prev /\ lz4' = lz4 /\ at' = at /\ compBuf' = compBuf /\ decBuf' = decBuf
      /\ frameDone' = frameDone /\ value' = value /\ weight' = weight /\ firstField' = firstField /\ out' = out
  BY DEF BLFOpen, writerVars
<1>3. /\ at = 0 /\ compBuf = <<>> /\ decBuf = <<>> /\ frameDone = FALSE /\ value = 0 /\ weight = 1
      /\ firstField = <<>> /\ out = <<>> /\ prev = Zero /\ varBuf = <<>> /\ lz4 = <<>>
  BY <1>1 DEF ReadInv, Idle, NoField
<1>4. format \in Formats /\ written \in Seq(Keys) /\ Len(written) <= MaxRecords /\ Closed(file, fileBytes, format, written)
  BY <1>1 DEF FileInv
<1>5. written \in Seq(Word \X Word) /\ Len(written) \in Nat /\ file \in Seq(CellSet)
  BY <1>1, WrittenWords
<1>6. PICK body : WholeBody(body, format, written) /\ file = body \o TrailerOf(body, format, written)
  BY <1>4 DEF Closed
<1> DEFINE n == Len(body)
<1>7. /\ n \in Nat /\ Len(file) = n + 4
      /\ \A i \in 1..n : file[i] = body[i]
      /\ file[n + 3] = <<Len(written), IF format # "blf" THEN n ELSE 0>>
  BY <1>4, <1>6, StreamCells, BodyCells
<1> HIDE DEF n
<1>8. Len(file) - 4 = n /\ Len(file) - 4 + 3 = n + 3
  BY <1>7
<1>9. LastCells.count = Len(written) /\ (Compressed => LastCells.size = Len(file) - 4)
  BY <1>7, <1>8 DEF LastCells, Cell, TrailerCells, Compressed
<1>10. Window(file, n, 0, 0, <<>>)
  <2>1. 0 \in 0..n /\ 0 <= 0 /\ 0 - 0 <= ReadBufSize
    BY <1>7, Numbers
  <2>2. Part(file, 0, 0) = <<>>
    BY SubSeqEmpty DEF Part
  <2> QED BY <2>1, <2>2 DEF Window
<1>11. CASE format = "blf"
  <2>1. body = written
    BY <1>6, <1>11 DEF WholeBody
  <2>2. Len(out) = 0 /\ Part(written, 0, 0) = <<>>
    BY <1>3, SubSeqEmpty DEF Part
  <2>3. Len(file) = Len(written) + 4 /\ \A i \in 1..Len(written) : file[i] = written[i]
    BY <1>7, <2>1 DEF n
  <2>5. out \in Seq(Word \X Word)
    BY <1>3
  <2>4. PlainState'
    BY <1>2, <1>3, <1>5, <2>2, <2>3, <2>5 DEF PlainState
  <2> QED BY <1>1, <1>2, <1>3, <1>9, <1>11, <2>4 DEF ReadInv, ReadState, Compressed
<1>12. CASE format = "blfz"
  <2>1. PICK S, v, Z : Encodes(S, v, Z, written) /\ ByteShape(S, body, <<>>) /\ n = Len(S)
    BY <1>6, <1>12 DEF WholeBody, n
  <2>2. Len(file) = Len(S) + 4 /\ \A i \in 1..Len(S) : file[i] = Byte(S[i])
    BY <1>7, <2>1 DEF ByteShape, n
  <2>3. Decoder(S, v, Z, written, 0, <<>>, <<>>, Zero, 0, 1)
    BY <1>5, <2>1, DecoderStart
  <2>4. BytesState'
    BY <1>2, <1>3, <1>8, <1>10, <2>2, <2>3 DEF BytesState
  <2> QED BY <1>1, <1>2, <1>3, <1>9, <1>12, <2>4 DEF ReadInv, ReadState, Compressed
<1>13. CASE format = "blfzl"
  <2>1. PICK S, v, Z, c : /\ Encodes(S, v, Z, written) /\ n > 1
                          /\ Blocks(S, c, body, n - 1)
                          /\ c[n - 1] = Len(S) /\ body[n] = EndMark
    BY <1>6, <1>13 DEF WholeBody, n
  <2>2. S \in Seq(Bytes) /\ Len(S) \in Nat
    BY <2>1, LenProperties DEF Encodes, Digits
  <2>3. Blocks(S, c, file, n - 1) /\ file[n] = EndMark
    <3>1. n \in 1..n /\ 1 \in 1..n /\ \A q \in 2..n - 1 : q \in 1..n
      BY <1>7, <2>1
    <3>2. file[n] = body[n] /\ file[1] = body[1] /\ \A q \in 2..n - 1 : file[q] = body[q]
      BY <1>7, <3>1
    <3> QED BY <2>1, <3>2 DEF Blocks
  <2>4. PICK e : Frame(S, e, file, n)
    BY <1>7, <2>1, <2>2, <2>3, FrameOfBlocks
  <2>5. Decoder(S, v, Z, written, 0, <<>>, <<>>, Zero, 0, 1)
    BY <1>5, <2>1, DecoderStart
  <2>6. Handed(S, 0, 0, e[0], <<>>, <<>>)
    <3>1. e[0] = 0 /\ 0 \in 0..Len(S) /\ 0 - 0 <= ReadBufSize
      BY <2>2, <2>4, Numbers DEF Frame
    <3>2. Part(S, 0, 0) = <<>>
      BY SubSeqEmpty DEF Part
    <3> QED BY <3>1, <3>2 DEF Handed
  <2>7. frameDone <=> (0 = n)
    BY <1>3, <2>1
  <2>8. FrameState'
    BY <1>2, <1>3, <1>8, <1>10, <2>4, <2>5, <2>6, <2>7 DEF FrameState
  <2> QED BY <1>1, <1>2, <1>3, <1>9, <1>13, <2>8 DEF ReadInv, ReadState, Compressed
<1> QED BY <1>4, <1>11, <1>12, <1>13 DEF Formats

(* Opening a file.                                                         *)
LEMMA OpenRead ==
  ASSUME ReadInv, BLFOpen
  PROVE  ReadInv'
<1>1. FileInv' /\ phase \in {"closed", "cut"}
  BY OpenStep DEF ReadInv, BLFOpen
<1>2. CASE phase = "cut"
  BY <1>1, <1>2 DEF ReadInv, Idle, BLFOpen, writerVars
<1> QED BY <1>1, <1>2, OpenClosed

(* The writer's steps and the refusal.                                     *)
LEMMA WriterRead ==
  ASSUME ReadInv, Writer \/ Refuse
  PROVE  ReadInv'
<1>1. FileInv'
  BY FileStep DEF ReadInv, Next, Reader
<1>2. CASE \E key \in Keys : BLFWriterRecord(key)
  BY <1>1, <1>2 DEF ReadInv, Idle, BLFWriterRecord, readerVars
<1>3. CASE \E key, next \in Keys : BLFWrite(key, next)
  BY <1>1, <1>3 DEF ReadInv, Idle, BLFWrite, readerVars
<1>4. CASE LZ4Emits
  BY <1>1, <1>4 DEF ReadInv, Idle, LZ4Emits, readerVars
<1>5. CASE BLFWriterClose
  BY <1>1, <1>5 DEF ReadInv, Idle, BLFWriterClose, readerVars
<1>6. CASE CutShort
  BY <1>1, <1>6 DEF ReadInv, Idle, CutShort, readerVars
<1>7. CASE Refuse
  BY <1>1, <1>7 DEF ReadInv, Idle, Refuse, readerVars, writerVars
<1> QED BY <1>2, <1>3, <1>4, <1>5, <1>6, <1>7 DEF Writer

(* Records of a plain file are delivered.                                  *)
LEMMA PlainRead ==
  ASSUME ReadInv, ReadPlain
  PROVE  ReadInv'
<1>1. /\ phase = "read" /\ format = "blf" /\ Remaining > 0
      /\ LET want == Smaller(Remaining, MaxCount)
         IN  /\ out' = out \o SubSeq(file, at + 1, at + want)
             /\ at' = at + want
      /\ format' = format /\ phase' = phase /\ written' = written /\ varBuf' = varBuf /\ prev' = prev
      /\ lz4' = lz4 /\ file' = file /\ trailer' = trailer /\ compBuf' = compBuf /\ decBuf' = decBuf
      /\ value' = value /\ weight' = weight
  BY DEF ReadPlain, writerVars
<1>2. FileInv /\ FileInv' /\ ReadState /\ PlainState
  BY <1>1, FileStep DEF ReadInv, ReadState, Next, Reader
<1>3. written \in Seq(Word \X Word) /\ Len(written) \in Nat /\ file \in Seq(CellSet)
  BY <1>2, WrittenWords
<1>4. /\ Len(file) = Len(written) + 4 /\ \A i \in 1..Len(written) : file[i] = written[i]
      /\ at = Len(out) /\ Len(out) <= Len(written) /\ out = Part(written, 0, Len(out))
      /\ trailer.count = Len(written)
  BY <1>2 DEF PlainState, ReadState
<1> DEFINE want == Smaller(Remaining, MaxCount)
           n == Len(written)
           a == Len(out)
           b == a + want
<1>5. a \in Nat
  <2>1. out \in Seq(Word \X Word)
    BY <1>2 DEF PlainState
  <2> QED BY <2>1, LenProperties
<1>6. want \in Nat /\ want > 0 /\ a + want <= n
  <2>1. Remaining = n - a /\ Remaining > 0
    BY <1>1, <1>4 DEF Remaining
  <2> QED BY <1>3, <1>5, <2>1, Numbers DEF Smaller
<1>7. out' = out \o SubSeq(file, a + 1, b) /\ at' = b
  BY <1>1, <1>4
<1> HIDE DEF want, n, a, b
<1>8. b \in Nat /\ a <= b /\ b <= n
  BY <1>5, <1>6 DEF b
<1>9. Part(file, a, b) = Part(written, a, b)
  <2> DEFINE x == Part(file, a, b)
             y == Part(written, a, b)
  <2>1. Len(x) = b - a /\ \A i \in 1..b - a : x[i] = file[a + i]
    BY <1>5, <1>8, PartAt
  <2>2. Len(y) = b - a /\ \A i \in 1..b - a : y[i] = written[a + i]
    BY <1>5, <1>8, PartAt
  <2>3. \A i \in 1..b - a : a + i \in 1..n
    BY <1>5, <1>8 DEF n
  <2>4. Len(x) = Len(y) /\ \A i \in 1..Len(x) : x[i] = y[i]
    <3> HIDE DEF x, y
    <3> QED BY <1>4, <2>1, <2>2, <2>3 DEF n
  <2> QED BY <1>5, <1>8, <2>4, PartsAgree
<1>10. out' = Part(written, 0, b)
  <2>1. Part(written, 0, a) \o Part(written, a, b) = Part(written, 0, b)
    <3>1. 0 \in Nat /\ 0 <= a /\ b <= Len(written)
      BY <1>5, <1>8 DEF n
    <3> QED BY <1>3, <1>5, <1>8, <3>1, PartConcat
  <2>2. out = Part(written, 0, a)
    BY <1>4 DEF a
  <2>3. SubSeq(file, a + 1, b) = Part(file, a, b)
    BY DEF Part
  <2> QED BY <1>7, <1>9, <2>1, <2>2, <2>3
<1>11. Len(out') = b
  <2>1. 0 \in Nat /\ 0 <= b
    BY <1>8
  <2>2. Len(Part(written, 0, b)) = b - 0
    BY <1>8, <2>1, PartAt
  <2> QED BY <1>8, <1>10, <2>2
<1>14. out' \in Seq(Word \X Word)
  <2>1. 0 \in Nat /\ 0 <= b /\ b <= Len(written)
    BY <1>8 DEF n
  <2> QED BY <1>3, <1>8, <1>10, <2>1, PartIn
<1>12. PlainState'
  BY <1>1, <1>2, <1>7, <1>8, <1>10, <1>11, <1>14 DEF PlainState, n
<1>13. ReadState'
  BY <1>1, <1>2, <1>12 DEF ReadState, Compressed
<1> QED BY <1>1, <1>2, <1>13 DEF ReadInv

(* The read buffer is filled again.                                        *)
LEMMA RefillRead ==
  ASSUME ReadInv, RefillVarInts \/ RefillFrame
  PROVE  ReadInv'
<1>1. PICK wanted \in BOOLEAN : Refill(wanted) /\ (wanted => format = "blfz" \/ ~frameDone)
         /\ (wanted => format \in {"blfz", "blfzl"}) /\ wanted
  BY DEF RefillVarInts, RefillFrame, Refill
<1> DEFINE toRead == Smaller(trailer.size - Consumed, ReadBufSize)
<1>2. /\ phase = "read" /\ Compressed /\ compBuf = <<>> /\ format \in {"blfz", "blfzl"}
      /\ format = "blfz" \/ ~frameDone
      /\ compBuf' = SubSeq(file, at + 1, at + toRead)
      /\ at' = at + toRead
      /\ phase' = IF format = "blfzl" /\ toRead = 0 THEN "fatal" ELSE phase
      /\ format' = format /\ written' = written /\ varBuf' = varBuf /\ prev' = prev /\ lz4' = lz4
      /\ file' = file /\ trailer' = trailer /\ decBuf' = decBuf /\ frameDone' = frameDone
      /\ value' = value /\ weight' = weight /\ firstField' = firstField /\ out' = out
  BY <1>1 DEF Refill, Reading, writerVars
<1>3. FileInv /\ FileInv' /\ ReadState
  BY <1>2, FileStep DEF ReadInv, Next, Reader
<1>4. file \in Seq(CellSet) /\ Len(file) \in Nat
  BY <1>3, WrittenWords, LenProperties
<1>5. trailer.size = Len(file) - 4 /\ Consumed = at - Len(<<>>)
  BY <1>2, <1>3 DEF ReadState, Consumed
<1> DEFINE n == Len(file) - 4
<1>6. ASSUME NEW g, n \in Nat, Window(file, n, g, at, compBuf)
      PROVE  Window(file, n, g, at', compBuf') /\ (toRead = 0 => g = n)
  <2>1. n <= Len(file)
    BY <1>4
  <2> DEFINE t == Smaller(n - at, ReadBufSize)
  <2>2. /\ at - Len(<<>>) = at
        /\ Window(file, n, g, at + t, SubSeq(file, at + 1, at + t))
        /\ t = 0 => g = n
    <3> HIDE DEF n
    <3> QED BY <1>2, <1>4, <1>6, <2>1, WindowRefill
  <2>3. toRead = t
    BY <1>5, <2>2
  <2> HIDE DEF t, toRead, n
  <2> QED BY <1>2, <2>2, <2>3
<1> HIDE DEF toRead
<1>7. CASE format = "blfz"
  <2>1. PICK S, v, Z, g :
          /\ Decoder(S, v, Z, written, g, out, firstField, prev, value, weight)
          /\ Len(file) = Len(S) + 4 /\ \A i \in 1..Len(S) : file[i] = Byte(S[i])
          /\ Window(file, n, g, at, compBuf)
          /\ decBuf = <<>> /\ lz4 = <<>>
    BY <1>3, <1>7 DEF ReadState, BytesState
  <2>2. n \in Nat
    <3>1. S \in Seq(Bytes)
      BY <2>1 DEF Decoder, Encodes, Digits
    <3>2. Len(S) \in Nat
      BY <3>1, LenProperties
    <3> QED BY <2>1, <3>2
  <2>3. Window(file, n, g, at', compBuf')
    BY <1>6, <2>1, <2>2
  <2>4. BytesState'
    BY <1>2, <2>1, <2>3 DEF BytesState
  <2>5. ReadState' /\ phase' = "read"
    BY <1>2, <1>3, <1>7, <2>4 DEF ReadState, Compressed
  <2> QED BY <1>3, <2>5 DEF ReadInv
<1>8. CASE format = "blfzl"
  <2>1. PICK S, v, Z, e, q, p, r :
          /\ Decoder(S, v, Z, written, p, out, firstField, prev, value, weight)
          /\ Frame(S, e, file, n)
          /\ Window(file, n, q, at, compBuf)
          /\ Handed(S, p, r, e[q], decBuf, lz4)
          /\ frameDone <=> (q = n)
    BY <1>3, <1>8 DEF ReadState, FrameState
  <2>2. n \in Nat
    BY <2>1 DEF Frame
  <2>3. Window(file, n, q, at', compBuf') /\ (toRead = 0 => q = n)
    BY <1>6, <2>1, <2>2
  <2>4. FrameState'
    <3>1. /\ Decoder(S, v, Z, written', p, out', firstField', prev', value', weight')
          /\ Frame(S, e, file', Len(file') - 4)
          /\ Window(file', Len(file') - 4, q, at', compBuf')
          /\ Handed(S, p, r, e[q], decBuf', lz4')
          /\ frameDone' <=> (q = Len(file') - 4)
      BY <1>2, <2>1, <2>3
    <3> HIDE DEF n
    <3> QED BY <3>1, Zenon DEF FrameState
  <2>5. phase' = "read"
    BY <1>2, <1>8, <2>1, <2>3
  <2>6. ReadState'
    BY <1>2, <1>3, <1>8, <2>4 DEF ReadState, Compressed
  <2> QED BY <1>3, <2>5, <2>6 DEF ReadInv
<1> QED BY <1>2, <1>7, <1>8

(* One call of the decoder.                                                *)
LEMMA DecompressRead ==
  ASSUME ReadInv, Decompress
  PROVE  ReadInv'
<1> DEFINE cell == Head(compBuf)[1]
           isMark == lz4 = <<>> /\ Head(compBuf)[2] # -9
           fresh == IF lz4 # <<>> THEN lz4 ELSE IF isMark THEN <<>> ELSE cell
           l == Smaller(Len(fresh), ReadBufSize)
           n == Len(file) - 4
<1>1. /\ phase = "read" /\ format = "blfzl" /\ decBuf = <<>> /\ compBuf # <<>> /\ ~frameDone
      /\ decBuf' = SubSeq(fresh, 1, l)
      /\ lz4' = SubSeq(fresh, l + 1, Len(fresh))
      /\ compBuf' = IF lz4 # <<>> THEN compBuf ELSE Tail(compBuf)
      /\ frameDone' = (isMark /\ Head(compBuf)[2] = -8)
      /\ format' = format /\ phase' = phase /\ written' = written /\ varBuf' = varBuf /\ prev' = prev
      /\ file' = file /\ trailer' = trailer /\ at' = at
      /\ value' = value /\ weight' = weight /\ firstField' = firstField /\ out' = out
  BY DEF Decompress, Reading, writerVars
<1>2. FileInv /\ FileInv' /\ ReadState
  BY <1>1, FileStep DEF ReadInv, Next, Reader
<1>3. file \in Seq(CellSet) /\ Len(file) \in Nat
  BY <1>2, WrittenWords, LenProperties
<1>4. PICK S, v, Z, e, q, p, r :
        /\ Decoder(S, v, Z, written, p, out, firstField, prev, value, weight)
        /\ Frame(S, e, file, n)
        /\ Window(file, n, q, at, compBuf)
        /\ Handed(S, p, r, e[q], decBuf, lz4)
        /\ frameDone <=> (q = n)
  BY <1>1, <1>2 DEF ReadState, FrameState
<1>5. S \in Seq(Bytes) /\ Len(S) \in Nat
  BY <1>4, LenProperties DEF Decoder, Encodes, Digits
<1>6. /\ n \in Nat /\ e \in [0..n -> 0..Len(S)]
      /\ \A x \in 1..n :
           \/ x < n /\ file[x] = Header /\ e[x] = e[x - 1]
           \/ x = n /\ file[x] = EndMark /\ e[x] = e[x - 1]
           \/ x < n /\ e[x - 1] < e[x] /\ file[x] = Block(Part(S, e[x - 1], e[x]))
  BY <1>4 DEF Frame
<1>7. q < at /\ Head(compBuf) = file[q + 1] /\ Window(file, n, q + 1, at, Tail(compBuf))
  <2>1. n <= Len(file)
    BY <1>3
  <2> HIDE DEF n
  <2> QED BY <1>1, <1>3, <1>4, <1>6, <2>1, WindowTake
<1>8. q \in 0..n /\ q \in Nat /\ q < n /\ q + 1 \in 1..n /\ q + 1 \in 0..n
  <2> HIDE DEF n
  <2>1. q \in Nat /\ at \in Nat /\ at <= n
    BY <1>4, <1>6, WindowFacts
  <2> QED BY <1>6, <1>7, <2>1
<1> DEFINE t == e[q]
<1>9. t \in 0..Len(S) /\ Handed(S, p, r, t, decBuf, lz4)
  <2> HIDE DEF n
  <2> QED BY <1>4, <1>6, <1>8
<1> HIDE DEF t
<1>10. /\ p \in Nat /\ r \in Nat /\ t \in Nat /\ t <= Len(S) /\ p = r
       /\ lz4 = <<>> => r = t
       /\ r <= t /\ lz4 = Part(S, r, t)
  <2>1. r <= t /\ lz4 = Part(S, r, t)
    BY <1>9 DEF Handed
  <2>2. /\ p \in Nat /\ r \in Nat /\ t \in Nat /\ t <= Len(S)
        /\ decBuf = <<>> => p = r
        /\ lz4 = <<>> => r = t
    <3> HIDE DEF cell, isMark, fresh, l, n
    <3>1. p \in Nat /\ r \in Nat
      BY <1>5, <1>9, HandedFacts
    <3>2. t \in Nat /\ t <= Len(S)
      BY <1>5, <1>9, HandedFacts
    <3>3. decBuf = <<>> => p = r
      BY <1>5, <1>9, HandedEmpty
    <3>4. lz4 = <<>> => r = t
      BY <1>5, <1>9, HandedEmpty
    <3> QED BY <3>1, <3>2, <3>3, <3>4
  <2>3. decBuf = <<>>
    BY <1>1
  <2> QED BY <2>1, <2>2, <2>3
<1> HIDE DEF n
<1>11. \E x \in 0..n :
         /\ e[x] \in 0..Len(S) /\ r <= e[x] /\ fresh = Part(S, r, e[x])
         /\ Window(file, n, x, at, compBuf')
         /\ frameDone' <=> (x = n)
  <2>1. CASE lz4 # <<>>
    <3>1. fresh = Part(S, r, t) /\ compBuf' = compBuf /\ frameDone' = FALSE
      BY <1>1, <1>10, <2>1
    <3>2. q # n
      BY <1>8
    <3> HIDE DEF fresh
    <3> QED BY <1>4, <1>8, <1>9, <1>10, <3>1, <3>2 DEF t
  <2>2. CASE lz4 = <<>>
    <3> DEFINE x == q + 1
               u == e[x]
               c == file[x]
    <3>1. Head(compBuf) = c /\ compBuf' = Tail(compBuf) /\ Window(file, n, x, at, compBuf')
      BY <1>1, <1>7, <2>2
    <3>2. u \in 0..Len(S) /\ r = t
      BY <1>6, <1>8, <1>10, <2>2
    <3>3. \/ x < n /\ c = Header /\ u = t
          \/ x = n /\ c = EndMark /\ u = t
          \/ x < n /\ t < u /\ c = Block(Part(S, t, u))
      <4>1. x \in 1..n /\ x - 1 = q
        BY <1>8
      <4>2. e[x - 1] = t
        BY <4>1 DEF t
      <4> HIDE DEF x
      <4> QED BY <1>6, <4>1, <4>2
    <3>4. Part(S, r, r) = <<>>
      <4>1. r <= Len(S) /\ r <= r
        BY <1>5, <1>10
      <4> QED BY <1>5, <1>10, <4>1, PartEmpty
    <3> HIDE DEF c, u, x
    <3>9. /\ frameDone' = (c[2] # -9 /\ c[2] = -8)
          /\ fresh = IF c[2] # -9 THEN <<>> ELSE c[1]
      <4>1. Head(compBuf)[2] = c[2] /\ Head(compBuf)[1] = c[1]
        BY <3>1
      <4>2. fresh = IF Head(compBuf)[2] # -9 THEN <<>> ELSE Head(compBuf)[1]
        BY <2>2
      <4>3. frameDone' = (Head(compBuf)[2] # -9 /\ Head(compBuf)[2] = -8)
        BY <1>1, <2>2
      <4> QED BY <4>1, <4>2, <4>3
    <3>5. /\ c[2] = -7 => fresh = <<>> /\ frameDone' = FALSE
          /\ c[2] = -8 => fresh = <<>> /\ frameDone' = TRUE
          /\ c[2] = -9 => fresh = c[1] /\ frameDone' = FALSE
      <4> HIDE DEF isMark, fresh
      <4> DEFINE mark == c[2]
      <4>1. /\ frameDone' = (mark # -9 /\ mark = -8)
            /\ fresh = IF mark # -9 THEN <<>> ELSE c[1]
        BY <3>9
      <4> HIDE DEF mark
      <4>2. mark = -7 => mark # -9 /\ mark # -8
        OBVIOUS
      <4>3. mark = -8 => mark # -9
        OBVIOUS
      <4>4. mark = -7 => fresh = <<>> /\ frameDone' = FALSE
        BY <4>1, <4>2, Zenon
      <4>5. mark = -8 => fresh = <<>> /\ frameDone' = TRUE
        BY <4>1, <4>3, Zenon
      <4>6. mark = -9 => fresh = c[1] /\ frameDone' = FALSE
        BY <4>1, Zenon
      <4> QED BY <4>4, <4>5, <4>6 DEF mark
    <3> HIDE DEF isMark, fresh
    <3>6. CASE x < n /\ c = Header /\ u = t
      <4>1. c[2] = -7 /\ x # n
        BY <1>6, <1>8, <3>6 DEF Header, x
      <4>2. frameDone' = FALSE /\ fresh = <<>>
        BY <3>5, <4>1
      <4>3. u = r /\ r <= u
        BY <1>10, <3>2, <3>6
      <4>4. fresh = Part(S, r, u)
        BY <3>4, <4>2, <4>3
      <4> QED BY <1>8, <3>1, <3>2, <4>1, <4>2, <4>3, <4>4 DEF u, x
    <3>7. CASE x = n /\ c = EndMark /\ u = t
      <4>1. c[2] = -8
        BY <3>7 DEF EndMark
      <4>2. frameDone' = TRUE /\ fresh = <<>>
        BY <3>5, <4>1
      <4>3. u = r /\ r <= u
        BY <1>10, <3>2, <3>7
      <4>4. fresh = Part(S, r, u)
        BY <3>4, <4>2, <4>3
      <4> QED BY <1>8, <3>1, <3>2, <3>7, <4>2, <4>3, <4>4 DEF u, x
    <3>8. CASE x < n /\ t < u /\ c = Block(Part(S, t, u))
      <4>1. c[2] = -9 /\ c[1] = Part(S, t, u) /\ x # n
        BY <1>6, <1>8, <3>8 DEF Block, x
      <4>2. frameDone' = FALSE /\ fresh = Part(S, t, u)
        BY <3>5, <4>1
      <4>3. r <= u
        <5>1. u \in Nat /\ t < u
          BY <1>5, <3>2, <3>8
        <5> QED BY <1>10, <5>1
      <4>4. fresh = Part(S, r, u)
        BY <3>2, <4>2
      <4> QED BY <1>8, <3>1, <3>2, <4>1, <4>2, <4>3, <4>4 DEF u, x
    <3> QED BY <3>3, <3>6, <3>7, <3>8
  <2> QED BY <2>1, <2>2
<1>12. PICK x \in 0..n :
         /\ e[x] \in 0..Len(S) /\ r <= e[x] /\ fresh = Part(S, r, e[x])
         /\ Window(file, n, x, at, compBuf')
         /\ frameDone' <=> (x = n)
  BY <1>11
<1> HIDE DEF fresh
<1> DEFINE u == e[x]
<1>13. u \in 0..Len(S) /\ r <= u /\ fresh = Part(S, r, u)
  BY <1>12
<1> HIDE DEF u
<1>14. \E y : Handed(S, r, y, u, decBuf', lz4')
  BY <1>1, <1>5, <1>10, <1>13, HandedMore
<1>15. FrameState'
  BY <1>1, <1>4, <1>10, <1>12, <1>14 DEF FrameState, u, n
<1>16. ReadState'
  BY <1>1, <1>2, <1>15 DEF ReadState, Compressed
<1> QED BY <1>1, <1>2, <1>16 DEF ReadInv

(* What a digit does to the decoder.                                       *)
LEMMA DigitTaken ==
  ASSUME FileInv, ReadState, TakeDigit \/ TakeLastDigit,
         NEW S, NEW v, NEW Z, NEW pos,
         Decoder(S, v, Z, written, pos, out, firstField, prev, value, weight),
         ByteOf(Head(Source)) = S[pos + 1]
  PROVE  Decoder(S, v, Z, written, pos + 1, out', firstField', prev', value', weight')
<1> DEFINE byte == S[pos + 1]
           zz == Wrap(value + byte * weight)
           field == Len(firstField) + 1
           sum == Wrap(prev[field] + ZZDec(zz))
           new == [prev EXCEPT ![field] = sum]
<1>1. written \in Seq(Word \X Word)
  BY WrittenWords
<1>2. Len(out) < Len(written)
  <2>1. trailer.count - Len(out) > 0 /\ trailer.count = Len(written)
    BY DEF TakeDigit, TakeLastDigit, Reading, Remaining, ReadState
  <2>2. Len(written) \in Nat /\ Len(out) \in Nat
    BY <1>1, DecoderFacts
  <2> QED BY <2>1, <2>2
<1>3. /\ byte >= Base =>
           Decoder(S, v, Z, written, pos + 1, out, firstField, prev,
                   Wrap(value + (byte - Base) * weight), weight * Base)
      /\ byte < Base /\ firstField = <<>> =>
           Decoder(S, v, Z, written, pos + 1, out, <<sum>>, new, 0, 1)
      /\ byte < Base /\ firstField # <<>> =>
           Decoder(S, v, Z, written, pos + 1, Append(out, Append(firstField, sum)), <<>>, new, 0, 1)
  BY <1>1, <1>2, DecoderDigit
<1>4. CASE TakeDigit
  <2>1. /\ byte >= Base
        /\ value' = Wrap(value + (byte - Base) * weight) /\ weight' = weight * Base
        /\ out' = out /\ firstField' = firstField /\ prev' = prev
    BY <1>4 DEF TakeDigit, WithDigit
  <2> HIDE DEF byte
  <2> QED BY <1>3, <2>1
<1>5. CASE TakeLastDigit
  <2>1. /\ byte < Base
        /\ prev' = new /\ value' = 0 /\ weight' = 1
        /\ firstField = <<>> => firstField' = <<sum>> /\ out' = out
        /\ firstField # <<>> => firstField' = <<>> /\ out' = Append(out, Append(firstField, sum))
    BY <1>5 DEF TakeLastDigit, WithDigit, NoField
  <2> HIDE DEF byte, sum, new
  <2> QED BY <1>3, <2>1
<1> QED BY <1>4, <1>5

(* The byte at hand of a file of digits.                                   *)
LEMMA NextByte ==
  ASSUME FileInv, BytesState, format = "blfz", compBuf # <<>>
  PROVE  \E S, v, Z, g :
           /\ Decoder(S, v, Z, written, g, out, firstField, prev, value, weight)
           /\ Len(file) = Len(S) + 4 /\ \A i \in 1..Len(S) : file[i] = Byte(S[i])
           /\ Window(file, Len(file) - 4, g + 1, at, Tail(compBuf))
           /\ decBuf = <<>> /\ lz4 = <<>>
           /\ ByteOf(Head(Source)) = S[g + 1]
<1> DEFINE n == Len(file) - 4
<1>1. PICK S, v, Z, g :
        /\ Decoder(S, v, Z, written, g, out, firstField, prev, value, weight)
        /\ Len(file) = Len(S) + 4 /\ \A i \in 1..Len(S) : file[i] = Byte(S[i])
        /\ Window(file, n, g, at, compBuf)
        /\ decBuf = <<>> /\ lz4 = <<>>
  BY DEF BytesState
<1>2. S \in Seq(Bytes) /\ Len(S) \in Nat
  <2>1. S \in Seq(Bytes)
    BY <1>1 DEF Decoder, Encodes, Digits
  <2> QED BY <2>1, LenProperties
<1>3. file \in Seq(CellSet) /\ n \in Nat /\ n <= Len(file) /\ n = Len(S)
  <2>1. file \in Seq(CellSet) /\ Len(file) = Len(S) + 4
    BY <1>1, WrittenWords
  <2> QED BY <1>2, <2>1
<1> HIDE DEF n
<1>4. g < at /\ Head(compBuf) = file[g + 1] /\ Window(file, n, g + 1, at, Tail(compBuf))
  BY <1>1, <1>3, WindowTake
<1>5. g + 1 \in 1..Len(S)
  <2>1. g \in Nat /\ at \in Nat /\ at <= n
    BY <1>1, <1>3, WindowFacts
  <2> QED BY <1>2, <1>3, <1>4, <2>1
<1>6. S[g + 1] \in Bytes
  BY <1>2, <1>5, ElementOfSeq
<1>7. S[g + 1] \in Int
  BY <1>6, Numbers DEF Bytes
<1>8. Head(compBuf) = Byte(S[g + 1])
  BY <1>1, <1>4, <1>5
<1>9. ByteOf(Head(Source)) = S[g + 1]
  <2>1. Head(Source) = <<-1 - S[g + 1], -9>>
    BY <1>8 DEF Source, Byte
  <2> DEFINE b == S[g + 1]
             c == Head(Source)
  <2>2. c[1] = -1 - b
    BY <2>1
  <2>3. b \in Int
    BY <1>7
  <2>4. ByteOf(c) = -1 - c[1]
    BY DEF ByteOf
  <2> HIDE DEF b, c
  <2>5. ByteOf(c) = b
    BY <2>2, <2>3, <2>4
  <2> QED BY <2>5 DEF b, c
<1> QED BY <1>1, <1>4, <1>9 DEF n

(* The byte at hand of an LZ4 file.                                        *)
LEMMA NextDecodedByte ==
  ASSUME FrameState, format = "blfzl", decBuf # <<>>
  PROVE  \E S, v, Z, e, q, p, r :
           /\ Decoder(S, v, Z, written, p, out, firstField, prev, value, weight)
           /\ Frame(S, e, file, Len(file) - 4)
           /\ Window(file, Len(file) - 4, q, at, compBuf)
           /\ Handed(S, p + 1, r, e[q], Tail(decBuf), lz4)
           /\ frameDone <=> (q = Len(file) - 4)
           /\ ByteOf(Head(Source)) = S[p + 1]
<1> DEFINE n == Len(file) - 4
<1>1. PICK S, v, Z, e, q, p, r :
        /\ Decoder(S, v, Z, written, p, out, firstField, prev, value, weight)
        /\ Frame(S, e, file, n)
        /\ Window(file, n, q, at, compBuf)
        /\ Handed(S, p, r, e[q], decBuf, lz4)
        /\ frameDone <=> (q = n)
  BY DEF FrameState
<1> HIDE DEF n
<1>2. S \in Seq(Bytes)
  BY <1>1 DEF Decoder, Encodes, Digits
<1>3. Head(decBuf) = S[p + 1] /\ Handed(S, p + 1, r, e[q], Tail(decBuf), lz4)
  BY <1>1, <1>2, HandedFacts
<1>4. ByteOf(Head(Source)) = S[p + 1]
  BY <1>3 DEF ByteOf, Source
<1> QED BY <1>1, <1>3, <1>4 DEF n

(* A digit of a varint is taken.                                           *)
LEMMA DigitRead ==
  ASSUME ReadInv, TakeDigit \/ TakeLastDigit
  PROVE  ReadInv'
<1>1. /\ phase = "read" /\ Compressed /\ Source # <<>>
      /\ format = "blfz" => compBuf' = Tail(compBuf) /\ decBuf' = decBuf
      /\ format # "blfz" => decBuf' = Tail(decBuf) /\ compBuf' = compBuf
      /\ format' = format /\ phase' = phase /\ written' = written /\ varBuf' = varBuf
      /\ lz4' = lz4 /\ file' = file /\ trailer' = trailer /\ at' = at /\ frameDone' = frameDone
  BY DEF TakeDigit, TakeLastDigit, Reading, writerVars
<1>2. FileInv /\ FileInv' /\ ReadState
  BY <1>1, FileStep DEF ReadInv, Next, Reader
<1>3. format \in {"blfz", "blfzl"}
  BY <1>1, <1>2 DEF FileInv, Compressed, Formats
<1>4. CASE format = "blfz"
  <2>1. PICK S, v, Z, g :
          /\ Decoder(S, v, Z, written, g, out, firstField, prev, value, weight)
          /\ Len(file) = Len(S) + 4 /\ \A i \in 1..Len(S) : file[i] = Byte(S[i])
          /\ Window(file, Len(file) - 4, g + 1, at, Tail(compBuf))
          /\ decBuf = <<>> /\ lz4 = <<>>
          /\ ByteOf(Head(Source)) = S[g + 1]
    <3>1. BytesState /\ compBuf # <<>>
      BY <1>1, <1>2, <1>4 DEF ReadState, Source
    <3> QED BY <1>2, <1>4, <3>1, NextByte
  <2>2. Decoder(S, v, Z, written, g + 1, out', firstField', prev', value', weight')
    BY <1>2, <2>1, DigitTaken
  <2> DEFINE n == Len(file) - 4
             h == g + 1
  <2>3. /\ Decoder(S, v, Z, written', h, out', firstField', prev', value', weight')
        /\ Len(file') = Len(S) + 4 /\ \A i \in 1..Len(S) : file'[i] = Byte(S[i])
        /\ Window(file', Len(file') - 4, h, at', compBuf')
        /\ decBuf' = <<>> /\ lz4' = <<>>
    BY <1>1, <1>4, <2>1, <2>2
  <2> HIDE DEF n, h
  <2>4. BytesState'
    BY <2>3 DEF BytesState
  <2>5. ReadState' /\ phase' = "read"
    BY <1>1, <1>2, <1>4, <2>4 DEF ReadState, Compressed
  <2> QED BY <1>2, <2>5 DEF ReadInv
<1>5. CASE format = "blfzl"
  <2>1. PICK S, v, Z, e, q, p, r :
          /\ Decoder(S, v, Z, written, p, out, firstField, prev, value, weight)
          /\ Frame(S, e, file, Len(file) - 4)
          /\ Window(file, Len(file) - 4, q, at, compBuf)
          /\ Handed(S, p + 1, r, e[q], Tail(decBuf), lz4)
          /\ frameDone <=> (q = Len(file) - 4)
          /\ ByteOf(Head(Source)) = S[p + 1]
    <3>1. FrameState /\ decBuf # <<>>
      BY <1>1, <1>2, <1>5 DEF ReadState, Source
    <3> QED BY <1>5, <3>1, NextDecodedByte
  <2>2. Decoder(S, v, Z, written, p + 1, out', firstField', prev', value', weight')
    BY <1>2, <2>1, DigitTaken
  <2> DEFINE h == p + 1
  <2>3. /\ Decoder(S, v, Z, written', h, out', firstField', prev', value', weight')
        /\ Frame(S, e, file', Len(file') - 4)
        /\ Window(file', Len(file') - 4, q, at', compBuf')
        /\ Handed(S, h, r, e[q], decBuf', lz4')
        /\ frameDone' <=> (q = Len(file') - 4)
    BY <1>1, <1>5, <2>1, <2>2
  <2> HIDE DEF h
  <2>4. FrameState'
    BY <2>3, Zenon DEF FrameState
  <2>5. ReadState' /\ phase' = "read"
    BY <1>1, <1>2, <1>5, <2>4 DEF ReadState, Compressed
  <2> QED BY <1>2, <2>5 DEF ReadInv
<1> QED BY <1>3, <1>4, <1>5

(* Every step keeps ReadInv.                                               *)
LEMMA ReadInvStep ==
  ASSUME ReadInv, [Next]_vars
  PROVE  ReadInv'
<1>1. CASE Writer \/ Refuse
  BY <1>1, WriterRead
<1>2. CASE BLFOpen
  BY <1>2, OpenRead
<1>3. CASE ReadPlain
  BY <1>3, PlainRead
<1>4. CASE RefillVarInts \/ RefillFrame
  BY <1>4, RefillRead
<1>5. CASE Decompress
  BY <1>5, DecompressRead
<1>6. CASE TakeDigit \/ TakeLastDigit
  BY <1>6, DigitRead
<1>7. CASE UNCHANGED vars
  <2>1. FileInv'
    BY <1>7, FileStep DEF ReadInv
  <2>2. /\ format' = format /\ phase' = phase /\ written' = written /\ varBuf' = varBuf /\ prev' = prev
        /\ lz4' = lz4 /\ file' = file /\ trailer' = trailer /\ at' = at /\ compBuf' = compBuf
        /\ decBuf' = decBuf /\ frameDone' = frameDone /\ value' = value /\ weight' = weight
        /\ firstField' = firstField /\ out' = out
    BY <1>7 DEF vars, writerVars, readerVars
  <2>3. Idle' = Idle
    BY <2>2 DEF Idle
  <2>4. ReadState' = ReadState
    BY <2>2 DEF ReadState, PlainState, BytesState, FrameState, Compressed
  <2> QED BY <2>1, <2>2, <2>3, <2>4 DEF ReadInv
<1> QED BY <1>1, <1>2, <1>3, <1>4, <1>5, <1>6, <1>7 DEF Next, Reader, BLFClose

-----------------------------------------------------------------------------
(* The invariants.                                                         *)

(* What the decoder says of the types and of what it delivered.            *)
LEMMA DecoderTypes ==
  ASSUME NEW recs \in Seq(Word \X Word), NEW S, NEW v, NEW Z, NEW pos, NEW o, NEW ff, NEW pv,
         NEW val, NEW wt, Decoder(S, v, Z, recs, pos, o, ff, pv, val, wt)
  PROVE  /\ o \in Seq(Word \X Word) /\ pv \in Word \X Word /\ val \in Word /\ wt \in Word
         /\ o = Part(recs, 0, Len(o)) /\ pos \in 0..Len(S)
         /\ Len(o) < Len(recs) => pos < Len(S)
<1>1. Delivered(recs, o, ff, pv) /\ Decoded(S, v, Z, pos, 2 * Len(o) + Len(ff), val, wt)
  BY DEF Decoder
<1>2. o \in Seq(Word \X Word) /\ pv \in Word \X Word /\ o = Part(recs, 0, Len(o))
  BY <1>1 DEF Delivered
<1>3. val \in Word /\ wt \in Word /\ pos \in 0..Len(S)
  BY <1>1 DEF Decoded
<1>4. Len(o) < Len(recs) => pos < Len(S)
  BY DecoderDigit
<1> QED BY <1>2, <1>3, <1>4

(* The reader's variables while it reads.                                  *)
LEMMA TypesOfRead ==
  ASSUME ReadInv, phase = "read"
  PROVE  /\ prev \in Word \X Word /\ value \in Word /\ weight \in Word
         /\ Len(compBuf) <= ReadBufSize /\ Len(decBuf) <= ReadBufSize
         /\ out \in Seq(Word \X Word) /\ out = Part(written, 0, Len(out))
<1>1. FileInv /\ ReadState
  BY DEF ReadInv
<1>2. written \in Seq(Word \X Word) /\ format \in {"blf", "blfz", "blfzl"} /\ file \in Seq(CellSet)
  BY <1>1, WrittenWords DEF FileInv, Formats
<1>3. Len(<<>>) <= ReadBufSize /\ Zero \in Word \X Word /\ 0 \in Word /\ 1 \in Word
  <2>1. Half \in Nat /\ Half > 0 /\ ReadBufSize \in Nat
    BY Numbers
  <2>2. 0 \in Word /\ 1 \in Word
    BY <2>1 DEF Word
  <2> QED BY <2>1, <2>2 DEF Zero
<1>4. CASE format = "blf"
  <2>1. PlainState
    BY <1>1, <1>4 DEF ReadState
  <2> QED BY <1>3, <2>1 DEF PlainState
<1>5. CASE format = "blfz"
  <2>1. PICK S, v, Z, g :
          /\ Decoder(S, v, Z, written, g, out, firstField, prev, value, weight)
          /\ Len(file) = Len(S) + 4
          /\ Window(file, Len(file) - 4, g, at, compBuf)
          /\ decBuf = <<>>
    BY <1>1, <1>5 DEF ReadState, BytesState
  <2>2. Len(file) - 4 \in Nat
    <3>1. S \in Seq(Bytes)
      BY <2>1 DEF Decoder, Encodes, Digits
    <3>2. Len(S) \in Nat
      BY <3>1, LenProperties
    <3> QED BY <2>1, <3>2
  <2>3. Len(compBuf) <= ReadBufSize
    <3> DEFINE n == Len(file) - 4
    <3>1. n \in Nat /\ Window(file, n, g, at, compBuf)
      BY <2>1, <2>2
    <3> HIDE DEF n
    <3> QED BY <3>1, WindowFacts
  <2> QED BY <1>2, <1>3, <2>1, <2>3, DecoderTypes
<1>6. CASE format = "blfzl"
  <2>1. PICK S, v, Z, e, q, p, r :
          /\ Decoder(S, v, Z, written, p, out, firstField, prev, value, weight)
          /\ Frame(S, e, file, Len(file) - 4)
          /\ Window(file, Len(file) - 4, q, at, compBuf)
          /\ Handed(S, p, r, e[q], decBuf, lz4)
    BY <1>1, <1>6 DEF ReadState, FrameState
  <2>3. Len(compBuf) <= ReadBufSize
    <3> DEFINE n == Len(file) - 4
    <3>1. n \in Nat /\ Window(file, n, q, at, compBuf)
      BY <2>1 DEF Frame
    <3> HIDE DEF n
    <3> QED BY <3>1, WindowFacts
  <2>4. Len(decBuf) <= ReadBufSize
    <3>1. S \in Seq(Bytes)
      BY <2>1 DEF Decoder, Encodes, Digits
    <3> QED BY <2>1, <3>1, HandedFacts
  <2> QED BY <1>2, <2>1, <2>3, <2>4, DecoderTypes
<1> QED BY <1>2, <1>4, <1>5, <1>6

(* The buffers between the writer and the stream, and the last record.     *)
LEMMA WriterTypes ==
  ASSUME ReadInv
  PROVE  /\ Len(varBuf) <= VarBufSize /\ varBuf \in Seq(Bytes)
         /\ phase # "read" => prev \in Word \X Word
<1>1. FileInv /\ phase \in {"write", "cut", "closed", "read", "mistaken", "refused"}
  BY DEF ReadInv, FileInv
<1>2. written \in Seq(Word \X Word) /\ Len(written) \in Nat
  BY <1>1, WrittenWords
<1>3. Zero \in Word \X Word /\ Len(<<>>) <= VarBufSize /\ <<>> \in Seq(Bytes)
  <2>1. Half \in Nat /\ Half > 0 /\ VarBufSize \in Nat
    BY Numbers
  <2>2. 0 \in Word
    BY <2>1 DEF Word
  <2> QED BY <2>1, <2>2 DEF Zero
<1>4. CASE phase = "write"
  <2>1. WriteState
    BY <1>1, <1>4 DEF FileInv
  <2>2. Before(written, Len(written) + 1) \in Word \X Word
    <3>1. CASE Len(written) = 0
      <4>1. Len(written) + 1 = 1
        BY <3>1
      <4> QED BY <1>3, <4>1 DEF Before
    <3>2. CASE Len(written) # 0
      <4>1. (Len(written) + 1) - 1 = Len(written) /\ Len(written) + 1 # 1 /\ Len(written) \in 1..Len(written)
        BY <1>2, <3>2
      <4>2. written[Len(written)] \in Word \X Word
        BY <1>2, <4>1, ElementOfSeq
      <4> QED BY <4>1, <4>2 DEF Before
    <3> QED BY <3>1, <3>2
  <2> QED BY <1>3, <2>1, <2>2 DEF WriteState
<1>5. CASE phase = "read"
  BY <1>3, <1>5 DEF ReadInv, ReadState
<1>6. CASE phase \in {"closed", "cut", "refused", "mistaken"}
  BY <1>3, <1>6 DEF ReadInv
<1> QED BY <1>1, <1>4, <1>5, <1>6

(* The invariant TypeOK.                                                   *)
LEMMA ReadInvTypes == ReadInv => TypeOK
<1> SUFFICES ASSUME ReadInv PROVE TypeOK
  OBVIOUS
<1>1. format \in Formats /\ phase \in {"write", "cut", "closed", "read", "mistaken", "refused", "fatal"}
  BY DEF ReadInv, FileInv
<1>2. Len(varBuf) <= VarBufSize /\ \A i \in DOMAIN varBuf : varBuf[i] \in 0..2 * Base - 1
  <2>1. Len(varBuf) <= VarBufSize /\ varBuf \in Seq(Bytes)
    BY WriterTypes
  <2>2. \A i \in DOMAIN varBuf : varBuf[i] \in Bytes
    BY <2>1
  <2> QED BY <2>1, <2>2 DEF Bytes
<1>3. prev \in Word \X Word
  BY WriterTypes, TypesOfRead
<1>4. /\ Len(compBuf) <= ReadBufSize /\ Len(decBuf) <= ReadBufSize
      /\ value \in Word /\ weight \in Word /\ out \in Seq(Word \X Word)
  <2>1. CASE phase = "read"
    BY <2>1, TypesOfRead
  <2>2. CASE phase # "read"
    <3>1. Half \in Nat /\ Half > 0 /\ ReadBufSize \in Nat
      BY Numbers
    <3>2. 0 \in Word /\ 1 \in Word
      BY <3>1 DEF Word
    <3>3. compBuf = <<>> /\ decBuf = <<>> /\ value = 0 /\ weight = 1 /\ out = <<>>
      BY <2>2 DEF ReadInv, Idle
    <3> QED BY <3>1, <3>2, <3>3
  <2> QED BY <2>1, <2>2
<1>5. \A i \in DOMAIN out : out[i] \in Word \X Word
  BY <1>4
<1> QED BY <1>1, <1>2, <1>3, <1>4, <1>5 DEF TypeOK

(* While a record is owed there is more to read.                           *)
LEMMA NeverDry ==
  ASSUME ReadInv, phase = "read", Remaining > 0, Compressed
  PROVE  Source # <<>> \/ lz4 # <<>> \/ Consumed < trailer.size
<1>1. FileInv /\ ReadState /\ trailer.count = Len(written) /\ trailer.size = Len(file) - 4
  BY DEF ReadInv, ReadState
<1>2. written \in Seq(Word \X Word) /\ Len(written) \in Nat /\ format \in {"blf", "blfz", "blfzl"} /\ file \in Seq(CellSet)
  BY <1>1, WrittenWords DEF FileInv, Formats
<1>3. out \in Seq(Word \X Word)
  BY TypesOfRead
<1>4. Len(out) < Len(written)
  <2>1. Len(out) \in Nat /\ Len(written) - Len(out) > 0
    BY <1>1, <1>3, LenProperties DEF Remaining
  <2> QED BY <1>2, <2>1
<1> DEFINE n == Len(file) - 4
<1>5. CASE format = "blfz"
  <2>1. PICK S, v, Z, g :
          /\ Decoder(S, v, Z, written, g, out, firstField, prev, value, weight)
          /\ Len(file) = Len(S) + 4
          /\ Window(file, n, g, at, compBuf)
    BY <1>1, <1>5 DEF ReadState, BytesState
  <2>2. S \in Seq(Bytes) /\ Len(S) \in Nat
    <3>1. S \in Seq(Bytes)
      BY <2>1 DEF Decoder, Encodes, Digits
    <3> QED BY <3>1, LenProperties
  <2>3. n = Len(S) /\ n \in Nat
    BY <2>1, <2>2
  <2>4. g < Len(S)
    BY <1>2, <1>4, <2>1, DecoderTypes
  <2>5. at - Len(compBuf) = g
    <3> HIDE DEF n
    <3> QED BY <2>1, <2>3, WindowFacts
  <2>6. Consumed < trailer.size
    BY <1>1, <2>3, <2>4, <2>5 DEF Consumed
  <2> QED BY <2>6
<1>6. CASE format = "blfzl"
  <2>1. PICK S, v, Z, e, q, p, r :
          /\ Decoder(S, v, Z, written, p, out, firstField, prev, value, weight)
          /\ Frame(S, e, file, n)
          /\ Window(file, n, q, at, compBuf)
          /\ Handed(S, p, r, e[q], decBuf, lz4)
    BY <1>1, <1>6 DEF ReadState, FrameState
  <2>2. S \in Seq(Bytes) /\ Len(S) \in Nat
    <3>1. S \in Seq(Bytes)
      BY <2>1 DEF Decoder, Encodes, Digits
    <3> QED BY <3>1, LenProperties
  <2>3. p < Len(S)
    BY <1>2, <1>4, <2>1, DecoderTypes
  <2>4. ASSUME decBuf = <<>>, lz4 = <<>> PROVE Consumed < trailer.size
    <3>1. p = r /\ r = e[q]
      BY <2>1, <2>2, <2>4, HandedEmpty
    <3>2. e[n] = Len(S) /\ n \in Nat
      BY <2>1 DEF Frame
    <3>3. q # n
      <4>1. e[q] # Len(S)
        <5>1. p = e[q]
          BY <3>1
        <5>2. p # Len(S)
          <6>1. p \in Nat
            BY <2>1 DEF Handed
          <6> QED BY <2>2, <2>3, <6>1
        <5> QED BY <5>1, <5>2
      <4> QED BY <3>2, <4>1
    <3>6. Window(file, n, q, at, compBuf) /\ n \in Nat
      BY <2>1, <3>2
    <3> HIDE DEF n
    <3>4. /\ q \in Nat /\ at \in Nat /\ q <= at /\ at <= n
          /\ at - Len(compBuf) = q
      BY <3>6, WindowFacts
    <3>5. q < n
      BY <3>2, <3>3, <3>4
    <3> QED BY <1>1, <3>4, <3>5 DEF Consumed, n
  <2>5. Source = decBuf
    BY <1>6 DEF Source
  <2> QED BY <2>4, <2>5
<1> QED BY <1>2, <1>5, <1>6 DEF Compressed

(* The invariant ReadsBack.                                                *)
LEMMA ReadInvReadsBack == ReadInv => ReadsBack
<1> SUFFICES ASSUME ReadInv PROVE ReadsBack
  OBVIOUS
<1>1. out = SubSeq(written, 1, Len(out))
  <2>1. CASE phase = "read"
    <3>1. out = Part(written, 0, Len(out))
      BY <2>1, TypesOfRead
    <3> QED BY <3>1, PartFromStart
  <2>2. CASE phase # "read"
    <3>1. out = <<>>
      BY <2>2 DEF ReadInv, Idle
    <3>2. Len(out) = 0
      BY <3>1
    <3> QED BY <3>1, <3>2, SubSeqEmpty
  <2> QED BY <2>1, <2>2
<1>2. phase # "fatal"
  BY DEF ReadInv
<1>3. phase = "read" => trailer.count = Len(written)
  BY DEF ReadInv, ReadState
<1> QED BY <1>1, <1>2, <1>3, NeverDry DEF ReadsBack

(* Values keep to their width, no digit of a varint is shifted by the      *)
(* width or more, and the writer's buffer never holds more than its size   *)
(* when BLFWriterRecord appends two varints unchecked.                     *)
THEOREM FileTypes == Spec => []TypeOK
<1>1. Init => ReadInv
  BY ReadInit
<1>2. ReadInv /\ [Next]_vars => ReadInv'
  BY ReadInvStep
<1>3. ReadInv => TypeOK
  BY ReadInvTypes
<1> QED BY <1>1, <1>2, <1>3, PTL DEF Spec

(* What BLFRead delivers is what was written, in its order, in the three   *)
(* formats, for all buffer sizes and all places where the encoder ends a   *)
(* block; the reader never runs dry before the last record and never meets *)
(* the fatal end of an LZ4 body.                                           *)
THEOREM RecordsReadBack == Spec => []ReadsBack
<1>1. Init => ReadInv
  BY ReadInit
<1>2. ReadInv /\ [Next]_vars => ReadInv'
  BY ReadInvStep
<1>3. ReadInv => ReadsBack
  BY ReadInvReadsBack
<1> QED BY <1>1, <1>2, <1>3, PTL DEF Spec
=============================================================================
