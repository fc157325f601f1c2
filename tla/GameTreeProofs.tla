--------------------------- MODULE GameTreeProofs ---------------------------
(***************************************************************************)
(* The rules, the symmetries and the walk over the positions, for every    *)
(* board size, opening and number of symmetries. A word is the set of its  *)
(* bits, a bit is 8 * i + j, a cell has the row 7 - i and the column       *)
(* 7 - j: each trick on words is first shown to be a map of cells, then    *)
(* the cells are reasoned about.                                           *)
(***************************************************************************)
EXTENDS GameTree, SumProofs, SequenceTheorems

-----------------------------------------------------------------------------
(* The permutations behind the word tricks: bits as cells of the grid.      *)

(* Row and column of the bit 8 * i + j.                                     *)
LEMMA CellNumbers ==
  ASSUME NEW i \in 0..7, NEW j \in 0..7
  PROVE  /\ 8 * i + j \in Bits
         /\ (8 * i + j) \div 8 = i
         /\ (8 * i + j) % 8 = j
         /\ RowOf(8 * i + j) = 7 - i
         /\ ColOf(8 * i + j) = 7 - j
         /\ CellBit(7 - i, 7 - j) = 8 * i + j
<1>1. 8 * i + j \in Bits /\ (8 * i + j) \div 8 = i /\ (8 * i + j) % 8 = j
  BY DEF Bits
<1>2. 63 - (8 * i + j) = 8 * (7 - i) + (7 - j)
  OBVIOUS
<1>3. 7 - i \in 0..7 /\ 7 - j \in 0..7
  OBVIOUS
<1>4. (63 - (8 * i + j)) \div 8 = 7 - i /\ (63 - (8 * i + j)) % 8 = 7 - j
  BY <1>2, <1>3
<1> QED BY <1>1, <1>4 DEF RowOf, ColOf, CellBit

(* Every bit is 8 * i + j for a byte i and a place j in it.                 *)
LEMMA CellOfBit ==
  ASSUME NEW b \in Bits
  PROVE  \E i, j \in 0..7 : b = 8 * i + j
<1>1. b \div 8 \in 0..7 /\ b % 8 \in 0..7 /\ b = 8 * (b \div 8) + (b % 8)
  BY DEF Bits
<1> QED BY <1>1

(* A byte mask holds the bits whose byte and whose place it names.          *)
LEMMA InByteMask ==
  ASSUME NEW B \in SUBSET (0..7), NEW J \in SUBSET (0..7), NEW i \in 0..7, NEW j \in 0..7
  PROVE  8 * i + j \in ByteMask(B, J) <=> i \in B /\ j \in J
<1>1. \A k, l \in 0..7 : 8 * i + j = 8 * k + l => i = k /\ j = l
  OBVIOUS
<1> QED BY <1>1 DEF ByteMask

(* The masks of the diagonal flip. *)
LEMMA InMasks ==
  ASSUME NEW i \in 0..7, NEW j \in 0..7
  PROVE  /\ 8 * i + j \in ByteMask(4..7, 0..3) <=> i >= 4 /\ j < 4
         /\ 8 * i + j \in ByteMask({2, 3, 6, 7}, {0, 1, 4, 5}) <=> i \in {2, 3, 6, 7} /\ j \in {0, 1, 4, 5}
         /\ 8 * i + j \in ByteMask({1, 3, 5, 7}, {0, 2, 4, 6}) <=> i \in {1, 3, 5, 7} /\ j \in {0, 2, 4, 6}
  BY InByteMask

(* The first exchange of the diagonal flip, on cells.                       *)
LEMMA HighExchange ==
  ASSUME NEW i \in 0..7, NEW j \in 0..7
  PROVE  Exchange(ByteMask(4..7, 0..3), 28)[8 * i + j] =
           IF i >= 4 /\ j < 4 THEN 8 * (i - 4) + (j + 4)
           ELSE IF i < 4 /\ j >= 4 THEN 8 * (i + 4) + (j - 4) ELSE 8 * i + j
<1>1. 8 * i + j \in Bits
  BY CellNumbers
<1>2. i < 4 /\ j >= 4 => 8 * i + j + 28 = 8 * (i + 4) + (j - 4) /\ 8 * i + j + 28 \in ByteMask(4..7, 0..3)
  <2>1. i < 4 /\ j >= 4 => i + 4 \in 0..7 /\ j - 4 \in 0..7 /\ 8 * i + j + 28 = 8 * (i + 4) + (j - 4)
    OBVIOUS
  <2>2. i < 4 /\ j >= 4 => i + 4 \in 4..7 /\ j - 4 \in 0..3
    OBVIOUS
  <2> QED BY <2>1, <2>2, InMasks
<1>3. ~(i < 4 /\ j >= 4) /\ ~(i >= 4 /\ j < 4) => 8 * i + j + 28 \notin ByteMask(4..7, 0..3)
  BY DEF ByteMask
<1>4. i >= 4 /\ j < 4 => 8 * i + j - 28 = 8 * (i - 4) + (j + 4)
  OBVIOUS
<1> QED BY <1>1, <1>2, <1>3, <1>4, InMasks DEF Exchange

(* The second one.                                                          *)
LEMMA MiddleExchange ==
  ASSUME NEW i \in 0..7, NEW j \in 0..7
  PROVE  Exchange(ByteMask({2, 3, 6, 7}, {0, 1, 4, 5}), 14)[8 * i + j] =
           IF i \in {2, 3, 6, 7} /\ j \in {0, 1, 4, 5} THEN 8 * (i - 2) + (j + 2)
           ELSE IF i \in {0, 1, 4, 5} /\ j \in {2, 3, 6, 7} THEN 8 * (i + 2) + (j - 2) ELSE 8 * i + j
<1>1. 8 * i + j \in Bits
  BY CellNumbers
<1> DEFINE M == ByteMask({2, 3, 6, 7}, {0, 1, 4, 5})
<1>2. i \in {0, 1, 4, 5} /\ j \in {2, 3, 6, 7} => 8 * i + j + 14 = 8 * (i + 2) + (j - 2) /\ 8 * i + j + 14 \in M
  <2>1. i \in {0, 1, 4, 5} /\ j \in {2, 3, 6, 7} =>
          i + 2 \in {2, 3, 6, 7} /\ j - 2 \in {0, 1, 4, 5} /\ 8 * i + j + 14 = 8 * (i + 2) + (j - 2)
    OBVIOUS
  <2> QED BY <2>1, InMasks
<1>3. ~(i \in {0, 1, 4, 5} /\ j \in {2, 3, 6, 7}) => 8 * i + j + 14 \notin M \/ 8 * i + j \in M
  BY DEF ByteMask
<1>4. 8 * i + j - 14 = 8 * (i - 2) + (j + 2)
  OBVIOUS
<1> QED BY <1>1, <1>2, <1>3, <1>4, InMasks DEF Exchange

(* The third one.                                                           *)
LEMMA LowExchange ==
  ASSUME NEW i \in 0..7, NEW j \in 0..7
  PROVE  Exchange(ByteMask({1, 3, 5, 7}, {0, 2, 4, 6}), 7)[8 * i + j] =
           IF i \in {1, 3, 5, 7} /\ j \in {0, 2, 4, 6} THEN 8 * (i - 1) + (j + 1)
           ELSE IF i \in {0, 2, 4, 6} /\ j \in {1, 3, 5, 7} THEN 8 * (i + 1) + (j - 1) ELSE 8 * i + j
<1>1. 8 * i + j \in Bits
  BY CellNumbers
<1> DEFINE M == ByteMask({1, 3, 5, 7}, {0, 2, 4, 6})
<1>2. i \in {0, 2, 4, 6} /\ j \in {1, 3, 5, 7} => 8 * i + j + 7 = 8 * (i + 1) + (j - 1) /\ 8 * i + j + 7 \in M
  <2>1. i \in {0, 2, 4, 6} /\ j \in {1, 3, 5, 7} =>
          i + 1 \in {1, 3, 5, 7} /\ j - 1 \in {0, 2, 4, 6} /\ 8 * i + j + 7 = 8 * (i + 1) + (j - 1)
    OBVIOUS
  <2> QED BY <2>1, InMasks
<1>3. ~(i \in {0, 2, 4, 6} /\ j \in {1, 3, 5, 7}) => 8 * i + j + 7 \notin M \/ 8 * i + j \in M
  BY DEF ByteMask
<1>4. 8 * i + j - 7 = 8 * (i - 1) + (j + 1)
  OBVIOUS
<1> QED BY <1>1, <1>2, <1>3, <1>4, InMasks DEF Exchange

(* Three rounds of exchanges swap the number of the byte and of the bit in it. *)
LEMMA DiagonalFlip ==
  ASSUME NEW i \in 0..7, NEW j \in 0..7
  PROVE  flipDiagA1H8[8 * i + j] = 8 * j + i
<1> DEFINE High == Exchange(ByteMask(4..7, 0..3), 28)
           Middle == Exchange(ByteMask({2, 3, 6, 7}, {0, 1, 4, 5}), 14)
           Low == Exchange(ByteMask({1, 3, 5, 7}, {0, 2, 4, 6}), 7)
           i1 == IF i >= 4 /\ j < 4 THEN i - 4 ELSE IF i < 4 /\ j >= 4 THEN i + 4 ELSE i
           j1 == IF i >= 4 /\ j < 4 THEN j + 4 ELSE IF i < 4 /\ j >= 4 THEN j - 4 ELSE j
           i2 == IF i1 \in {2, 3, 6, 7} /\ j1 \in {0, 1, 4, 5} THEN i1 - 2
                 ELSE IF i1 \in {0, 1, 4, 5} /\ j1 \in {2, 3, 6, 7} THEN i1 + 2 ELSE i1
           j2 == IF i1 \in {2, 3, 6, 7} /\ j1 \in {0, 1, 4, 5} THEN j1 + 2
                 ELSE IF i1 \in {0, 1, 4, 5} /\ j1 \in {2, 3, 6, 7} THEN j1 - 2 ELSE j1
           i3 == IF i2 \in {1, 3, 5, 7} /\ j2 \in {0, 2, 4, 6} THEN i2 - 1
                 ELSE IF i2 \in {0, 2, 4, 6} /\ j2 \in {1, 3, 5, 7} THEN i2 + 1 ELSE i2
           j3 == IF i2 \in {1, 3, 5, 7} /\ j2 \in {0, 2, 4, 6} THEN j2 + 1
                 ELSE IF i2 \in {0, 2, 4, 6} /\ j2 \in {1, 3, 5, 7} THEN j2 - 1 ELSE j2
<1>1. i1 \in 0..7 /\ j1 \in 0..7 /\ High[8 * i + j] = 8 * i1 + j1
  <2>1. i1 \in 0..7 /\ j1 \in 0..7
    OBVIOUS
  <2> QED BY <2>1, HighExchange
<1>2. i2 \in 0..7 /\ j2 \in 0..7 /\ Middle[8 * i1 + j1] = 8 * i2 + j2
  <2> HIDE DEF i1, j1
  <2>1. i2 \in 0..7 /\ j2 \in 0..7
    BY <1>1
  <2> QED BY <1>1, <2>1, MiddleExchange
<1>3. Low[8 * i2 + j2] = 8 * i3 + j3
  <2> HIDE DEF i2, j2
  <2> QED BY <1>2, LowExchange
<1>4. i3 = j /\ j3 = i
  OBVIOUS
<1>5. 8 * i + j \in Bits
  BY CellNumbers
<1> HIDE DEF i1, j1, i2, j2, i3, j3
<1> QED BY <1>1, <1>2, <1>3, <1>4, <1>5 DEF flipDiagA1H8

(* A byte swap turns the rows upside down.                                  *)
LEMMA ByteSwap ==
  ASSUME NEW i \in 0..7, NEW j \in 0..7
  PROVE  byteswap[8 * i + j] = 8 * (7 - i) + j
BY CellNumbers DEF byteswap

(* A turn to the right carries row r, column c to row c, column 7 - r.      *)
LEMMA QuarterTurn ==
  ASSUME NEW i \in 0..7, NEW j \in 0..7
  PROVE  rotate90[8 * i + j] = 8 * j + (7 - i)
<1>1. 7 - i \in 0..7
  OBVIOUS
<1> QED BY <1>1, CellNumbers, ByteSwap, DiagonalFlip DEF rotate90

-----------------------------------------------------------------------------
(* The same of the byte-wise mirror and of the device's copies.             *)

(* The masks of the byte-wise mirror, by the place in the byte.             *)
LEMMA MirrorMasks ==
  ASSUME NEW i \in 0..7, NEW j \in 0..7
  PROVE  /\ 8 * i + j \in ByteMask(0..7, 4..7) <=> j >= 4
         /\ 8 * i + j \in ByteMask(0..7, {2, 3, 6, 7}) <=> j \in {2, 3, 6, 7}
         /\ 8 * i + j \in ByteMask(0..7, {1, 3, 5, 7}) <=> j \in {1, 3, 5, 7}
  BY InByteMask

(* Three swaps reverse the bits of each byte. *)
LEMMA ByteMirror ==
  ASSUME NEW i \in 0..7, NEW j \in 0..7
  PROVE  mirrorBytewise[8 * i + j] = 8 * i + (7 - j)
<1> DEFINE Swap(high, n) == [b \in Bits |-> IF b \in high THEN b - n ELSE b + n]
           j1 == IF j >= 4 THEN j - 4 ELSE j + 4
           j2 == IF j1 \in {2, 3, 6, 7} THEN j1 - 2 ELSE j1 + 2
           j3 == IF j2 \in {1, 3, 5, 7} THEN j2 - 1 ELSE j2 + 1
<1>1. Swap(ByteMask(0..7, 4..7), 4)[8 * i + j] = 8 * i + j1 /\ j1 \in 0..7
  BY CellNumbers, MirrorMasks
<1>2. Swap(ByteMask(0..7, {2, 3, 6, 7}), 2)[8 * i + j1] = 8 * i + j2 /\ j2 \in 0..7
  <2> HIDE DEF j1
  <2> QED BY <1>1, CellNumbers, MirrorMasks
<1>3. Swap(ByteMask(0..7, {1, 3, 5, 7}), 1)[8 * i + j2] = 8 * i + j3
  <2> HIDE DEF j2
  <2> QED BY <1>2, CellNumbers, MirrorMasks
<1>4. j3 = 7 - j
  OBVIOUS
<1>5. 8 * i + j \in Bits
  BY CellNumbers
<1>6. mirrorBytewise = [b \in Bits |->
         Swap(ByteMask(0..7, {1, 3, 5, 7}), 1)[
         Swap(ByteMask(0..7, {2, 3, 6, 7}), 2)[
         Swap(ByteMask(0..7, 4..7), 4)[b]]]]
  BY DEF mirrorBytewise
<1> HIDE DEF Swap, j1, j2, j3
<1> QED BY <1>1, <1>2, <1>3, <1>4, <1>5, <1>6

(* The device has the same permutations, written differently. *)
LEMMA DeviceByteSwap == dev_bswap64 = byteswap
<1>1. ASSUME NEW b \in Bits PROVE b + 56 - 16 * (b \div 8) = 8 * (7 - b \div 8) + (b % 8)
  <2>1. PICK i, j \in 0..7 : b = 8 * i + j
    BY CellOfBit
  <2> QED BY <2>1, CellNumbers
<1> QED BY <1>1 DEF dev_bswap64, byteswap

(* The device writes the masks of the diagonal flip by arithmetic.          *)
LEMMA DeviceDiagonal == dev_flipDiagA1H8 = flipDiagA1H8
<1> DEFINE d4 == {b \in Bits : b >= 32 /\ b % 8 < 4}
           d2 == {b \in Bits : b % 32 >= 16 /\ b % 4 < 2}
           d1 == {b \in Bits : b % 16 >= 8 /\ b % 2 = 0}
<1>1. d4 = ByteMask(4..7, 0..3) /\ d2 = ByteMask({2, 3, 6, 7}, {0, 1, 4, 5}) /\ d1 = ByteMask({1, 3, 5, 7}, {0, 2, 4, 6})
  <2>1. ASSUME NEW b \in Bits
        PROVE  /\ b \in d4 <=> b \in ByteMask(4..7, 0..3)
               /\ b \in d2 <=> b \in ByteMask({2, 3, 6, 7}, {0, 1, 4, 5})
               /\ b \in d1 <=> b \in ByteMask({1, 3, 5, 7}, {0, 2, 4, 6})
    <3>1. PICK i, j \in 0..7 : b = 8 * i + j
      BY CellOfBit
    <3>2. b >= 32 <=> i >= 4
      BY <3>1
    <3>3. b % 8 = j
      BY <3>1, CellNumbers
    <3>4. b % 32 = 8 * (i % 4) + j /\ b % 4 = j % 4
      BY <3>1
    <3>5. b % 16 = 8 * (i % 2) + j /\ b % 2 = j % 2
      BY <3>1
    <3>6. i % 4 >= 2 <=> i \in {2, 3, 6, 7}
      OBVIOUS
    <3>7. j % 4 < 2 <=> j \in {0, 1, 4, 5}
      OBVIOUS
    <3>8. i % 2 = 1 <=> i \in {1, 3, 5, 7}
      OBVIOUS
    <3>9. j % 2 = 0 <=> j \in {0, 2, 4, 6}
      OBVIOUS
    <3>10. b % 32 >= 16 <=> i % 4 >= 2
      BY <3>4
    <3>11. b % 16 >= 8 <=> i % 2 = 1
      BY <3>5
    <3>12. /\ b \in ByteMask(4..7, 0..3) <=> i >= 4 /\ j < 4
           /\ b \in ByteMask({2, 3, 6, 7}, {0, 1, 4, 5}) <=> i \in {2, 3, 6, 7} /\ j \in {0, 1, 4, 5}
           /\ b \in ByteMask({1, 3, 5, 7}, {0, 2, 4, 6}) <=> i \in {1, 3, 5, 7} /\ j \in {0, 2, 4, 6}
      BY <3>1, InMasks
    <3>13. b \in d4 <=> i >= 4 /\ j < 4
      BY <3>2, <3>3
    <3>14. b \in d2 <=> i \in {2, 3, 6, 7} /\ j \in {0, 1, 4, 5}
      BY <3>4, <3>6, <3>7, <3>10
    <3>15. b \in d1 <=> i \in {1, 3, 5, 7} /\ j \in {0, 2, 4, 6}
      BY <3>5, <3>8, <3>9, <3>11
    <3> QED BY <3>12, <3>13, <3>14, <3>15
  <2>2. /\ ByteMask(4..7, 0..3) \subseteq Bits
        /\ ByteMask({2, 3, 6, 7}, {0, 1, 4, 5}) \subseteq Bits
        /\ ByteMask({1, 3, 5, 7}, {0, 2, 4, 6}) \subseteq Bits
    BY DEF ByteMask, Bits
  <2> HIDE DEF d4, d2, d1
  <2>3. d4 \subseteq Bits /\ d2 \subseteq Bits /\ d1 \subseteq Bits
    BY DEF d4, d2, d1
  <2> QED BY <2>1, <2>2, <2>3
<1>2. dev_flipDiagA1H8 = [b \in Bits |-> Exchange(d1, 7)[Exchange(d2, 14)[Exchange(d4, 28)[b]]]]
  BY DEF dev_flipDiagA1H8
<1> HIDE DEF d4, d2, d1
<1> QED BY <1>1, <1>2 DEF flipDiagA1H8

(* The quarter turn of the device is that of the library.                   *)
LEMMA DeviceTurn == dev_turn = rotate90
BY DeviceByteSwap, DeviceDiagonal DEF dev_turn, rotate90

(* So is its mirror.                                                        *)
LEMMA DeviceMirror == dev_mirrorBytewise = mirrorBytewise
<1> DEFINE Halves(b, n) == IF (b \div n) % 2 = 1 THEN b - n ELSE b + n
<1>1. ASSUME NEW b \in Bits PROVE Halves(Halves(Halves(b, 4), 2), 1) = mirrorBytewise[b]
  <2>1. PICK i, j \in 0..7 : b = 8 * i + j
    BY CellOfBit
  <2> DEFINE j1 == IF j >= 4 THEN j - 4 ELSE j + 4
             j2 == IF j1 \in {2, 3, 6, 7} THEN j1 - 2 ELSE j1 + 2
             j3 == IF j2 \in {1, 3, 5, 7} THEN j2 - 1 ELSE j2 + 1
  <2>2. j1 \in 0..7 /\ Halves(8 * i + j, 4) = 8 * i + j1
    <3>1. (8 * i + j) \div 4 = 2 * i + (IF j >= 4 THEN 1 ELSE 0)
      OBVIOUS
    <3>2. ((8 * i + j) \div 4) % 2 = 1 <=> j >= 4
      BY <3>1
    <3> QED BY <3>2
  <2>3. j2 \in 0..7 /\ Halves(8 * i + j1, 2) = 8 * i + j2
    <3> HIDE DEF j1
    <3>1. (8 * i + j1) \div 2 = 4 * i + (j1 \div 2)
      BY <2>2
    <3>2. ((8 * i + j1) \div 2) % 2 = (j1 \div 2) % 2
      BY <2>2, <3>1
    <3>3. (j1 \div 2) % 2 = 1 <=> j1 \in {2, 3, 6, 7}
      BY <2>2
    <3> QED BY <2>2, <3>2, <3>3
  <2>4. Halves(8 * i + j2, 1) = 8 * i + j3
    <3> HIDE DEF j2
    <3>1. ((8 * i + j2) \div 1) % 2 = 1 <=> j2 \in {1, 3, 5, 7}
      BY <2>3
    <3> QED BY <2>3, <3>1
  <2>5. j3 = 7 - j
    OBVIOUS
  <2> HIDE DEF Halves, j1, j2, j3
  <2> QED BY <2>1, <2>2, <2>3, <2>4, <2>5, ByteMirror
<1>2. mirrorBytewise = [b \in Bits |-> mirrorBytewise[b]]
  BY DEF mirrorBytewise
<1>3. dev_mirrorBytewise = [b \in Bits |-> Halves(Halves(Halves(b, 4), 2), 1)]
  BY DEF dev_mirrorBytewise
<1> HIDE DEF Halves
<1> QED BY <1>1, <1>2, <1>3

-----------------------------------------------------------------------------
(* What the symmetries keep of a board, and how they compose.               *)

(* SetBoardSizeForRun has been called.                                     *)
Sized == boardSize \in {4, 6, 8}

(* The keys that describe a position of a game.                            *)
Positions ==
  {b \in [used : SUBSET BoardMask, colors : SUBSET BoardMask, next : {White, Black}] :
     FirstBoard.used \subseteq b.used /\ b.colors \subseteq b.used}

(* A bit is on the board, or one of the first four, by its row and column.  *)
LEMMA OnGrid ==
  ASSUME Sized, NEW i \in 0..7, NEW j \in 0..7
  PROVE  /\ 8 * i + j \in BoardMask <=> i \in Rows /\ j \in Rows
         /\ i \in Rows <=> 7 - i \in Rows
         /\ 8 * i + j \in FirstBoard.used <=> i \in {3, 4} /\ j \in {3, 4}
<1>1. \A k \in 0..7 : k \in Rows <=> 7 - k \in Rows
  BY DEF Sized, Rows, Si, Ei
<1>2. ASSUME NEW r \in Rows, NEW c \in Rows PROVE CellBit(r, c) = 8 * (7 - r) + (7 - c) /\ 7 - r \in 0..7 /\ 7 - c \in 0..7
  BY DEF Sized, Rows, Si, Ei, CellBit
<1>3. 8 * i + j \in BoardMask => i \in Rows /\ j \in Rows
  <2>1. SUFFICES ASSUME NEW r \in Rows, NEW c \in Rows, 8 * i + j = CellBit(r, c) PROVE i \in Rows /\ j \in Rows
    BY DEF BoardMask
  <2>2. i = 7 - r /\ j = 7 - c /\ r \in 0..7 /\ c \in 0..7
    <3>1. r \in 0..7 /\ c \in 0..7
      BY DEF Sized, Rows, Si, Ei
    <3> QED BY <1>2, <2>1, <3>1
  <2> QED BY <1>1, <2>2
<1>4. i \in Rows /\ j \in Rows => 8 * i + j \in BoardMask
  <2>1. CellBit(7 - i, 7 - j) = 8 * i + j
    BY CellNumbers
  <2> QED BY <1>1, <2>1 DEF BoardMask
<1>5. FirstBoard.used = {36, 27, 35, 28}
  BY DEF FirstBoard, CellBit
<1>6. 8 * i + j \in {36, 27, 35, 28} <=> i \in {3, 4} /\ j \in {3, 4}
  OBVIOUS
<1> QED BY <1>1, <1>3, <1>4, <1>5, <1>6

(* The board lies in the grid and has the first four cells.                 *)
LEMMA MaskInBits ==
  ASSUME Sized
  PROVE  BoardMask \subseteq Bits /\ FirstBoard.used \subseteq BoardMask
<1>1. BoardMask \subseteq Bits
  BY DEF BoardMask, Sized, Rows, Si, Ei, CellBit, Bits
<1>2. FirstBoard.used = {36, 27, 35, 28}
  BY DEF FirstBoard, CellBit
<1>3. 3 \in Rows /\ 4 \in Rows
  BY DEF Sized, Rows, Si, Ei
<1>4. CellBit(3, 3) = 36 /\ CellBit(4, 4) = 27 /\ CellBit(3, 4) = 35 /\ CellBit(4, 3) = 28
  BY DEF CellBit
<1> QED BY <1>1, <1>2, <1>3, <1>4 DEF BoardMask

(* What a permutation of the bits has to keep to be one of the board.      *)
Keeps(perm) ==
  /\ \A b \in Bits : perm[b] \in Bits
  /\ \A b, c \in Bits : perm[b] = perm[c] => b = c
  /\ \A b \in Bits : perm[b] \in BoardMask <=> b \in BoardMask
  /\ \A b \in Bits : b \in FirstBoard.used => \E c \in FirstBoard.used : perm[c] = b

(* A turn and a mirroring map the board, and its middle, onto itself.       *)
LEMMA TurnKeeps ==
  ASSUME Sized
  PROVE  Keeps(rotate90) /\ Keeps(mirrorBytewise)
<1>1. \A b \in Bits : rotate90[b] \in Bits /\ mirrorBytewise[b] \in Bits
  <2> TAKE b \in Bits
  <2>1. PICK i, j \in 0..7 : b = 8 * i + j
    BY CellOfBit
  <2>2. 7 - i \in 0..7 /\ 7 - j \in 0..7
    OBVIOUS
  <2> QED BY <2>1, <2>2, QuarterTurn, ByteMirror, CellNumbers
<1>2. ASSUME NEW b \in Bits, NEW c \in Bits
      PROVE  (rotate90[b] = rotate90[c] => b = c) /\ (mirrorBytewise[b] = mirrorBytewise[c] => b = c)
  <2>1. PICK i, j \in 0..7 : b = 8 * i + j
    BY CellOfBit
  <2>2. PICK k, l \in 0..7 : c = 8 * k + l
    BY CellOfBit
  <2>3. 8 * j + (7 - i) = 8 * l + (7 - k) => i = k /\ j = l
    OBVIOUS
  <2>4. 8 * i + (7 - j) = 8 * k + (7 - l) => i = k /\ j = l
    OBVIOUS
  <2>5. rotate90[b] = 8 * j + (7 - i) /\ mirrorBytewise[b] = 8 * i + (7 - j)
    BY <2>1, QuarterTurn, ByteMirror
  <2>6. rotate90[c] = 8 * l + (7 - k) /\ mirrorBytewise[c] = 8 * k + (7 - l)
    BY <2>2, QuarterTurn, ByteMirror
  <2> QED BY ONLY <2>1, <2>2, <2>3, <2>4, <2>5, <2>6
<1>3. ASSUME NEW b \in Bits
      PROVE  (rotate90[b] \in BoardMask <=> b \in BoardMask) /\ (mirrorBytewise[b] \in BoardMask <=> b \in BoardMask)
  <2>1. PICK i, j \in 0..7 : b = 8 * i + j
    BY CellOfBit
  <2>2. 7 - i \in 0..7 /\ 7 - j \in 0..7
    OBVIOUS
  <2> QED BY <2>1, <2>2, QuarterTurn, ByteMirror, OnGrid
<1>4. ASSUME NEW b \in FirstBoard.used
      PROVE  (\E c \in FirstBoard.used : rotate90[c] = b) /\ (\E c \in FirstBoard.used : mirrorBytewise[c] = b)
  <2>0. b \in Bits
    BY MaskInBits
  <2>1. PICK i, j \in 0..7 : b = 8 * i + j
    BY <2>0, CellOfBit
  <2>2. i \in {3, 4} /\ j \in {3, 4}
    BY <2>1, OnGrid
  <2>3. 7 - i \in {3, 4} /\ 7 - j \in {3, 4} /\ 7 - i \in 0..7 /\ 7 - j \in 0..7
    BY <2>2
  <2>4. rotate90[8 * (7 - j) + i] = 8 * i + (7 - (7 - j)) /\ 8 * (7 - j) + i \in FirstBoard.used
    BY <2>2, <2>3, QuarterTurn, OnGrid
  <2>5. mirrorBytewise[8 * i + (7 - j)] = 8 * i + (7 - (7 - j)) /\ 8 * i + (7 - j) \in FirstBoard.used
    BY <2>2, <2>3, ByteMirror, OnGrid
  <2>6. 7 - (7 - j) = j
    OBVIOUS
  <2> QED BY <2>1, <2>4, <2>5, <2>6
<1> QED BY <1>1, <1>2, <1>3, <1>4 DEF Keeps

(* Four turns or two mirrorings are none; a mirrored turn is three turns of the mirror image. *)
LEMMA GroupLaws ==
  ASSUME NEW b \in Bits
  PROVE  /\ rotate90[b] \in Bits /\ mirrorBytewise[b] \in Bits
         /\ rotate90[rotate90[rotate90[rotate90[b]]]] = b
         /\ mirrorBytewise[mirrorBytewise[b]] = b
         /\ mirrorBytewise[rotate90[b]] = rotate90[rotate90[rotate90[mirrorBytewise[b]]]]
<1>1. PICK i, j \in 0..7 : b = 8 * i + j
  BY CellOfBit
<1>2. 7 - i \in 0..7 /\ 7 - j \in 0..7 /\ 7 - (7 - i) = i /\ 7 - (7 - j) = j
  OBVIOUS
<1>3. rotate90[b] = 8 * j + (7 - i) /\ mirrorBytewise[b] = 8 * i + (7 - j)
  BY <1>1, QuarterTurn, ByteMirror
<1>4. rotate90[8 * j + (7 - i)] = 8 * (7 - i) + (7 - j)
  BY <1>2, QuarterTurn
<1>5. rotate90[8 * (7 - i) + (7 - j)] = 8 * (7 - j) + i
  BY <1>2, QuarterTurn
<1>6. rotate90[8 * (7 - j) + i] = 8 * i + j
  BY <1>2, QuarterTurn
<1>7. mirrorBytewise[8 * i + (7 - j)] = 8 * i + j
  BY <1>2, ByteMirror
<1>8. mirrorBytewise[8 * j + (7 - i)] = 8 * j + i
  BY <1>2, ByteMirror
<1>9. rotate90[8 * i + (7 - j)] = 8 * (7 - j) + (7 - i)
  BY <1>2, QuarterTurn
<1>10. rotate90[8 * (7 - j) + (7 - i)] = 8 * (7 - i) + j
  BY <1>2, QuarterTurn
<1>11. rotate90[8 * (7 - i) + j] = 8 * j + i
  BY <1>2, QuarterTurn
<1>12. rotate90[b] \in Bits /\ mirrorBytewise[b] \in Bits
  BY <1>2, <1>3, CellNumbers
<1> QED BY <1>1, <1>3, <1>4, <1>5, <1>6, <1>7, <1>8, <1>9, <1>10, <1>11, <1>12

-----------------------------------------------------------------------------
(* Positions, and the symmetries as operations on them.                     *)

(* A key with all bits moved by a permutation. *)
Moved(b, perm) == [b EXCEPT !.used = Permute(@, perm), !.colors = Permute(@, perm)]

(* A cell is in a set if its image is in the image of the set.              *)
LEMMA PermuteIn ==
  ASSUME Sized, NEW perm, Keeps(perm), NEW x \in SUBSET BoardMask, NEW c \in Bits
  PROVE  perm[c] \in Permute(x, perm) <=> c \in x
BY MaskInBits DEF Permute, Keeps

(* What a position's fields are,                                            *)
LEMMA PositionFields ==
  ASSUME NEW b \in Positions
  PROVE  /\ b.used \subseteq BoardMask /\ b.colors \subseteq b.used /\ b.next \in {White, Black}
         /\ FirstBoard.used \subseteq b.used
BY DEF Positions

(* what makes a record a position,                                          *)
LEMMA FieldsPosition ==
  ASSUME NEW b \in [used : SUBSET BoardMask, colors : SUBSET BoardMask, next : {White, Black}],
         b.colors \subseteq b.used, FirstBoard.used \subseteq b.used
  PROVE  b \in Positions
BY DEF Positions

(* and when two positions are the same.                                     *)
LEMMA SamePosition ==
  ASSUME NEW b \in Positions, NEW c \in Positions, b.used = c.used, b.colors = c.colors, b.next = c.next
  PROVE  b = c
BY DEF Positions

(* The fields of a board whose bits are moved.                              *)
LEMMA MovedFields ==
  ASSUME NEW b \in Positions, NEW perm
  PROVE  /\ Moved(b, perm).used = Permute(b.used, perm)
         /\ Moved(b, perm).colors = Permute(b.colors, perm)
         /\ Moved(b, perm).next = b.next
<1> DEFINE u == Permute(b.used, perm)
           c == Permute(b.colors, perm)
<1>1. Moved(b, perm) = [b EXCEPT !.used = u, !.colors = c]
  BY DEF Moved
<1> HIDE DEF u, c
<1>2. b \in [used : SUBSET BoardMask, colors : SUBSET BoardMask, next : {White, Black}]
  BY DEF Positions
<1>3. Moved(b, perm).used = u /\ Moved(b, perm).colors = c /\ Moved(b, perm).next = b.next
  BY <1>1, <1>2
<1> QED BY <1>3 DEF u, c

(* It is a position again.                                                  *)
LEMMA MovedPosition ==
  ASSUME Sized, NEW b \in Positions, NEW perm, Keeps(perm)
  PROVE  Moved(b, perm) \in Positions
<1> DEFINE u == Permute(b.used, perm)
           c == Permute(b.colors, perm)
<1>1. u \subseteq BoardMask
  BY PositionFields, MaskInBits DEF Permute, Keeps
<1>2. c \subseteq u
  BY PositionFields DEF Permute
<1>3. FirstBoard.used \subseteq u
  BY PositionFields, MaskInBits DEF Permute, Keeps
<1>4. Moved(b, perm) = [b EXCEPT !.used = u, !.colors = c]
  BY DEF Moved
<1>5. Moved(b, perm).used = u /\ Moved(b, perm).colors = c
  BY MovedFields
<1> HIDE DEF u, c
<1>6. b \in [used : SUBSET BoardMask, colors : SUBSET BoardMask, next : {White, Black}]
  BY DEF Positions
<1>7. Moved(b, perm) \in [used : SUBSET BoardMask, colors : SUBSET BoardMask, next : {White, Black}]
  BY <1>1, <1>2, <1>4, <1>6
<1> QED BY <1>2, <1>3, <1>5, <1>7, FieldsPosition

(* The fields of a board with its colors swapped.                           *)
LEMMA FlippedFields ==
  ASSUME NEW b \in Positions
  PROVE  /\ dev_boardFlip(b).used = b.used
         /\ dev_boardFlip(b).colors = b.used \ b.colors
         /\ dev_boardFlip(b).next = 1 - b.next
<1> DEFINE c == b.used \ b.colors
           n == 1 - b.next
<1>1. dev_boardFlip(b) = [b EXCEPT !.colors = c, !.next = n]
  BY DEF dev_boardFlip
<1> HIDE DEF c, n
<1>2. b \in [used : SUBSET BoardMask, colors : SUBSET BoardMask, next : {White, Black}]
  BY DEF Positions
<1>3. dev_boardFlip(b).used = b.used /\ dev_boardFlip(b).colors = c /\ dev_boardFlip(b).next = n
  BY <1>1, <1>2
<1> QED BY <1>3 DEF c, n

(* It is a position again.                                                  *)
LEMMA FlippedPosition ==
  ASSUME NEW b \in Positions
  PROVE  dev_boardFlip(b) \in Positions
<1> DEFINE c == b.used \ b.colors
           n == 1 - b.next
<1>1. dev_boardFlip(b) = [b EXCEPT !.colors = c, !.next = n]
  BY DEF dev_boardFlip
<1>2. c \subseteq b.used /\ c \subseteq BoardMask /\ n \in {White, Black}
  BY PositionFields DEF White, Black
<1>3. dev_boardFlip(b).used = b.used /\ dev_boardFlip(b).colors = c
  BY FlippedFields
<1> HIDE DEF c, n
<1>4. b \in [used : SUBSET BoardMask, colors : SUBSET BoardMask, next : {White, Black}]
  BY DEF Positions
<1>5. dev_boardFlip(b) \in [used : SUBSET BoardMask, colors : SUBSET BoardMask, next : {White, Black}]
  BY <1>1, <1>2, <1>4
<1> QED BY <1>2, <1>3, <1>5, PositionFields, FieldsPosition

(* The names of the symmetries in the proofs. *)
R(b) == dev_rotate90Right(b)
M(b) == dev_mirrorVerticalAxis(b)
F(b) == dev_boardFlip(b)

(* The turn and the mirror of the device move the bits of a key.            *)
LEMMA TurnsAreMoves ==
  ASSUME NEW b
  PROVE  R(b) = Moved(b, rotate90) /\ M(b) = Moved(b, mirrorBytewise)
BY DeviceTurn, DeviceMirror DEF R, M, Moved, dev_rotate90Right, dev_mirrorVerticalAxis

(* The symmetries lead from positions to positions.                         *)
LEMMA Closed ==
  ASSUME Sized, NEW b \in Positions
  PROVE  R(b) \in Positions /\ M(b) \in Positions /\ F(b) \in Positions
BY TurnsAreMoves, TurnKeeps, MovedPosition, FlippedPosition DEF F

(* Moving the bits twice moves them by both permutations.                   *)
LEMMA PermuteTwice ==
  ASSUME NEW x, NEW p, NEW q
  PROVE  Permute(Permute(x, p), q) = {q[p[b]] : b \in x}
BY DEF Permute

(* The laws of the group of the sixteen symmetries.                         *)
LEMMA BoardLaws ==
  ASSUME Sized, NEW b \in Positions
  PROVE  /\ R(R(R(R(b)))) = b
         /\ M(M(b)) = b
         /\ F(F(b)) = b
         /\ M(R(b)) = R(R(R(M(b))))
         /\ F(R(b)) = R(F(b))
         /\ F(M(b)) = M(F(b))
<1> DEFINE r(x) == Permute(x, rotate90)
           m(x) == Permute(x, mirrorBytewise)
<1>1. ASSUME NEW x \in SUBSET BoardMask
      PROVE  r(r(r(r(x)))) = x /\ m(m(x)) = x /\ m(r(x)) = r(r(r(m(x))))
  <2>1. x \subseteq Bits
    BY MaskInBits
  <2>2. r(r(r(r(x)))) = {rotate90[rotate90[rotate90[rotate90[c]]]] : c \in x}
    BY DEF Permute
  <2>3. m(m(x)) = {mirrorBytewise[mirrorBytewise[c]] : c \in x}
    BY DEF Permute
  <2>4. m(r(x)) = {mirrorBytewise[rotate90[c]] : c \in x}
    BY DEF Permute
  <2>5. r(r(r(m(x)))) = {rotate90[rotate90[rotate90[mirrorBytewise[c]]]] : c \in x}
    BY DEF Permute
  <2>6. \A c \in x : /\ rotate90[rotate90[rotate90[rotate90[c]]]] = c
                     /\ mirrorBytewise[mirrorBytewise[c]] = c
                     /\ mirrorBytewise[rotate90[c]] = rotate90[rotate90[rotate90[mirrorBytewise[c]]]]
    BY <2>1, GroupLaws
  <2> HIDE DEF r, m
  <2>7. r(r(r(r(x)))) = x
    BY <2>2, <2>6
  <2>8. m(m(x)) = x
    BY <2>3, <2>6
  <2>9. m(r(x)) = r(r(r(m(x))))
    BY <2>4, <2>5, <2>6
  <2> QED BY <2>7, <2>8, <2>9
<1>2. ASSUME NEW c \in Positions
      PROVE  /\ R(c).used = r(c.used) /\ R(c).colors = r(c.colors) /\ R(c).next = c.next
             /\ M(c).used = m(c.used) /\ M(c).colors = m(c.colors) /\ M(c).next = c.next
             /\ F(c).used = c.used /\ F(c).colors = c.used \ c.colors /\ F(c).next = 1 - c.next
  <2>1. R(c) = Moved(c, rotate90) /\ M(c) = Moved(c, mirrorBytewise)
    BY TurnsAreMoves
  <2>2. F(c).used = c.used /\ F(c).colors = c.used \ c.colors /\ F(c).next = 1 - c.next
    BY FlippedFields DEF F
  <2>3. Moved(c, rotate90).used = r(c.used) /\ Moved(c, rotate90).colors = r(c.colors) /\ Moved(c, rotate90).next = c.next
    BY MovedFields
  <2>4. Moved(c, mirrorBytewise).used = m(c.used) /\ Moved(c, mirrorBytewise).colors = m(c.colors)
          /\ Moved(c, mirrorBytewise).next = c.next
    BY MovedFields
  <2> QED BY <2>1, <2>2, <2>3, <2>4
<1>3. ASSUME NEW x \in SUBSET BoardMask, NEW y \in SUBSET x
      PROVE  r(x \ y) = r(x) \ r(y) /\ m(x \ y) = m(x) \ m(y)
  BY MaskInBits, TurnKeeps DEF Permute, Keeps
<1>4. b.used \subseteq BoardMask /\ b.colors \subseteq BoardMask /\ b.colors \subseteq b.used /\ b.next \in {0, 1}
  BY PositionFields DEF White, Black
<1> HIDE DEF r, m
<1>5. R(b) \in Positions /\ M(b) \in Positions /\ F(b) \in Positions
  BY Closed
<1>6. R(R(b)) \in Positions /\ M(M(b)) \in Positions /\ F(F(b)) \in Positions /\ M(R(b)) \in Positions
        /\ R(M(b)) \in Positions /\ F(R(b)) \in Positions /\ R(F(b)) \in Positions
        /\ F(M(b)) \in Positions /\ M(F(b)) \in Positions
  BY <1>5, Closed
<1>7. R(R(R(b))) \in Positions /\ R(R(M(b))) \in Positions
  BY <1>6, Closed
<1>8. R(R(R(R(b)))) \in Positions /\ R(R(R(M(b)))) \in Positions
  BY <1>7, Closed
<1>9. R(R(R(R(b)))) = b
  <2>1. R(R(R(R(b)))).used = r(r(r(r(b.used)))) /\ R(R(R(R(b)))).colors = r(r(r(r(b.colors))))
          /\ R(R(R(R(b)))).next = b.next
    BY <1>2, <1>5, <1>6, <1>7
  <2>2. R(R(R(R(b)))).used = b.used /\ R(R(R(R(b)))).colors = b.colors
    BY <1>1, <1>4, <2>1
  <2> QED BY <1>8, <2>1, <2>2, SamePosition
<1>10. M(M(b)) = b
  <2>1. M(M(b)).used = m(m(b.used)) /\ M(M(b)).colors = m(m(b.colors)) /\ M(M(b)).next = b.next
    BY <1>2, <1>5
  <2>2. M(M(b)).used = b.used /\ M(M(b)).colors = b.colors
    BY <1>1, <1>4, <2>1
  <2> QED BY <1>6, <2>1, <2>2, SamePosition
<1>11. F(F(b)) = b
  <2>1. F(F(b)).used = b.used /\ F(F(b)).colors = b.used \ (b.used \ b.colors) /\ F(F(b)).next = 1 - (1 - b.next)
    BY <1>2, <1>5
  <2>2. b.used \ (b.used \ b.colors) = b.colors
    BY <1>4
  <2>3. 1 - (1 - b.next) = b.next
    BY <1>4
  <2>4. F(F(b)).used = b.used /\ F(F(b)).colors = b.colors /\ F(F(b)).next = b.next
    BY <2>1, <2>2, <2>3
  <2> QED BY <1>6, <2>4, SamePosition
<1>12. M(R(b)) = R(R(R(M(b))))
  <2>1. M(R(b)).used = m(r(b.used)) /\ M(R(b)).colors = m(r(b.colors)) /\ M(R(b)).next = b.next
    BY <1>2, <1>5
  <2>2. R(R(R(M(b)))).used = r(r(r(m(b.used)))) /\ R(R(R(M(b)))).colors = r(r(r(m(b.colors))))
          /\ R(R(R(M(b)))).next = b.next
    BY <1>2, <1>5, <1>6, <1>7
  <2>3. m(r(b.used)) = r(r(r(m(b.used)))) /\ m(r(b.colors)) = r(r(r(m(b.colors))))
    BY <1>1, <1>4
  <2>4. M(R(b)).used = R(R(R(M(b)))).used /\ M(R(b)).colors = R(R(R(M(b)))).colors /\ M(R(b)).next = R(R(R(M(b)))).next
    BY <2>1, <2>2, <2>3
  <2> QED BY <1>6, <1>8, <2>4, SamePosition
<1>13. F(R(b)) = R(F(b))
  <2>1. F(R(b)).used = r(b.used) /\ F(R(b)).colors = r(b.used) \ r(b.colors) /\ F(R(b)).next = 1 - b.next
    BY <1>2, <1>5
  <2>2. R(F(b)).used = r(b.used) /\ R(F(b)).colors = r(b.used \ b.colors) /\ R(F(b)).next = 1 - b.next
    BY <1>2, <1>5
  <2>3. F(R(b)).colors = R(F(b)).colors
    BY <1>3, <1>4, <2>1, <2>2
  <2>4. F(R(b)).used = R(F(b)).used /\ F(R(b)).next = R(F(b)).next
    BY <2>1, <2>2
  <2> QED BY <1>6, <2>3, <2>4, SamePosition
<1>14. F(M(b)) = M(F(b))
  <2>1. F(M(b)).used = m(b.used) /\ F(M(b)).colors = m(b.used) \ m(b.colors) /\ F(M(b)).next = 1 - b.next
    BY <1>2, <1>5
  <2>2. M(F(b)).used = m(b.used) /\ M(F(b)).colors = m(b.used \ b.colors) /\ M(F(b)).next = 1 - b.next
    BY <1>2, <1>5
  <2>3. F(M(b)).colors = M(F(b)).colors
    BY <1>3, <1>4, <2>1, <2>2
  <2>4. F(M(b)).used = M(F(b)).used /\ F(M(b)).next = M(F(b)).next
    BY <2>1, <2>2
  <2> QED BY <1>6, <2>3, <2>4, SamePosition
<1> QED BY <1>9, <1>10, <1>11, <1>12, <1>13, <1>14

-----------------------------------------------------------------------------
(* The order of boards is total, so a set of images has one least board.    *)

(* A set of bits that is not empty has a highest one. *)
LEMMA HighestBit ==
  ASSUME NEW x \in SUBSET Bits, x # {}
  PROVE  Max(x) \in x /\ \A k \in x : k <= Max(x)
<1> DEFINE T == {63 - k : k \in x}
<1>1. T \in SUBSET Nat /\ T # {}
  <2>1. \A k \in x : 63 - k \in Nat
    BY DEF Bits
  <2>2. T \subseteq Nat
    BY <2>1
  <2>3. T # {}
    OBVIOUS
  <2> QED BY <2>2, <2>3
<1>2. PICK n \in T : \A l \in T : n <= l
  <2> HIDE DEF T
  <2> QED BY <1>1, LeastNumber
<1>3. PICK m \in x : n = 63 - m
  OBVIOUS
<1>4. \A k \in x : m >= k
  <2> TAKE k \in x
  <2>1. n <= 63 - k
    BY <1>2
  <2> QED BY <1>3, <2>1 DEF Bits
<1>5. Max(x) \in x /\ \A k \in x : Max(x) >= k
  BY <1>4 DEF Max
<1> QED BY <1>5 DEF Bits

(* Two words differ in order as in the highest bit in which they differ. *)
LEMMA HighestDifference ==
  ASSUME NEW x \in SUBSET Bits, NEW y \in SUBSET Bits
  PROVE  WordLess(x, y) <=>
           \E m \in Bits : m \in y /\ m \notin x /\ \A k \in Bits : k > m => (k \in x <=> k \in y)
<1> DEFINE d == SymDiff(x, y)
<1>1. d \in SUBSET Bits /\ \A k : k \in d <=> (k \in x /\ k \notin y) \/ (k \in y /\ k \notin x)
  BY DEF SymDiff
<1>2. x # y <=> d # {}
  BY <1>1
<1>3. WordLess(x, y) <=> d # {} /\ Max(d) \in y
  BY <1>2 DEF WordLess
<1> HIDE DEF d
<1>4. ASSUME d # {}, Max(d) \in y
      PROVE  \E m \in Bits : m \in y /\ m \notin x /\ \A k \in Bits : k > m => (k \in x <=> k \in y)
  <2>1. Max(d) \in d /\ \A k \in d : k <= Max(d)
    BY <1>1, <1>4, HighestBit
  <2>2. Max(d) \in Bits /\ Max(d) \notin x
    BY <1>1, <1>4, <2>1
  <2>3. \A k \in Bits : k > Max(d) => k \notin d
    BY <2>1, <2>2 DEF Bits
  <2> QED BY <1>1, <1>4, <2>2, <2>3
<1>5. ASSUME NEW m \in Bits, m \in y, m \notin x, \A k \in Bits : k > m => (k \in x <=> k \in y)
      PROVE  d # {} /\ Max(d) \in y
  <2>1. m \in d
    BY <1>1, <1>5
  <2>2. Max(d) \in d /\ m <= Max(d)
    BY <1>1, <2>1, HighestBit
  <2>3. Max(d) = m
    <3>1. Max(d) \in Bits /\ ~(Max(d) \in x <=> Max(d) \in y)
      BY <1>1, <2>2
    <3>2. ~(Max(d) > m)
      BY <1>5, <3>1
    <3> QED BY <2>2, <3>1, <3>2 DEF Bits
  <2> QED BY <1>5, <2>1, <2>3
<1> QED BY <1>3, <1>4, <1>5

(* The order of words is asymmetric and transitive.                         *)
LEMMA WordOrder ==
  ASSUME NEW x \in SUBSET Bits, NEW y \in SUBSET Bits, NEW z \in SUBSET Bits, WordLess(x, y)
  PROVE  ~WordLess(y, x) /\ (WordLess(y, z) => WordLess(x, z))
<1>1. PICK m \in Bits : m \in y /\ m \notin x /\ \A k \in Bits : k > m => (k \in x <=> k \in y)
  BY HighestDifference
<1>2. ~WordLess(y, x)
  <2> SUFFICES ASSUME NEW l \in Bits, l \in x, l \notin y, \A k \in Bits : k > l => (k \in y <=> k \in x)
               PROVE  FALSE
    BY HighestDifference
  <2> QED BY <1>1 DEF Bits
<1>3. ASSUME WordLess(y, z) PROVE WordLess(x, z)
  <2>1. PICK l \in Bits : l \in z /\ l \notin y /\ \A k \in Bits : k > l => (k \in y <=> k \in z)
    BY <1>3, HighestDifference
  <2>2. CASE m > l
    <3>1. m \in z /\ \A k \in Bits : k > m => (k \in x <=> k \in z)
      BY <1>1, <2>1, <2>2 DEF Bits
    <3> QED BY <1>1, <3>1, HighestDifference
  <2>3. CASE l > m
    <3>1. l \notin x /\ \A k \in Bits : k > l => (k \in x <=> k \in z)
      BY <1>1, <2>1, <2>3 DEF Bits
    <3> QED BY <2>1, <3>1, HighestDifference
  <2> QED BY <1>1, <2>1, <2>2, <2>3 DEF Bits
<1> QED BY <1>2, <1>3

(* So is the order of positions.                                            *)
LEMMA BoardOrder ==
  ASSUME Sized, NEW a \in Positions, NEW b \in Positions, NEW c \in Positions, dev_boardLT(a, b)
  PROVE  ~dev_boardLT(b, a) /\ (dev_boardLT(b, c) => dev_boardLT(a, c))
<1>1. /\ a.used \subseteq Bits /\ b.used \subseteq Bits /\ c.used \subseteq Bits
      /\ a.colors \subseteq Bits /\ b.colors \subseteq Bits /\ c.colors \subseteq Bits
  BY PositionFields, MaskInBits
<1>2. a.next \in {0, 1} /\ b.next \in {0, 1} /\ c.next \in {0, 1}
  BY PositionFields DEF White, Black
<1>3. ~WordLess(a.used, a.used) /\ ~WordLess(a.colors, a.colors)
  BY DEF WordLess
<1>4. /\ WordLess(a.used, b.used) => ~WordLess(b.used, a.used) /\ (WordLess(b.used, c.used) => WordLess(a.used, c.used))
      /\ WordLess(a.colors, b.colors) => ~WordLess(b.colors, a.colors) /\ (WordLess(b.colors, c.colors) => WordLess(a.colors, c.colors))
  BY <1>1, WordOrder
<1>5. \A x, y : WordLess(x, y) => x # y
  BY DEF WordLess
<1>6. \A x \in Positions : \A y \in Positions : dev_boardLT(x, y) <=>
        \/ WordLess(x.used, y.used)
        \/ x.used = y.used /\ WordLess(x.colors, y.colors)
        \/ x.used = y.used /\ x.colors = y.colors /\ x.next > y.next
  BY <1>5 DEF dev_boardLT
<1>7. ~dev_boardLT(b, a)
  BY <1>2, <1>4, <1>5, <1>6
<1>8. dev_boardLT(b, c) => dev_boardLT(a, c)
  BY <1>2, <1>4, <1>5, <1>6
<1> QED BY <1>7, <1>8

(* Finitely many boards have a least one. *)
LEMMA LeastBoard ==
  ASSUME Sized, NEW S \in SUBSET Positions, IsFiniteSet(S), S # {}
  PROVE  \E x \in S : \A y \in S : ~dev_boardLT(y, x)
<1> DEFINE Good == {s \in SUBSET S : s = {} \/ \E x \in s : \A y \in s : ~dev_boardLT(y, x)}
<1>1. ASSUME NEW s \in SUBSET S, s # {}, \A x \in s : s \ {x} \in Good PROVE s \in Good
  <2>1. PICK x \in s : TRUE
    BY <1>1
  <2>2. ~dev_boardLT(x, x)
    BY BoardOrder
  <2>3. CASE s \ {x} = {}
    BY <2>1, <2>2, <2>3
  <2>4. CASE s \ {x} # {}
    <3>1. PICK m \in s \ {x} : \A y \in s \ {x} : ~dev_boardLT(y, m)
      BY <1>1, <2>4
    <3>2. CASE dev_boardLT(x, m)
      <4>1. \A y \in s : ~dev_boardLT(y, x)
        BY <2>2, <3>1, <3>2, BoardOrder
      <4> QED BY <4>1
    <3>3. CASE ~dev_boardLT(x, m)
      BY <3>1, <3>3
    <3> QED BY <3>2, <3>3
  <2> QED BY <2>3, <2>4
<1>2. {} \in Good
  OBVIOUS
<1>3. S \in Good
  <2> HIDE DEF Good
  <2>1. \A s \in SUBSET S : s \in Good
    BY <1>1, <1>2, FiniteInduction
  <2> QED BY <2>1
<1> QED BY <1>3

-----------------------------------------------------------------------------
(* The images of a board, and the representative of its class.              *)

Turns(x) == {x, R(x), R(R(x)), R(R(R(x)))}
Images(b) == Symmetries(b, 16)

(* The images the kernel tries, for each number of symmetries.              *)
LEMMA SymmetriesAre ==
  ASSUME NEW b
  PROVE  /\ Images(b) = Turns(b) \cup Turns(M(b)) \cup Turns(F(b)) \cup Turns(M(F(b)))
         /\ Symmetries(b, 8) = Turns(b) \cup Turns(M(b))
         /\ Symmetries(b, 4) = Turns(b)
         /\ Symmetries(b, 1) = {b}
<1> DEFINE t(x) == LET x1 == dev_rotate90Right(x)
                       x2 == dev_rotate90Right(x1)
                   IN  {x, x1, x2, dev_rotate90Right(x2)}
<1>1. \A x : t(x) = Turns(x)
  BY DEF Turns, R
<1>2. Symmetries(b, 16) = (t(b) \cup t(dev_mirrorVerticalAxis(b)))
         \cup (t(dev_boardFlip(b)) \cup t(dev_mirrorVerticalAxis(dev_boardFlip(b))))
  <2>1. 16 >= 16
    OBVIOUS
  <2> QED BY <2>1 DEF Symmetries
<1>3. Symmetries(b, 8) = t(b) \cup t(dev_mirrorVerticalAxis(b))
  <2>1. ~(8 >= 16) /\ 8 \in 8..15
    OBVIOUS
  <2> QED BY <2>1 DEF Symmetries
<1>4. Symmetries(b, 4) = t(b)
  <2>1. ~(4 >= 16) /\ 4 \notin 8..15 /\ 4 \in 4..7
    OBVIOUS
  <2> QED BY <2>1 DEF Symmetries
<1>5. Symmetries(b, 1) = {b}
  <2>1. ~(1 >= 16) /\ 1 \notin 8..15 /\ 1 \notin 4..7
    OBVIOUS
  <2> QED BY <2>1 DEF Symmetries
<1> HIDE DEF t
<1> QED BY <1>1, <1>2, <1>3, <1>4, <1>5 DEF Images, M, F

(* The four turns of a board are those of its turn.                         *)
LEMMA TurnsOf ==
  ASSUME Sized, NEW b \in Positions
  PROVE  /\ Turns(b) \subseteq Positions /\ IsFiniteSet(Turns(b)) /\ b \in Turns(b)
         /\ Turns(R(b)) = Turns(b) /\ Turns(M(R(b))) = Turns(M(b))
<1>1. ASSUME NEW c \in Positions
      PROVE Turns(c) \subseteq Positions /\ Turns(R(c)) = Turns(c)
  <2>1. R(c) \in Positions
    BY Closed
  <2>2. R(R(c)) \in Positions
    BY <2>1, Closed
  <2>3. R(R(R(c))) \in Positions
    BY <2>2, Closed
  <2>4. R(R(R(R(c)))) = c
    BY BoardLaws
  <2> QED BY <2>1, <2>2, <2>3, <2>4 DEF Turns
<1>2. IsFiniteSet(Turns(b))
  <2>1. Turns(b) = ({b} \cup {R(b)}) \cup ({R(R(b))} \cup {R(R(R(b)))})
    BY DEF Turns
  <2>2. \A x, y : IsFiniteSet({x} \cup {y})
    <3>1. \A x : IsFiniteSet({x})
      BY FS_Singleton
    <3> QED BY <3>1, FS_Union
  <2>3. IsFiniteSet({b} \cup {R(b)}) /\ IsFiniteSet({R(R(b))} \cup {R(R(R(b)))})
    BY <2>2
  <2>4. \A S, T : IsFiniteSet(S) /\ IsFiniteSet(T) => IsFiniteSet(S \cup T)
    BY FS_Union
  <2> QED BY <2>1, <2>3, <2>4
<1>3. M(b) \in Positions
  BY Closed
<1>4. Turns(M(R(b))) = Turns(M(b))
  <2>1. M(R(b)) = R(R(R(M(b))))
    BY BoardLaws
  <2>2. R(M(b)) \in Positions
    BY <1>3, Closed
  <2>3. R(R(M(b))) \in Positions
    BY <2>2, Closed
  <2>4. Turns(R(M(b))) = Turns(M(b)) /\ Turns(R(R(M(b)))) = Turns(R(M(b)))
          /\ Turns(R(R(R(M(b))))) = Turns(R(R(M(b))))
    BY <1>1, <1>3, <2>2, <2>3
  <2> QED BY <2>1, <2>4
<1>5. b \in Turns(b)
  BY DEF Turns
<1> QED BY <1>1, <1>2, <1>4, <1>5

(* The sixteen images of a board are those of each of its neighbours.       *)
LEMMA ImagesOf ==
  ASSUME Sized, NEW b \in Positions
  PROVE  /\ Images(b) \subseteq Positions /\ IsFiniteSet(Images(b)) /\ b \in Images(b)
         /\ Images(R(b)) = Images(b) /\ Images(M(b)) = Images(b) /\ Images(F(b)) = Images(b)
<1>1. M(b) \in Positions /\ F(b) \in Positions /\ R(b) \in Positions
  BY Closed
<1>2. M(F(b)) \in Positions /\ F(M(b)) \in Positions /\ F(R(b)) \in Positions
  BY <1>1, Closed
<1>3. Images(b) \subseteq Positions /\ IsFiniteSet(Images(b)) /\ b \in Images(b)
  <2>1. IsFiniteSet(Turns(b)) /\ IsFiniteSet(Turns(M(b))) /\ IsFiniteSet(Turns(F(b))) /\ IsFiniteSet(Turns(M(F(b))))
    BY <1>1, <1>2, TurnsOf
  <2>2. IsFiniteSet(Turns(b) \cup Turns(M(b)) \cup Turns(F(b)) \cup Turns(M(F(b))))
    BY <2>1, FS_Union
  <2> QED BY <1>1, <1>2, <2>2, TurnsOf, SymmetriesAre
<1>4. Images(R(b)) = Images(b)
  <2>1. Turns(R(b)) = Turns(b) /\ Turns(M(R(b))) = Turns(M(b))
    BY TurnsOf
  <2>2. F(R(b)) = R(F(b))
    BY BoardLaws
  <2>3. Turns(R(F(b))) = Turns(F(b)) /\ Turns(M(R(F(b)))) = Turns(M(F(b)))
    BY <1>1, TurnsOf
  <2> QED BY <2>1, <2>2, <2>3, SymmetriesAre
<1>5. Images(M(b)) = Images(b)
  <2>1. M(M(b)) = b /\ F(M(b)) = M(F(b))
    BY BoardLaws
  <2>2. M(M(F(b))) = F(b)
    BY <1>1, BoardLaws
  <2>3. Images(M(b)) = Turns(M(b)) \cup Turns(M(M(b))) \cup Turns(F(M(b))) \cup Turns(M(F(M(b))))
    BY SymmetriesAre
  <2>4. Images(M(b)) = Turns(M(b)) \cup Turns(b) \cup Turns(M(F(b))) \cup Turns(F(b))
    BY <2>1, <2>2, <2>3
  <2> QED BY <2>4, SymmetriesAre
<1>6. Images(F(b)) = Images(b)
  <2>1. F(F(b)) = b
    BY BoardLaws
  <2>2. Images(F(b)) = Turns(F(b)) \cup Turns(M(F(b))) \cup Turns(F(F(b))) \cup Turns(M(F(F(b))))
    BY SymmetriesAre
  <2> QED BY <2>1, <2>2, SymmetriesAre
<1> QED BY <1>3, <1>4, <1>5, <1>6

(* All boards of a symmetry class have the same class.                     *)
LEMMA OneClass ==
  ASSUME Sized, NEW b \in Positions, NEW c \in Images(b)
  PROVE  c \in Positions /\ Images(c) = Images(b)
<1>1. ASSUME NEW d \in Positions, NEW e \in Turns(d) PROVE Images(e) = Images(d)
  <2>1. R(d) \in Positions
    BY Closed
  <2>2. R(R(d)) \in Positions
    BY <2>1, Closed
  <2>3. Images(R(d)) = Images(d) /\ Images(R(R(d))) = Images(R(d)) /\ Images(R(R(R(d)))) = Images(R(R(d)))
    BY <2>1, <2>2, ImagesOf
  <2> QED BY <2>3 DEF Turns
<1>2. M(b) \in Positions /\ F(b) \in Positions
  BY Closed
<1>3. M(F(b)) \in Positions
  BY <1>2, Closed
<1>4. Images(M(b)) = Images(b) /\ Images(F(b)) = Images(b) /\ Images(M(F(b))) = Images(F(b))
  BY <1>2, ImagesOf
<1>5. c \in Turns(b) \cup Turns(M(b)) \cup Turns(F(b)) \cup Turns(M(F(b)))
  BY SymmetriesAre
<1>6. Images(c) = Images(b)
  BY <1>1, <1>2, <1>3, <1>4, <1>5
<1>7. c \in Positions
  BY ImagesOf
<1> QED BY <1>6, <1>7

(* The canonical key is one of the symmetric keys.                         *)
LEMMA CanonicalIn ==
  ASSUME Sized, NEW b \in Positions, NEW n \in {1, 4, 8, 16}
  PROVE  /\ dev_canonicalize(b, n) \in Symmetries(b, n)
         /\ Symmetries(b, n) \subseteq Images(b)
         /\ dev_canonicalize(b, n) \in Positions
<1>1. b \in Symmetries(b, n) /\ Symmetries(b, n) \subseteq Images(b)
  BY SymmetriesAre, TurnsOf DEF Images
<1>2. IsFiniteSet(Symmetries(b, n)) /\ Symmetries(b, n) \subseteq Positions
  BY <1>1, ImagesOf, FS_Subset
<1>3. \E x \in Symmetries(b, n) : \A y \in Symmetries(b, n) : ~dev_boardLT(y, x)
  BY <1>1, <1>2, LeastBoard
<1>4. dev_canonicalize(b, n) \in Symmetries(b, n)
  BY <1>3 DEF dev_canonicalize
<1> QED BY <1>1, <1>2, <1>4

(* Symmetric keys have the same canonical key.                             *)
LEMMA CanonicalOfClass ==
  ASSUME Sized, NEW b \in Positions, NEW c \in Images(b)
  PROVE  dev_canonicalize(c, 16) = dev_canonicalize(b, 16)
<1>1. Symmetries(c, 16) = Symmetries(b, 16)
  BY OneClass DEF Images
<1> QED BY <1>1 DEF dev_canonicalize

-----------------------------------------------------------------------------
(* The cell-by-cell symmetries and the library's: one representative.       *)

(* The word tricks of both libraries are the turn and the mirror image of  *)
(* the cells.                                                              *)
LEMMA CellSymmetries ==
  ASSUME Sized, NEW b \in Positions
  PROVE  /\ CellRotate(b) = Moved(b, rotate90)
         /\ CellMirror(b) = Moved(b, mirrorBytewise)
<1>1. ASSUME NEW c \in Bits
      PROVE  /\ CellBit(ColOf(c), 7 - RowOf(c)) = rotate90[c]
             /\ CellBit(RowOf(c), Ei - 1 - (ColOf(c) - Si)) = mirrorBytewise[c]
  <2>1. PICK i, j \in 0..7 : c = 8 * i + j
    BY CellOfBit
  <2>2. RowOf(c) = 7 - i /\ ColOf(c) = 7 - j
    BY <2>1, CellNumbers
  <2>3. CellBit(7 - j, 7 - (7 - i)) = 8 * j + (7 - i)
    BY DEF CellBit
  <2>4. Ei - 1 - (7 - j - Si) = j
    BY DEF Ei, Si, Sized
  <2>5. CellBit(7 - i, j) = 8 * i + (7 - j)
    BY DEF CellBit
  <2> QED BY <2>1, <2>2, <2>3, <2>4, <2>5, QuarterTurn, ByteMirror
<1>2. b.used \subseteq BoardMask /\ b.used \cap b.colors = b.colors /\ b.colors \subseteq BoardMask
  BY PositionFields
<1> DEFINE Turned(x) == {CellBit(ColOf(c), 7 - RowOf(c)) : c \in x \cap BoardMask}
           Mirrored(x) == {CellBit(RowOf(c), Ei - 1 - (ColOf(c) - Si)) : c \in x \cap BoardMask}
<1>3. \A x \in SUBSET BoardMask : Turned(x) = Permute(x, rotate90) /\ Mirrored(x) = Permute(x, mirrorBytewise)
  BY <1>1, MaskInBits DEF Permute
<1>4. CellRotate(b) = [b EXCEPT !.used = Turned(b.used), !.colors = Turned(b.used \cap b.colors)]
  BY DEF CellRotate
<1>5. CellMirror(b) = [b EXCEPT !.used = Mirrored(b.used), !.colors = Mirrored(b.used \cap b.colors)]
  BY DEF CellMirror
<1> HIDE DEF Turned, Mirrored
<1>6. Turned(b.used) = Permute(b.used, rotate90) /\ Turned(b.used \cap b.colors) = Permute(b.colors, rotate90)
  BY <1>2, <1>3
<1>7. Mirrored(b.used) = Permute(b.used, mirrorBytewise) /\ Mirrored(b.used \cap b.colors) = Permute(b.colors, mirrorBytewise)
  BY <1>2, <1>3
<1> QED BY <1>4, <1>5, <1>6, <1>7 DEF Moved

(* The turn and the mirror of the library are those of the device.          *)
LEMMA LibrarySymmetries ==
  ASSUME NEW b
  PROVE  BoardRotate90DegreesRight(b) = R(b) /\ BoardMirrorVerticalAxis(b) = M(b)
BY TurnsAreMoves DEF BoardRotate90DegreesRight, BoardMirrorVerticalAxis, Moved

(* So is its color swap, on positions: it masks what is already masked.     *)
LEMMA LibraryFlip ==
  ASSUME NEW b \in Positions
  PROVE  BoardFlip(b) = F(b)
<1> DEFINE u == b.used
           c == b.used \ b.colors
           n == 1 - b.next
<1>1. BoardFlip(b) = [used |-> u, colors |-> c, next |-> n]
  <2>1. b.used \cap BoardMask = b.used
    BY PositionFields
  <2> QED BY <2>1 DEF BoardFlip
<1>2. u \subseteq BoardMask /\ c \subseteq u /\ n \in {White, Black} /\ FirstBoard.used \subseteq u
  BY PositionFields DEF White, Black
<1>3. F(b).used = u /\ F(b).colors = c /\ F(b).next = n /\ F(b) \in Positions
  BY FlippedFields, FlippedPosition DEF F
<1> HIDE DEF u, c, n
<1>4. BoardFlip(b) \in Positions
  <2>1. BoardFlip(b) \in [used : SUBSET BoardMask, colors : SUBSET BoardMask, next : {White, Black}]
    BY <1>1, <1>2
  <2> QED BY <1>1, <1>2, <2>1, FieldsPosition
<1>5. BoardFlip(b).used = u /\ BoardFlip(b).colors = c /\ BoardFlip(b).next = n
  BY <1>1
<1> QED BY <1>3, <1>4, <1>5, SamePosition

(* The elements of two sequences put together.                              *)
LEMMA RangeOfConcat ==
  ASSUME NEW S, NEW s \in Seq(S), NEW t \in Seq(S)
  PROVE  Range(s \o t) = Range(s) \cup Range(t)
<1>1. /\ s \o t \in Seq(S) /\ Len(s \o t) = Len(s) + Len(t) /\ Len(s) \in Nat /\ Len(t) \in Nat
      /\ \A i \in 1..Len(s) + Len(t) : (s \o t)[i] = IF i <= Len(s) THEN s[i] ELSE t[i - Len(s)]
  BY ConcatProperties, LenProperties
<1>2. DOMAIN s = 1..Len(s) /\ DOMAIN t = 1..Len(t) /\ DOMAIN (s \o t) = 1..(Len(s) + Len(t))
  BY <1>1, LenProperties
<1>3. ASSUME NEW i \in 1..(Len(s) + Len(t)) PROVE (s \o t)[i] \in Range(s) \cup Range(t)
  <2>1. CASE i <= Len(s)
    <3>1. i \in 1..Len(s)
      BY <1>1, <2>1
    <3> QED BY <1>1, <1>2, <2>1, <3>1 DEF Range
  <2>2. CASE i > Len(s)
    <3>1. i - Len(s) \in 1..Len(t)
      BY <1>1, <2>2
    <3>2. (s \o t)[i] = t[i - Len(s)]
      BY <1>1, <2>2
    <3> QED BY <1>2, <3>1, <3>2 DEF Range
  <2> QED BY <1>1, <2>1, <2>2
<1>4. ASSUME NEW i \in 1..Len(s) PROVE s[i] \in Range(s \o t)
  <2>1. i \in 1..(Len(s) + Len(t)) /\ i <= Len(s)
    BY <1>1
  <2>2. (s \o t)[i] = s[i]
    BY <1>1, <2>1
  <2> QED BY <1>2, <2>1, <2>2 DEF Range
<1>5. ASSUME NEW i \in 1..Len(t) PROVE t[i] \in Range(s \o t)
  <2>1. i + Len(s) \in 1..(Len(s) + Len(t)) /\ ~(i + Len(s) <= Len(s)) /\ i + Len(s) - Len(s) = i
    BY <1>1
  <2>2. (s \o t)[i + Len(s)] = t[i]
    BY <1>1, <2>1
  <2> QED BY <1>2, <2>1, <2>2 DEF Range
<1> QED BY <1>2, <1>3, <1>4, <1>5 DEF Range

(* The four turns as a sequence.                                            *)
LEMMA FourTurnsAre ==
  ASSUME NEW b
  PROVE  Range(FourTurns(b)) = Turns(b) /\ \A S : Turns(b) \subseteq S => FourTurns(b) \in Seq(S)
<1>1. FourTurns(b) = <<b, R(b), R(R(b)), R(R(R(b)))>>
  BY LibrarySymmetries DEF FourTurns
<1> DEFINE b1 == R(b)
           b2 == R(R(b))
           b3 == R(R(R(b)))
<1> HIDE DEF b1, b2, b3
<1>2. FourTurns(b) = <<b, b1, b2, b3>> /\ Turns(b) = {b, b1, b2, b3}
  BY <1>1 DEF Turns, b1, b2, b3
<1>3. DOMAIN <<b, b1, b2, b3>> = {1, 2, 3, 4}
  OBVIOUS
<1>4. Range(<<b, b1, b2, b3>>) = {b, b1, b2, b3}
  BY <1>3 DEF Range
<1>5. \A S : {b, b1, b2, b3} \subseteq S => <<b, b1, b2, b3>> \in Seq(S)
  OBVIOUS
<1> QED BY <1>2, <1>4, <1>5

(* The CPU sorts sixteen boards, the GPU scans them: both take the least.  *)
LEMMA SameRepresentative ==
  ASSUME Sized, NEW b \in Positions, NEW n \in {1, 4, 8, 16}
  PROVE  BoardCreateUniqueBoard(b, n) = dev_canonicalize(b, n)
<1> DEFINE eight(x) == FourTurns(x) \o FourTurns(BoardMirrorVerticalAxis(x))
           boards == CASE n = 16 -> eight(b) \o eight(BoardFlip(b))
                       [] n = 8  -> eight(b)
                       [] n = 4  -> FourTurns(b)
                       [] OTHER  -> <<b>>
<1>1. ASSUME NEW x \in Positions
      PROVE  eight(x) \in Seq(Positions) /\ Range(eight(x)) = Turns(x) \cup Turns(M(x))
  <2>1. M(x) \in Positions
    BY Closed
  <2>2. Turns(x) \subseteq Positions /\ Turns(M(x)) \subseteq Positions
    BY <2>1, TurnsOf
  <2>3. FourTurns(x) \in Seq(Positions) /\ FourTurns(M(x)) \in Seq(Positions)
    BY <2>2, FourTurnsAre
  <2>4. Range(FourTurns(x) \o FourTurns(M(x))) = Turns(x) \cup Turns(M(x))
    BY <2>3, RangeOfConcat, FourTurnsAre
  <2>5. FourTurns(x) \o FourTurns(M(x)) \in Seq(Positions)
    BY <2>3, ConcatProperties
  <2> QED BY <2>4, <2>5, LibrarySymmetries
<1>2. F(b) \in Positions
  BY Closed
<1> HIDE DEF eight
<1>3. Range(eight(b) \o eight(BoardFlip(b))) = Symmetries(b, 16)
  <2>1. BoardFlip(b) = F(b)
    BY LibraryFlip
  <2>2. Range(eight(b) \o eight(F(b))) = Range(eight(b)) \cup Range(eight(F(b)))
    BY <1>1, <1>2, RangeOfConcat
  <2> QED BY <1>1, <1>2, <2>1, <2>2, SymmetriesAre DEF Images
<1>4. Range(<<b>>) = {b}
  BY DEF Range
<1>5. Range(boards) = Symmetries(b, n)
  <2>1. CASE n = 16
    BY <2>1, <1>3
  <2>2. CASE n = 8
    <3>1. boards = eight(b)
      BY <2>2
    <3> QED BY <2>2, <3>1, <1>1, SymmetriesAre
  <2>3. CASE n = 4
    BY <2>3, FourTurnsAre, SymmetriesAre
  <2>4. CASE n = 1
    <3>1. boards = <<b>>
      BY <2>4
    <3> HIDE DEF boards
    <3>2. Symmetries(b, 1) = {b}
      BY SymmetriesAre
    <3> QED BY <2>4, <3>1, <3>2, <1>4
  <2> QED BY <2>1, <2>2, <2>3, <2>4
<1>6. \A x, y : BoardLess(x, y) <=> dev_boardLT(x, y)
  BY DEF BoardLess, dev_boardLT, WordLess
<1>7. BoardCreateUniqueBoard(b, n) =
        CHOOSE x \in {boards[i] : i \in DOMAIN boards} : \A i \in DOMAIN boards : ~BoardLess(boards[i], x)
  BY DEF BoardCreateUniqueBoard, eight
<1> HIDE DEF boards
<1>8. {boards[i] : i \in DOMAIN boards} = Symmetries(b, n)
  BY <1>5 DEF Range
<1>9. \A x : (\A i \in DOMAIN boards : ~BoardLess(boards[i], x)) <=> (\A y \in Symmetries(b, n) : ~dev_boardLT(y, x))
  BY <1>6, <1>8
<1>10. BoardCreateUniqueBoard(b, n) = CHOOSE x \in Symmetries(b, n) : \A y \in Symmetries(b, n) : ~dev_boardLT(y, x)
  BY <1>7, <1>8, <1>9
<1> QED BY <1>10 DEF dev_canonicalize

-----------------------------------------------------------------------------
(* The propagation of shifted words, as walks over the bits.                *)

(* The cells k steps from the first, all between and the last in through.  *)
Walked(first, d, through, k) ==
  {x \in Int : /\ x - k * d.by \in first
               /\ \A l \in 0..(k - 1) : x - l * d.by \in through \cap Bits /\ x - (l + 1) * d.by \in d.keep}

(* One more propagation step walks one cell further.                        *)
LEMMA WalkOn ==
  ASSUME NEW first \in SUBSET Int, NEW d, d.by \in Int, NEW through, NEW k \in Nat
  PROVE  Walked(first, d, through, k + 1) = Shift(Walked(first, d, through, k), d) \cap through
<1> DEFINE W == Walked(first, d, through, k)
           V == Walked(first, d, through, k + 1)
           by == d.by
           keep == d.keep
<1>1. ASSUME NEW x \in V PROVE x \in Shift(W, d) \cap through
  <2>1. /\ x \in Int /\ x - (k + 1) * by \in first
        /\ \A l \in 0..((k + 1) - 1) : x - l * by \in through \cap Bits /\ x - (l + 1) * by \in keep
    BY <1>1 DEF Walked
  <2> DEFINE y == x - by
  <2>2. x \in through \cap Bits /\ y \in keep
    <3>1. 0 \in 0..((k + 1) - 1) /\ x - 0 * by = x /\ x - (0 + 1) * by = y
      BY <2>1
    <3> QED BY <2>1, <3>1
  <2>3. y \in Int /\ y - k * by = x - (k + 1) * by
    BY <2>1
  <2>4. ASSUME NEW l \in 0..(k - 1) PROVE y - l * by \in through \cap Bits /\ y - (l + 1) * by \in keep
    <3>1. l + 1 \in 0..((k + 1) - 1) /\ y - l * by = x - (l + 1) * by /\ y - (l + 1) * by = x - ((l + 1) + 1) * by
      BY <2>1
    <3> QED BY <2>1, <3>1
  <2>5. y \in W
    BY <2>1, <2>3, <2>4 DEF Walked
  <2>6. x = y + by
    BY <2>1
  <2> HIDE DEF y, W, V
  <2> QED BY <2>2, <2>5, <2>6 DEF Shift
<1>2. ASSUME NEW x \in Shift(W, d) \cap through PROVE x \in V
  <2>1. PICK y \in W \cap keep : x = y + by
    BY <1>2 DEF Shift
  <2>2. x \in Bits /\ x \in through
    BY <1>2 DEF Shift
  <2>3. /\ y \in Int /\ y - k * by \in first
        /\ \A l \in 0..(k - 1) : y - l * by \in through \cap Bits /\ y - (l + 1) * by \in keep
    BY <2>1 DEF Walked
  <2>4. x \in Int /\ y = x - by /\ y - k * by = x - (k + 1) * by
    BY <2>1, <2>3
  <2>5. ASSUME NEW l \in 0..((k + 1) - 1) PROVE x - l * by \in through \cap Bits /\ x - (l + 1) * by \in keep
    <3>1. CASE l = 0
      <4>1. x - l * by = x /\ x - (l + 1) * by = y
        BY <3>1, <2>4
      <4> QED BY <2>1, <2>2, <4>1
    <3>2. CASE l > 0
      <4>1. l - 1 \in 0..(k - 1) /\ y - (l - 1) * by = x - l * by /\ y - ((l - 1) + 1) * by = x - (l + 1) * by
        BY <3>2, <2>4
      <4> QED BY <2>3, <4>1
    <3> QED BY <3>1, <3>2
  <2> QED BY <2>3, <2>4, <2>5 DEF Walked
<1> HIDE DEF W, V
<1>3. V = Shift(W, d) \cap through
  BY <1>1, <1>2
<1> QED BY <1>3 DEF W, V

(* Without a step there are only the first cells.                           *)
LEMMA WalkNowhere ==
  ASSUME NEW first \in SUBSET Int, NEW d, d.by \in Int, NEW through
  PROVE  Walked(first, d, through, 0) = first
<1>1. \A x \in Int : x - 0 * d.by = x
  OBVIOUS
<1>2. 0..(0 - 1) = {}
  OBVIOUS
<1>3. Walked(first, d, through, 0) = {x \in Int : x \in first}
  BY <1>1, <1>2 DEF Walked
<1> QED BY <1>3

(* A shift distributes over the union of words.                             *)
LEMMA ShiftUnion ==
  ASSUME NEW x, NEW y, NEW d
  PROVE  Shift(x \cup y, d) = Shift(x, d) \cup Shift(y, d)
BY DEF Shift

(* Five propagation steps reach the cells up to five steps away.           *)
LEMMA FillWalks ==
  ASSUME NEW first \in SUBSET Int, NEW d, d.by \in Int, NEW through
  PROVE  Fill(first, d, through) = UNION {Walked(first, d, through, k) : k \in 0..5}
<1> DEFINE Grow(x) == x \cup (Shift(x, d) \cap through)
           W(k) == Walked(first, d, through, k)
<1>1. W(0) = first
  BY WalkNowhere
<1>2. \A k \in Nat : W(k + 1) = Shift(W(k), d) \cap through
  BY WalkOn
<1>3. Fill(first, d, through) = Grow(Grow(Grow(Grow(Grow(first)))))
  BY DEF Fill
<1>4. \A x, y : Grow(x \cup y) = Grow(x) \cup Grow(y)
  BY ShiftUnion
<1>5. \A k \in Nat : Grow(W(k)) = W(k) \cup W(k + 1)
  BY <1>2
<1> HIDE DEF Grow, W
<1>6. Grow(W(0)) = W(0) \cup W(1) /\ Grow(W(1)) = W(1) \cup W(2) /\ Grow(W(2)) = W(2) \cup W(3)
        /\ Grow(W(3)) = W(3) \cup W(4) /\ Grow(W(4)) = W(4) \cup W(5)
  <2>1. 0 + 1 = 1 /\ 1 + 1 = 2 /\ 2 + 1 = 3 /\ 3 + 1 = 4 /\ 4 + 1 = 5
    OBVIOUS
  <2>2. 0 \in Nat /\ 1 \in Nat /\ 2 \in Nat /\ 3 \in Nat /\ 4 \in Nat
    OBVIOUS
  <2> QED BY <1>5, <2>1, <2>2
<1> DEFINE U1 == W(0) \cup W(1)
           U2 == U1 \cup W(2)
           U3 == U2 \cup W(3)
           U4 == U3 \cup W(4)
           U5 == U4 \cup W(5)
<1>7. Grow(U1) = U2
  <2>1. Grow(U1) = Grow(W(0)) \cup Grow(W(1))
    BY ONLY <1>4
  <2> QED BY ONLY <2>1, <1>6
<1>8. Grow(U2) = U3
  <2>1. Grow(U2) = Grow(U1) \cup Grow(W(2))
    BY ONLY <1>4
  <2> HIDE DEF U1
  <2> QED BY ONLY <2>1, <1>6, <1>7
<1>9. Grow(U3) = U4
  <2>1. Grow(U3) = Grow(U2) \cup Grow(W(3))
    BY ONLY <1>4
  <2> HIDE DEF U2
  <2> QED BY ONLY <2>1, <1>6, <1>8
<1>10. Grow(U4) = U5
  <2>1. Grow(U4) = Grow(U3) \cup Grow(W(4))
    BY ONLY <1>4
  <2> HIDE DEF U3
  <2> QED BY ONLY <2>1, <1>6, <1>9
<1>11. UNION {W(k) : k \in 0..5} = W(0) \cup W(1) \cup W(2) \cup W(3) \cup W(4) \cup W(5)
  <2>1. 0..5 = {0, 1, 2, 3, 4, 5}
    OBVIOUS
  <2> QED BY <2>1
<1>12. Fill(first, d, through) = U5
  <2>1. Grow(W(0)) = U1
    BY ONLY <1>6
  <2> HIDE DEF U1, U2, U3, U4, U5
  <2> QED BY ONLY <2>1, <1>1, <1>3, <1>7, <1>8, <1>9, <1>10
<1> QED BY <1>11, <1>12 DEF W

(* A run of the opponent's cells between the cell m and one's own, n steps away. *)
Line(d, mine, theirs, m, n) ==
  /\ \A l \in 1..(n - 1) : m - l * d.by \in theirs \cap d.keep
  /\ m - n * d.by \in mine \cap d.keep

(* The moves found in one direction are the empty ends of such lines.      *)
LEMMA MovesAreLines ==
  ASSUME NEW d, d.by \in Int, NEW mine \in SUBSET Bits, NEW theirs \in SUBSET Bits, NEW m
  PROVE  LET through == theirs \cap d.keep
             run == Fill(Shift(mine, d) \cap through, d, through)
         IN  m \in Shift(run, d) <=> m \in Bits /\ \E n \in 2..7 : Line(d, mine, theirs, m, n)
<1> DEFINE by == d.by
           keep == d.keep
           through == theirs \cap keep
           first == Shift(mine, d) \cap through
           run == Fill(first, d, through)
<1>1. first \in SUBSET Int
  BY DEF Shift, Bits
<1>2. run = UNION {Walked(first, d, through, k) : k \in 0..5}
  <2> HIDE DEF first, through
  <2> QED BY <1>1, FillWalks
<1>3. \A y : y \in first <=> y \in Bits /\ y \in through /\ y - by \in mine \cap keep
  <2>1. ASSUME NEW y \in first PROVE y \in Bits /\ y \in through /\ y - by \in mine \cap keep
    <3>1. PICK p \in mine \cap keep : y = p + by
      BY <2>1 DEF Shift
    <3>2. y - by = p
      BY <3>1 DEF Bits
    <3> QED BY <2>1, <3>1, <3>2 DEF Shift
  <2>2. ASSUME NEW y \in Bits, y \in through, y - by \in mine \cap keep PROVE y \in first
    <3>1. y = (y - by) + by
      BY DEF Bits
    <3> QED BY <2>2, <3>1 DEF Shift
  <2> HIDE DEF first, through, by, keep
  <2> QED BY <2>1, <2>2
<1>4. ASSUME m \in Shift(run, d) PROVE m \in Bits /\ \E n \in 2..7 : Line(d, mine, theirs, m, n)
  <2>1. m \in Bits
    BY <1>4 DEF Shift
  <2>2. PICK y \in run \cap keep : m = y + by
    BY <1>4 DEF Shift
  <2>3. PICK k \in 0..5 : y \in Walked(first, d, through, k)
    <3> HIDE DEF run, first, through
    <3> QED BY <1>2, <2>2
  <2> HIDE DEF run, first
  <2>4. y \in Int /\ y - k * by \in first
        /\ \A l \in 0..(k - 1) : y - l * by \in through \cap Bits /\ y - (l + 1) * by \in keep
    BY <2>3 DEF Walked
  <2>5. y - k * by \in through /\ (y - k * by) - by \in mine \cap keep
    BY <1>3, <2>4
  <2>6. k + 2 \in 2..7 /\ (y - k * by) - by = m - (k + 2) * by
    <3> HIDE DEF by
    <3>1. by \in Int
      BY DEF by
    <3>2. (k + 2) * by = k * by + 2 * by /\ k * by \in Int
      BY <3>1
    <3> QED BY <2>2, <2>4, <3>1, <3>2
  <2>7. ASSUME NEW l \in 1..((k + 2) - 1) PROVE m - l * by \in theirs \cap keep
    <3>1. l - 1 \in 0..k /\ m - l * by = y - (l - 1) * by
      BY <2>2, <2>4
    <3>2. CASE l - 1 = k
      BY <2>5, <3>1, <3>2
    <3>3. CASE l - 1 \in 0..(k - 1)
      BY <2>4, <3>1, <3>3
    <3> QED BY <3>1, <3>2, <3>3
  <2>8. Line(d, mine, theirs, m, k + 2)
    BY <2>5, <2>6, <2>7 DEF Line
  <2> QED BY <2>1, <2>6, <2>8
<1>5. ASSUME m \in Bits, NEW n \in 2..7, Line(d, mine, theirs, m, n) PROVE m \in Shift(run, d)
  <2> DEFINE k == n - 2
             y == m - by
  <2>1. k \in 0..5 /\ y \in Int /\ m \in Int
    BY <1>5 DEF Bits
  <2>2. \A l \in 1..(n - 1) : m - l * by \in theirs \cap keep
    BY <1>5 DEF Line
  <2>3. m - n * by \in mine \cap keep
    BY <1>5 DEF Line
  <2>4. y - k * by \in first
    <3>1. y - k * by = m - (n - 1) * by /\ (y - k * by) - by = m - n * by /\ n - 1 \in 1..(n - 1)
      BY <2>1
    <3>2. y - k * by \in through
      BY <2>2, <3>1
    <3> HIDE DEF first, y, k, by, keep
    <3> QED BY <1>3, <2>3, <3>1, <3>2
  <2>5. ASSUME NEW l \in 0..(k - 1) PROVE y - l * by \in through \cap Bits /\ y - (l + 1) * by \in keep
    <3>1. l + 1 \in 1..(n - 1) /\ l + 2 \in 1..(n - 1) /\ y - l * by = m - (l + 1) * by /\ y - (l + 1) * by = m - (l + 2) * by
      BY <2>1
    <3> QED BY <2>2, <3>1
  <2>6. y \in Walked(first, d, through, k)
    <3> HIDE DEF first, k, y, through
    <3> QED BY <2>1, <2>4, <2>5 DEF Walked
  <2>7. y \in keep
    <3>1. 1 \in 1..(n - 1) /\ m - 1 * by = y
      BY <2>1
    <3> QED BY <2>2, <3>1
  <2>8. m = y + by
    BY <2>1
  <2>9. y \in run
    <3> HIDE DEF run, first, through, y, k
    <3> QED BY <1>2, <2>1, <2>6
  <2> HIDE DEF run, y
  <2> QED BY <1>5, <2>7, <2>8, <2>9 DEF Shift
<1> HIDE DEF run
<1>6. m \in Shift(run, d) <=> m \in Bits /\ \E n \in 2..7 : Line(d, mine, theirs, m, n)
  BY <1>4, <1>5
<1> QED BY <1>6 DEF run

-----------------------------------------------------------------------------
(* Directions, masks and coordinates: one step over the board.              *)

(* The eight directions as numbers of bits, and the cells a shift may leave:
   for the moves, which come from a player's cell to the empty one, those the
   edges of the board let through; for the flips, which go the other way,
   those the edges of the grid let through.                                *)
Step(e) == 8 * e[1] + e[2]
MoveKeep(e) == CASE e[2] = -1 -> Bits \ RightEdge
                 [] e[2] = 1  -> Bits \ LeftEdge
                 [] OTHER     -> Bits
FlipKeep(e) == CASE e[2] = -1 -> {b \in Bits : ColOf(b) # 0}
                 [] e[2] = 1  -> {b \in Bits : ColOf(b) # 7}
                 [] OTHER     -> Bits
MoveDir(e) == [by |-> Step(e), keep |-> MoveKeep(e)]
FlipDir(e) == [by |-> -Step(e), keep |-> FlipKeep(e)]

(* The eight directions, one by one.                                        *)
LEMMA EightDirections ==
  Dirs8 = {<<-1, -1>>, <<-1, 0>>, <<-1, 1>>, <<0, -1>>, <<0, 1>>, <<1, -1>>, <<1, 0>>, <<1, 1>>}
<1>1. -1..1 = {-1, 0, 1}
  OBVIOUS
<1>2. (-1..1) \X (-1..1) = {<<x, y>> : x \in {-1, 0, 1}, y \in {-1, 0, 1}}
  BY <1>1
<1> QED BY <1>2 DEF Dirs8

(* The parts of a direction, and l steps of it in bits.                     *)
LEMMA DirectionParts ==
  ASSUME NEW e \in Dirs8
  PROVE  /\ e[1] \in {-1, 0, 1} /\ e[2] \in {-1, 0, 1} /\ (e[1] # 0 \/ e[2] # 0)
         /\ e[1] \in Int /\ e[2] \in Int /\ Step(e) \in Int
         /\ \A l \in Int : l * Step(e) = 8 * (l * e[1]) + l * e[2] /\ l * e[1] \in Int /\ l * e[2] \in Int
<1>1. e[1] \in {-1, 0, 1} /\ e[2] \in {-1, 0, 1} /\ (e[1] # 0 \/ e[2] # 0)
  BY EightDirections
<1>2. e[1] \in Int /\ e[2] \in Int /\ Step(e) \in Int
  BY <1>1 DEF Step
<1>3. \A l \in Int : l * Step(e) = 8 * (l * e[1]) + l * e[2] /\ l * e[1] \in Int /\ l * e[2] \in Int
  BY <1>1 DEF Step
<1> QED BY <1>1, <1>2, <1>3

(* The masks of a direction by its column part.                             *)
LEMMA TheKeeps ==
  ASSUME NEW e \in Dirs8
  PROVE  /\ e[2] = -1 => MoveKeep(e) = Bits \ RightEdge /\ FlipKeep(e) = {b \in Bits : ColOf(b) # 0}
         /\ e[2] = 1 => MoveKeep(e) = Bits \ LeftEdge /\ FlipKeep(e) = {b \in Bits : ColOf(b) # 7}
         /\ e[2] = 0 => MoveKeep(e) = Bits /\ FlipKeep(e) = Bits
BY DEF MoveKeep, FlipKeep

(* The tables of directions of the CPU and of the GPU are these.           *)
LEMMA MoveTable ==
  LET c == OBCuda_GetBoardConsts
      notRight == Bits \ c.boardRightEdge
      notLeft  == Bits \ c.boardLeftEdge
  IN  /\ MoveDirs = {MoveDir(e) : e \in Dirs8}
      /\ {[by |-> n, keep |-> notRight] : n \in {-1, -9, 7}}
           \cup {[by |-> n, keep |-> notLeft] : n \in {1, -7, 9}}
           \cup {[by |-> n, keep |-> Bits] : n \in {-8, 8}} = MoveDirs
      /\ c.boardMask = BoardMask
<1> DEFINE nr == Bits \ RightEdge
           nl == Bits \ LeftEdge
           all == Bits
           At8(f(_)) == {f(<<-1, -1>>), f(<<-1, 0>>), f(<<-1, 1>>), f(<<0, -1>>), f(<<0, 1>>),
                         f(<<1, -1>>), f(<<1, 0>>), f(<<1, 1>>)}
<1>1. OBCuda_GetBoardConsts.boardMask = BoardMask /\ OBCuda_GetBoardConsts.boardRightEdge = RightEdge
        /\ OBCuda_GetBoardConsts.boardLeftEdge = LeftEdge
  BY DEF OBCuda_GetBoardConsts
<1>2. MoveDirs = {[by |-> -1, keep |-> nr], [by |-> 1, keep |-> nl], [by |-> -8, keep |-> all], [by |-> 8, keep |-> all],
                  [by |-> -9, keep |-> nr], [by |-> -7, keep |-> nl], [by |-> 7, keep |-> nr], [by |-> 9, keep |-> nl]}
  BY DEF MoveDirs
<1>3. /\ MoveDir(<<-1, -1>>) = [by |-> -9, keep |-> nr]
      /\ MoveDir(<<-1, 0>>) = [by |-> -8, keep |-> all]
      /\ MoveDir(<<-1, 1>>) = [by |-> -7, keep |-> nl]
      /\ MoveDir(<<0, -1>>) = [by |-> -1, keep |-> nr]
      /\ MoveDir(<<0, 1>>) = [by |-> 1, keep |-> nl]
      /\ MoveDir(<<1, -1>>) = [by |-> 7, keep |-> nr]
      /\ MoveDir(<<1, 0>>) = [by |-> 8, keep |-> all]
      /\ MoveDir(<<1, 1>>) = [by |-> 9, keep |-> nl]
  BY DEF MoveDir, MoveKeep, Step
<1>4. {MoveDir(e) : e \in Dirs8} = At8(MoveDir)
  BY EightDirections
<1> HIDE DEF nr, nl, all
<1>5. {MoveDir(e) : e \in Dirs8} = MoveDirs
  BY <1>2, <1>3, <1>4
<1>6. {[by |-> n, keep |-> nr] : n \in {-1, -9, 7}}
           \cup {[by |-> n, keep |-> nl] : n \in {1, -7, 9}}
           \cup {[by |-> n, keep |-> all] : n \in {-8, 8}} = MoveDirs
  BY <1>2
<1> QED BY <1>1, <1>5, <1>6 DEF nr, nl, all

(* The tables of the flips are these, too.                                  *)
LEMMA FlipTable ==
  LET nlc == Bits \ ByteMask(0..7, {7})
      nrc == Bits \ ByteMask(0..7, {0})
  IN  /\ FlipDirs = {FlipDir(e) : e \in Dirs8}
      /\ {[by |-> 8, keep |-> Bits], [by |-> -8, keep |-> Bits]}
           \cup {[by |-> n, keep |-> nrc] : n \in {-1, -9, 7}}
           \cup {[by |-> n, keep |-> nlc] : n \in {1, -7, 9}} = FlipDirs
<1> DEFINE nr == {b \in Bits : ColOf(b) # 7}
           nl == {b \in Bits : ColOf(b) # 0}
           all == Bits
           At8(f(_)) == {f(<<-1, -1>>), f(<<-1, 0>>), f(<<-1, 1>>), f(<<0, -1>>), f(<<0, 1>>),
                         f(<<1, -1>>), f(<<1, 0>>), f(<<1, 1>>)}
<1>1. Bits \ ByteMask(0..7, {7}) = nl /\ Bits \ ByteMask(0..7, {0}) = nr
  <2>1. ASSUME NEW b \in Bits PROVE (b \in ByteMask(0..7, {7}) <=> ColOf(b) = 0) /\ (b \in ByteMask(0..7, {0}) <=> ColOf(b) = 7)
    <3>1. PICK i, j \in 0..7 : b = 8 * i + j
      BY CellOfBit
    <3>2. ColOf(b) = 7 - j
      BY <3>1 DEF ColOf
    <3>3. b \in ByteMask(0..7, {7}) <=> j = 7
      BY <3>1 DEF ByteMask
    <3>4. b \in ByteMask(0..7, {0}) <=> j = 0
      BY <3>1 DEF ByteMask
    <3> QED BY <3>2, <3>3, <3>4
  <2> QED BY <2>1
<1>2. FlipDirs = {[by |-> 8, keep |-> all], [by |-> -8, keep |-> all], [by |-> -1, keep |-> nr], [by |-> 1, keep |-> nl],
                  [by |-> -9, keep |-> nr], [by |-> -7, keep |-> nl], [by |-> 7, keep |-> nr], [by |-> 9, keep |-> nl]}
  BY DEF FlipDirs
<1>3. /\ FlipDir(<<-1, -1>>) = [by |-> 9, keep |-> nl]
      /\ FlipDir(<<-1, 0>>) = [by |-> 8, keep |-> all]
      /\ FlipDir(<<-1, 1>>) = [by |-> 7, keep |-> nr]
      /\ FlipDir(<<0, -1>>) = [by |-> 1, keep |-> nl]
      /\ FlipDir(<<0, 1>>) = [by |-> -1, keep |-> nr]
      /\ FlipDir(<<1, -1>>) = [by |-> -7, keep |-> nl]
      /\ FlipDir(<<1, 0>>) = [by |-> -8, keep |-> all]
      /\ FlipDir(<<1, 1>>) = [by |-> -9, keep |-> nr]
  BY DEF FlipDir, FlipKeep, Step
<1>4. {FlipDir(e) : e \in Dirs8} = At8(FlipDir)
  BY EightDirections
<1> HIDE DEF nr, nl, all
<1>5. {FlipDir(e) : e \in Dirs8} = FlipDirs
  BY <1>2, <1>3, <1>4
<1>6. {[by |-> 8, keep |-> all], [by |-> -8, keep |-> all]}
           \cup {[by |-> n, keep |-> nr] : n \in {-1, -9, 7}}
           \cup {[by |-> n, keep |-> nl] : n \in {1, -7, 9}} = FlipDirs
  BY <1>2
<1> QED BY <1>1, <1>5, <1>6 DEF nr, nl, all

(* Bits and coordinates; the board and its edges by coordinates.            *)
LEMMA Coordinates ==
  /\ \A p \in Bits : RowOf(p) \in 0..7 /\ ColOf(p) \in 0..7 /\ p = 63 - (8 * RowOf(p) + ColOf(p))
  /\ \A r, c \in 0..7 : LET p == 63 - (8 * r + c) IN p \in Bits /\ RowOf(p) = r /\ ColOf(p) = c
  /\ Sized => /\ Rows \subseteq 0..7
              /\ \A p \in Bits : /\ p \in BoardMask <=> RowOf(p) \in Rows /\ ColOf(p) \in Rows
                                 /\ p \in LeftEdge <=> RowOf(p) \in Rows /\ ColOf(p) = Si
                                 /\ p \in RightEdge <=> RowOf(p) \in Rows /\ ColOf(p) = Ei - 1
<1>1. \A p \in Bits : RowOf(p) \in 0..7 /\ ColOf(p) \in 0..7 /\ p = 63 - (8 * RowOf(p) + ColOf(p))
  BY DEF RowOf, ColOf, Bits
<1>2. \A r, c \in 0..7 : LET p == 63 - (8 * r + c) IN p \in Bits /\ RowOf(p) = r /\ ColOf(p) = c
  BY DEF RowOf, ColOf, Bits
<1>3. Sized => Rows \subseteq 0..7 /\ Si \in Rows /\ Ei - 1 \in Rows
  BY DEF Sized, Rows, Si, Ei
<1>4. \A r, c \in 0..7 : CellBit(r, c) = 63 - (8 * r + c)
  BY DEF CellBit
<1>5. ASSUME Sized, NEW p \in Bits
      PROVE  /\ p \in BoardMask <=> RowOf(p) \in Rows /\ ColOf(p) \in Rows
             /\ p \in LeftEdge <=> RowOf(p) \in Rows /\ ColOf(p) = Si
             /\ p \in RightEdge <=> RowOf(p) \in Rows /\ ColOf(p) = Ei - 1
  <2>1. \A r, c \in Rows : RowOf(CellBit(r, c)) = r /\ ColOf(CellBit(r, c)) = c
    BY <1>2, <1>3, <1>4, <1>5
  <2>2. CellBit(RowOf(p), ColOf(p)) = p
    BY <1>1, <1>4
  <2>3. p \in BoardMask => RowOf(p) \in Rows /\ ColOf(p) \in Rows
    BY <2>1 DEF BoardMask
  <2>4. p \in LeftEdge => RowOf(p) \in Rows /\ ColOf(p) = Si
    BY <1>3, <1>5, <2>1 DEF LeftEdge
  <2>5. p \in RightEdge => RowOf(p) \in Rows /\ ColOf(p) = Ei - 1
    BY <1>3, <1>5, <2>1 DEF RightEdge
  <2>6. RowOf(p) \in Rows /\ ColOf(p) \in Rows => p \in BoardMask
    BY <2>2 DEF BoardMask
  <2>7. RowOf(p) \in Rows /\ ColOf(p) = Si => p \in LeftEdge
    BY <2>2 DEF LeftEdge
  <2>8. RowOf(p) \in Rows /\ ColOf(p) = Ei - 1 => p \in RightEdge
    BY <2>2 DEF RightEdge
  <2> QED BY <2>3, <2>4, <2>5, <2>6, <2>7, <2>8
<1> QED BY <1>1, <1>2, <1>3, <1>5

(* One step from a cell of the board: the masks let through what stays on it. *)
LEMMA OneStep ==
  ASSUME Sized, NEW p \in BoardMask, NEW e \in Dirs8
  PROVE  LET q == p - Step(e)
             on == OnBoard(RowOf(p) + e[1], ColOf(p) + e[2])
         IN  /\ on => /\ q \in BoardMask /\ q \in MoveKeep(e) /\ p \in FlipKeep(e)
                      /\ RowOf(q) = RowOf(p) + e[1] /\ ColOf(q) = ColOf(p) + e[2]
             /\ q \in BoardMask /\ (q \in MoveKeep(e) \/ p \in FlipKeep(e)) => on
<1> DEFINE q == p - Step(e)
           r == RowOf(p)
           c == ColOf(p)
           on == OnBoard(r + e[1], c + e[2])
<1>1. p \in Bits
  BY MaskInBits
<1>2. r \in Rows /\ c \in Rows /\ p = 63 - (8 * r + c) /\ r \in 0..7 /\ c \in 0..7
  BY <1>1, Coordinates
<1>3. e[1] \in {-1, 0, 1} /\ e[2] \in {-1, 0, 1}
  BY DirectionParts
<1>4. q = 63 - (8 * (r + e[1]) + (c + e[2]))
  BY <1>2, <1>3 DEF Step
<1>5. Rows = Si..(Ei - 1) /\ Si \in 0..2 /\ Ei = 8 - Si
  BY DEF Rows, Si, Ei, Sized
<1> HIDE DEF q, r, c
<1>6. ASSUME on
      PROVE  /\ q \in BoardMask /\ q \in MoveKeep(e) /\ p \in FlipKeep(e)
             /\ RowOf(q) = r + e[1] /\ ColOf(q) = c + e[2]
  <2>1. r + e[1] \in Rows /\ c + e[2] \in Rows /\ r + e[1] \in 0..7 /\ c + e[2] \in 0..7
    BY <1>6, Coordinates DEF OnBoard
  <2>2. q \in Bits /\ RowOf(q) = r + e[1] /\ ColOf(q) = c + e[2]
    BY <1>4, <2>1, Coordinates
  <2>3. q \in BoardMask
    BY <2>1, <2>2, Coordinates
  <2>4. q \in MoveKeep(e)
    <3>1. CASE e[2] = -1
      <4>1. ColOf(q) # Ei - 1
        BY <1>2, <1>5, <2>2, <3>1
      <4> QED BY <2>2, <3>1, <4>1, Coordinates, TheKeeps
    <3>2. CASE e[2] = 1
      <4>1. ColOf(q) # Si
        BY <1>2, <1>5, <2>2, <3>2
      <4> QED BY <2>2, <3>2, <4>1, Coordinates, TheKeeps
    <3>3. CASE e[2] = 0
      BY <2>2, <3>3, TheKeeps
    <3> QED BY <1>3, <3>1, <3>2, <3>3
  <2>5. p \in FlipKeep(e)
    <3>1. c = ColOf(p)
      BY DEF c
    <3>2. e[2] = -1 => c # 0
      BY <2>1, <1>2
    <3>3. e[2] = 1 => c # 7
      BY <2>1, <1>2
    <3> QED BY <1>1, <1>3, <3>1, <3>2, <3>3, TheKeeps
  <2> QED BY <2>2, <2>3, <2>4, <2>5
<1>7. ASSUME q \in BoardMask, q \in MoveKeep(e) \/ p \in FlipKeep(e) PROVE on
  <2>0. c = ColOf(p) /\ q \in Bits
    BY <1>7, MaskInBits DEF c
  <2>1. RowOf(q) \in Rows /\ ColOf(q) \in Rows /\ q = 63 - (8 * RowOf(q) + ColOf(q)) /\ RowOf(q) \in 0..7 /\ ColOf(q) \in 0..7
    BY <1>7, <2>0, Coordinates
  <2> DEFINE rq == RowOf(q)
             cq == ColOf(q)
             dr == e[1]
             dc == e[2]
  <2>9. rq \in 0..7 /\ cq \in 0..7 /\ dr \in {-1, 0, 1} /\ dc \in {-1, 0, 1} /\ q = 63 - (8 * rq + cq)
          /\ q = 63 - (8 * (r + dr) + (c + dc))
    BY <1>3, <1>4, <2>1
  <2> HIDE DEF rq, cq, dr, dc
  <2>2. 8 * rq + cq = 8 * (r + dr) + (c + dc)
    BY <1>2, <2>9
  <2>3. CASE c + dc \in 0..7
    <3>1. cq = c + dc /\ rq = r + dr
      BY <1>2, <2>2, <2>3, <2>9
    <3> QED BY <2>1, <3>1 DEF OnBoard, rq, cq, dr, dc
  <2>4. CASE c = 0 /\ dc = -1
    <3>1. cq = 7
      BY <1>2, <2>2, <2>4, <2>9
    <3>2. Ei - 1 = 7
      BY <1>2, <1>5, <2>4
    <3>3. q \in RightEdge
      BY <2>0, <2>1, <3>1, <3>2, Coordinates DEF cq
    <3> QED BY <1>7, <2>0, <2>4, <3>3, TheKeeps DEF dc
  <2>5. CASE c = 7 /\ dc = 1
    <3>1. cq = 0
      BY <1>2, <2>2, <2>5, <2>9
    <3>2. Si = 0
      BY <1>2, <1>5, <2>5
    <3>3. q \in LeftEdge
      BY <2>0, <2>1, <3>1, <3>2, Coordinates DEF cq
    <3> QED BY <1>7, <2>0, <2>5, <3>3, TheKeeps DEF dc
  <2> QED BY <1>2, <2>3, <2>4, <2>5, <2>9
<1> QED BY <1>6, <1>7 DEF q, r, c

-----------------------------------------------------------------------------
(* A walk over the cells in bits.                                           *)

(* The bit of the cell l steps from m; whether n steps stay on the board.  *)
Cell(m, e, l) == m - l * Step(e)
Path(m, e, n) == \A l \in 1..n : OnBoard(At(m, e, l)[1], At(m, e, l)[2])

(* The cell l steps from m, in bits and in coordinates, and the step before it. *)
LEMMA CellOfAt ==
  ASSUME NEW m \in Bits, NEW e \in Dirs8, NEW l \in Int
  PROVE  /\ Cell(m, e, l) \in Int
         /\ Cell(m, e, l) = Cell(m, e, l - 1) - Step(e)
         /\ Cell(m, e, 0) = m
         /\ At(m, e, l)[1] = RowOf(m) + l * e[1] /\ At(m, e, l)[2] = ColOf(m) + l * e[2]
         /\ l * e[1] = (l - 1) * e[1] + e[1] /\ l * e[2] = (l - 1) * e[2] + e[2]
         /\ CellBit(At(m, e, l)[1], At(m, e, l)[2]) = Cell(m, e, l)
<1> DEFINE dr == e[1]
           dc == e[2]
           s == Step(e)
           r == RowOf(m)
           c == ColOf(m)
<1>1. dr \in {-1, 0, 1} /\ dc \in {-1, 0, 1} /\ s \in Int /\ l * s = 8 * (l * dr) + l * dc
        /\ l * dr \in Int /\ l * dc \in Int
  BY DirectionParts
<1>2. m = 63 - (8 * r + c) /\ r \in 0..7 /\ c \in 0..7 /\ m \in Int
  BY Coordinates DEF Bits
<1>3. At(m, e, l)[1] = r + l * dr /\ At(m, e, l)[2] = c + l * dc
  BY DEF At
<1>4. Cell(m, e, l) = m - l * s /\ Cell(m, e, l - 1) = m - (l - 1) * s /\ Cell(m, e, 0) = m - 0 * s
  BY DEF Cell
<1> HIDE DEF dr, dc, s, r, c
<1>5. (l - 1) * s = l * s - s /\ 0 * s = 0 /\ l * s \in Int
  BY <1>1
<1>6. l * dr = (l - 1) * dr + dr /\ l * dc = (l - 1) * dc + dc
  BY <1>1
<1>7. CellBit(r + l * dr, c + l * dc) = 63 - ((r + l * dr) * 8 + (c + l * dc))
  BY DEF CellBit
<1>8. CellBit(r + l * dr, c + l * dc) = m - l * s
  BY <1>1, <1>2, <1>7
<1>9. m - l * s \in Int /\ m - l * s = (m - (l - 1) * s) - s /\ m - 0 * s = m
  BY <1>1, <1>2, <1>5
<1> QED BY <1>3, <1>4, <1>6, <1>8, <1>9 DEF dr, dc, s, r, c

(* While each step stays on the board, by its coordinates or by either mask,
   bits and coordinates walk together.                                     *)
LEMMA Follow ==
  ASSUME Sized, NEW m \in BoardMask, NEW e \in Dirs8, NEW n \in Nat,
         \A l \in 1..n : \/ OnBoard(At(m, e, l)[1], At(m, e, l)[2])
                         \/ /\ Cell(m, e, l) \in BoardMask
                            /\ Cell(m, e, l) \in MoveKeep(e) \/ Cell(m, e, l - 1) \in FlipKeep(e)
  PROVE  /\ \A l \in 0..n : Cell(m, e, l) \in BoardMask
         /\ \A l \in 1..n : /\ OnBoard(At(m, e, l)[1], At(m, e, l)[2])
                            /\ Cell(m, e, l) \in MoveKeep(e) /\ Cell(m, e, l - 1) \in FlipKeep(e)
<1> DEFINE Good(l) == /\ Cell(m, e, l) \in BoardMask
                      /\ RowOf(Cell(m, e, l)) = At(m, e, l)[1]
                      /\ ColOf(Cell(m, e, l)) = At(m, e, l)[2]
           Bad == {l \in Nat : l \in 0..n /\ ~Good(l)}
<1>1. m \in Bits
  BY MaskInBits
<1>2. Good(0)
  <2>1. 0 * e[1] = 0 /\ 0 * e[2] = 0
    <3>1. e[1] \in Int /\ e[2] \in Int
      BY DirectionParts
    <3>2. \A x \in Int : 0 * x = 0
      OBVIOUS
    <3> QED BY <3>1, <3>2
  <2>2. Cell(m, e, 0) = m /\ At(m, e, 0)[1] = RowOf(m) + 0 * e[1] /\ At(m, e, 0)[2] = ColOf(m) + 0 * e[2]
    BY <1>1, CellOfAt
  <2>3. RowOf(m) \in Int /\ ColOf(m) \in Int
    BY <1>1, Coordinates
  <2> QED BY <2>1, <2>2, <2>3
<1>3. ASSUME NEW l \in 1..n, Good(l - 1)
      PROVE  Good(l) /\ OnBoard(At(m, e, l)[1], At(m, e, l)[2]) /\ Cell(m, e, l) \in MoveKeep(e)
               /\ Cell(m, e, l - 1) \in FlipKeep(e)
  <2> DEFINE p == Cell(m, e, l - 1)
             q == Cell(m, e, l)
             a1 == At(m, e, l)[1]
             a2 == At(m, e, l)[2]
  <2>1. p \in BoardMask /\ RowOf(p) = At(m, e, l - 1)[1] /\ ColOf(p) = At(m, e, l - 1)[2]
    BY <1>3
  <2>2. q = p - Step(e)
    BY <1>1, CellOfAt
  <2>3. a1 = RowOf(p) + e[1] /\ a2 = ColOf(p) + e[2]
    <3>1. At(m, e, l - 1)[1] = RowOf(m) + (l - 1) * e[1] /\ At(m, e, l - 1)[2] = ColOf(m) + (l - 1) * e[2]
      BY <1>1, CellOfAt
    <3>2. a1 = RowOf(m) + l * e[1] /\ a2 = ColOf(m) + l * e[2]
            /\ l * e[1] = (l - 1) * e[1] + e[1] /\ l * e[2] = (l - 1) * e[2] + e[2]
      BY <1>1, CellOfAt
    <3>3. (l - 1) * e[1] \in Int /\ (l - 1) * e[2] \in Int /\ e[1] \in Int /\ e[2] \in Int
      <4>1. l - 1 \in Int
        OBVIOUS
      <4> QED BY <4>1, DirectionParts
    <3>4. RowOf(m) \in Int /\ ColOf(m) \in Int
      BY <1>1, Coordinates
    <3>5. \A x, y, z \in Int : x + (y + z) = (x + y) + z
      OBVIOUS
    <3> HIDE DEF a1, a2, p
    <3>6. RowOf(p) = RowOf(m) + (l - 1) * e[1] /\ ColOf(p) = ColOf(m) + (l - 1) * e[2]
      BY <2>1, <3>1
    <3> QED BY <3>2, <3>3, <3>4, <3>5, <3>6
  <2>4. OnBoard(a1, a2) \/ (q \in BoardMask /\ (q \in MoveKeep(e) \/ p \in FlipKeep(e)))
    OBVIOUS
  <2> HIDE DEF p, q, a1, a2
  <2>5. OnBoard(a1, a2)
    BY <2>1, <2>2, <2>3, <2>4, OneStep
  <2>6. q \in BoardMask /\ q \in MoveKeep(e) /\ p \in FlipKeep(e) /\ RowOf(q) = a1 /\ ColOf(q) = a2
    BY <2>1, <2>2, <2>3, <2>5, OneStep
  <2> QED BY <2>5, <2>6 DEF p, q, a1, a2
<1> HIDE DEF Good
<1>4. \A l \in 0..n : Good(l)
  <2>1. SUFFICES ASSUME Bad # {} PROVE FALSE
    BY DEF Bad
  <2>2. PICK k \in Bad : \A j \in Bad : k <= j
    BY <2>1, LeastNumber
  <2>3. k \in 1..n
    BY <1>2, <2>2
  <2>4. k - 1 \in 0..n /\ k - 1 \in Nat /\ ~(k <= k - 1)
    BY <2>3
  <2>5. Good(k - 1)
    BY <2>2, <2>4
  <2> QED BY <1>3, <2>2, <2>3, <2>5
<1>5. \A l \in 1..n : l - 1 \in 0..n
  OBVIOUS
<1>6. \A l \in 1..n : /\ OnBoard(At(m, e, l)[1], At(m, e, l)[2])
                      /\ Cell(m, e, l) \in MoveKeep(e) /\ Cell(m, e, l - 1) \in FlipKeep(e)
  BY <1>3, <1>4, <1>5
<1> QED BY <1>4, <1>6 DEF Good

(* The cells of one color.                                                 *)
Side(b, color) == IF color = Black THEN b.used \cap b.colors ELSE b.used \ b.colors

(* The cells of the two colors share out the occupied ones.                 *)
LEMMA Sides ==
  ASSUME NEW b \in Positions, NEW color \in {White, Black}
  PROVE  /\ Side(b, color) \subseteq BoardMask /\ Side(b, color) \subseteq b.used
         /\ 1 - color \in {White, Black} /\ 1 - (1 - color) = color
         /\ Side(b, 1 - color) = b.used \ Side(b, color)
         /\ Mine(b) = Side(b, b.next) /\ Theirs(b) = Side(b, 1 - b.next)
<1>1. b.used \subseteq BoardMask /\ b.next \in {White, Black}
  BY PositionFields
<1>2. White = 0 /\ Black = 1
  BY DEF White, Black
<1>3. \A k \in {0, 1} : 1 - k \in {0, 1} /\ (1 - k = 1 <=> k # 1) /\ 1 - (1 - k) = k
  OBVIOUS
<1> QED BY <1>1, <1>2, <1>3 DEF Side, Mine, Theirs

(* A cell that holds a color, in bits.                                      *)
LEMMA HoldsSide ==
  ASSUME NEW b \in Positions, NEW m \in Bits, NEW e \in Dirs8, NEW l \in Int, NEW color \in {White, Black}
  PROVE  Holds(b, At(m, e, l), color)
           <=> OnBoard(At(m, e, l)[1], At(m, e, l)[2]) /\ Cell(m, e, l) \in Side(b, color)
<1> DEFINE a == At(m, e, l)
<1>1. CellBit(a[1], a[2]) = Cell(m, e, l)
  BY CellOfAt
<1> HIDE DEF a
<1>2. Holds(b, a, color) <=> OnBoard(a[1], a[2]) /\ Cell(m, e, l) \in b.used /\ (Cell(m, e, l) \in b.colors <=> color = Black)
  BY <1>1 DEF Holds
<1> QED BY <1>2 DEF Side, a

(* A walk on the cells that closes, in bits: with the masks of the moves.  *)
LEMMA ClosesOnBits ==
  ASSUME Sized, NEW b \in Positions, NEW color \in {White, Black}, NEW m \in BoardMask, NEW e \in Dirs8,
         NEW n \in Nat, n > 0
  PROVE  /\ ClosesAt(b, color, m, e, n)
              <=> /\ Path(m, e, n)
                  /\ \A l \in 1..(n - 1) : Cell(m, e, l) \in Side(b, 1 - color)
                  /\ Cell(m, e, n) \in Side(b, color)
         /\ ClosesAt(b, color, m, e, n) => n < boardSize
         /\ ClosesAt(b, color, m, e, n) <=> Line(MoveDir(e), Side(b, color), Side(b, 1 - color), m, n)
<1> DEFINE mine == Side(b, color)
           theirs == Side(b, 1 - color)
<1>1. m \in Bits /\ 1 - color \in {White, Black} /\ mine \subseteq BoardMask /\ theirs \subseteq BoardMask
  BY MaskInBits, Sides
<1>2. n \in 1..n /\ n \in Int /\ \A l \in 1..n : l \in Int /\ (l \in 1..(n - 1) \/ l = n)
  OBVIOUS
<1>3. \A l \in 1..(n - 1) : l \in 1..n /\ l \in Int
  OBVIOUS
<1>4. ClosesAt(b, color, m, e, n)
         <=> /\ Path(m, e, n)
             /\ \A l \in 1..(n - 1) : Cell(m, e, l) \in theirs
             /\ Cell(m, e, n) \in mine
  <2>1. \A l \in 1..(n - 1) : Holds(b, At(m, e, l), 1 - color)
             <=> OnBoard(At(m, e, l)[1], At(m, e, l)[2]) /\ Cell(m, e, l) \in theirs
    BY <1>1, <1>3, HoldsSide
  <2>2. Holds(b, At(m, e, n), color) <=> OnBoard(At(m, e, n)[1], At(m, e, n)[2]) /\ Cell(m, e, n) \in mine
    BY <1>1, HoldsSide
  <2> HIDE DEF mine, theirs
  <2>3. Path(m, e, n) <=> (\A l \in 1..(n - 1) : OnBoard(At(m, e, l)[1], At(m, e, l)[2])) /\ OnBoard(At(m, e, n)[1], At(m, e, n)[2])
    BY <1>2, <1>3 DEF Path
  <2> QED BY <2>1, <2>2, <2>3 DEF ClosesAt
<1>5. Path(m, e, n) => n < boardSize
  <2>1. SUFFICES ASSUME Path(m, e, n) PROVE n < boardSize
    OBVIOUS
  <2>2. OnBoard(At(m, e, n)[1], At(m, e, n)[2])
    BY <1>2, <2>1 DEF Path
  <2> DEFINE r == RowOf(m)
             c == ColOf(m)
  <2>3. r + n * e[1] \in Rows /\ c + n * e[2] \in Rows
    BY <1>1, <2>2, CellOfAt DEF OnBoard
  <2>4. r \in Rows /\ c \in Rows
    BY <1>1, Coordinates
  <2>5. e[1] \in {-1, 0, 1} /\ e[2] \in {-1, 0, 1} /\ (e[1] # 0 \/ e[2] # 0)
    BY DirectionParts
  <2>6. \A x, y \in Rows : y - x < boardSize /\ x \in Int
    BY DEF Rows, Si, Ei, Sized
  <2>7. boardSize \in Int
    BY DEF Sized
  <2> HIDE DEF r, c
  <2>8. CASE e[1] = 1
    <3>1. (r + n * e[1]) - r = n
      BY <2>4, <2>6, <2>8
    <3> QED BY <2>3, <2>4, <2>6, <3>1
  <2>9. CASE e[1] = -1
    <3>1. r - (r + n * e[1]) = n
      BY <2>4, <2>6, <2>9
    <3> QED BY <2>3, <2>4, <2>6, <3>1
  <2>10. CASE e[2] = 1
    <3>1. (c + n * e[2]) - c = n
      BY <2>4, <2>6, <2>10
    <3> QED BY <2>3, <2>4, <2>6, <3>1
  <2>11. CASE e[2] = -1
    <3>1. c - (c + n * e[2]) = n
      BY <2>4, <2>6, <2>11
    <3> QED BY <2>3, <2>4, <2>6, <3>1
  <2> QED BY <2>5, <2>8, <2>9, <2>10, <2>11
<1> DEFINE d == MoveDir(e)
<1>6. d.by = Step(e) /\ d.keep = MoveKeep(e)
  BY DEF MoveDir
<1>7. Line(d, mine, theirs, m, n)
        <=> /\ \A l \in 1..(n - 1) : Cell(m, e, l) \in theirs \cap MoveKeep(e)
            /\ Cell(m, e, n) \in mine \cap MoveKeep(e)
  <2> HIDE DEF d, mine, theirs
  <2> QED BY <1>6 DEF Line, Cell
<1> HIDE DEF d, mine, theirs
<1>8. ASSUME Path(m, e, n) PROVE \A l \in 1..n : Cell(m, e, l) \in MoveKeep(e)
  BY <1>8, Follow DEF Path
<1>9. ASSUME \A l \in 1..(n - 1) : Cell(m, e, l) \in theirs \cap MoveKeep(e), Cell(m, e, n) \in mine \cap MoveKeep(e)
      PROVE  Path(m, e, n)
  <2>1. \A l \in 1..n : Cell(m, e, l) \in BoardMask /\ Cell(m, e, l) \in MoveKeep(e)
    BY <1>1, <1>2, <1>9
  <2> QED BY <2>1, Follow DEF Path
<1>10. ClosesAt(b, color, m, e, n) <=> Line(d, mine, theirs, m, n)
  BY <1>2, <1>3, <1>4, <1>7, <1>8, <1>9
<1> QED BY <1>4, <1>5, <1>10 DEF d, mine, theirs

-----------------------------------------------------------------------------
(* The moves are those of the walk.                                         *)

(* The shifted words find the moves the walk over the cells finds.         *)
LEMMA MovesOfCells ==
  ASSUME Sized, NEW b \in Positions
  PROVE  MovesAlong(b, MoveDirs, BoardMask) = CellMoves(b)
<1> DEFINE mine == Mine(b)
           theirs == Theirs(b)
           through(d) == theirs \cap d.keep
           found(d) == Shift(Fill(Shift(mine, d) \cap through(d), d, through(d)), d)
           all == UNION {found(d) : d \in MoveDirs}
<1>1. MovesAlong(b, MoveDirs, BoardMask) = all \cap (BoardMask \ b.used)
  BY DEF MovesAlong
<1>2. b.next \in {White, Black} /\ mine = Side(b, b.next) /\ theirs = Side(b, 1 - b.next)
        /\ mine \in SUBSET Bits /\ theirs \in SUBSET Bits
  <2>1. b.next \in {White, Black}
    BY PositionFields
  <2>2. 1 - b.next \in {White, Black}
    BY <2>1, Sides
  <2> QED BY <2>1, <2>2, Sides, MaskInBits
<1>3. ASSUME NEW e \in Dirs8, NEW m \in BoardMask
      PROVE  m \in found(MoveDir(e)) <=> moveCalcCheckDir(b, b.next, m, e)
  <2> DEFINE d == MoveDir(e)
  <2>1. d.by \in Int
    BY DirectionParts DEF MoveDir
  <2>2. m \in Bits
    BY MaskInBits
  <2> HIDE DEF d, mine, theirs
  <2>3. m \in found(d) <=> \E n \in 2..7 : Line(d, mine, theirs, m, n)
    BY <1>2, <2>1, <2>2, MovesAreLines
  <2>4. \A n \in 2..7 : n \in Nat /\ n > 0
    OBVIOUS
  <2>5. \A n \in 2..7 : ClosesAt(b, b.next, m, e, n) <=> Line(d, mine, theirs, m, n)
    BY <1>2, <2>4, ClosesOnBits DEF d
  <2>6. \A n \in 2..7 : ClosesAt(b, b.next, m, e, n) => n \in 2..(boardSize - 1)
    <3>1. \A n \in 2..7 : n < boardSize => n \in 2..(boardSize - 1)
      BY DEF Sized
    <3> QED BY <1>2, <2>4, <3>1, ClosesOnBits
  <2>7. \A n \in 2..(boardSize - 1) : n \in 2..7
    BY DEF Sized
  <2> HIDE DEF found
  <2>8. m \in found(d) <=> moveCalcCheckDir(b, b.next, m, e)
    BY <2>3, <2>5, <2>6, <2>7 DEF moveCalcCheckDir
  <2> QED BY <2>8 DEF d
<1> HIDE DEF found, mine, theirs
<1>4. \A m \in BoardMask : m \in UNION {found(d) : d \in MoveDirs} <=> moveCalcHasPossibleMove(b, b.next, m)
  <2> TAKE m \in BoardMask
  <2>1. UNION {found(d) : d \in MoveDirs} = UNION {found(MoveDir(e)) : e \in Dirs8}
    BY MoveTable
  <2> QED BY <1>3, <2>1 DEF moveCalcHasPossibleMove
<1>5. \A m \in BoardMask : m \in all <=> moveCalcHasPossibleMove(b, b.next, m)
  BY <1>4
<1> HIDE DEF all
<1>7. all \cap (BoardMask \ b.used) = {m \in BoardMask \ b.used : moveCalcHasPossibleMove(b, b.next, m)}
  BY <1>5
<1> QED BY <1>1, <1>7 DEF CellMoves

(* So the three functions for the legal moves find what the walk finds.     *)
LEMMA AllMoves ==
  ASSUME Sized, NEW b \in Positions
  PROVE  /\ dev_boardKeyGetMoves(b, OBCuda_GetBoardConsts) = CellMoves(b)
         /\ BoardMoveCalculator(b) = CellMoves(b)
         /\ BoardKeyGetMoves(b) = CellMoves(b)
<1>1. dev_boardKeyGetMoves(b, OBCuda_GetBoardConsts) = MovesAlong(b, MoveDirs, BoardMask)
  BY MoveTable DEF dev_boardKeyGetMoves
<1> QED BY <1>1, MovesOfCells DEF BoardMoveCalculator, BoardKeyGetMoves

(* What the propagation of a flip reaches from the move.                   *)
Reached(m, e, opponent, k) ==
  \A l \in 1..k : Cell(m, e, l) \in opponent /\ Cell(m, e, l - 1) \in FlipKeep(e)

FlipRun(m, e, opponent) ==
  Fill(Shift({m}, FlipDir(e)) \cap opponent, FlipDir(e), opponent)

(* Going back l steps from the k-th cell.                                   *)
LEMMA CellsOfWalk ==
  ASSUME NEW m \in Bits, NEW e \in Dirs8, NEW k \in Int, NEW l \in Int
  PROVE  Cell(m, e, k) - l * (-Step(e)) = Cell(m, e, k - l)
<1> DEFINE s == Step(e)
<1>1. s \in Int /\ m \in Int
  BY DirectionParts DEF Bits
<1> HIDE DEF s
<1>2. (k - l) * s = k * s - l * s /\ k * s \in Int /\ l * s \in Int
  BY <1>1
<1>3. l * (-s) = -(l * s)
  BY <1>1
<1>4. (m - k * s) - l * (-s) = m - (k - l) * s
  BY <1>1, <1>2, <1>3
<1> QED BY <1>4 DEF Cell, s

(* The propagation reaches the cells up to which all cells are the opponent's. *)
LEMMA FlipRunCells ==
  ASSUME NEW m \in Bits, NEW e \in Dirs8, NEW opponent \in SUBSET Bits, NEW x
  PROVE  x \in FlipRun(m, e, opponent) <=> \E k \in 1..6 : x = Cell(m, e, k) /\ Reached(m, e, opponent, k)
<1> DEFINE d == FlipDir(e)
           first == Shift({m}, d) \cap opponent
           keep == FlipKeep(e)
           C(k) == Cell(m, e, k)
<1>1. d.by = -Step(e) /\ d.keep = keep /\ Step(e) \in Int /\ d.by \in Int
  BY DirectionParts DEF FlipDir
<1> HIDE DEF d
<1>2. first \in SUBSET Int
  BY DEF Shift, Bits
<1>3. FlipRun(m, e, opponent) = UNION {Walked(first, d, opponent, k) : k \in 0..5}
  BY <1>1, <1>2, FillWalks DEF FlipRun, d
<1>4. \A y : y \in first <=> y = C(1) /\ y \in opponent /\ C(0) \in keep
  <2>1. C(0) = m /\ C(1) = C(1 - 1) - Step(e) /\ 1 - 1 = 0 /\ C(1) \in Int
    BY CellOfAt
  <2>2. m + d.by = C(1)
    BY <1>1, <2>1 DEF Bits
  <2>3. Shift({m}, d) = {z \in {C(1)} : z \in Bits /\ m \in keep}
    BY <1>1, <2>2 DEF Shift
  <2> QED BY <2>1, <2>3
<1>5. \A k, l \in Int : C(k) - l * d.by = C(k - l) /\ C(k) \in Int
  <2>1. \A k, l \in Int : C(k) - l * (-Step(e)) = C(k - l)
    BY CellsOfWalk
  <2>2. \A k \in Int : C(k) \in Int
    BY CellOfAt
  <2> HIDE DEF C
  <2> QED BY <1>1, <2>1, <2>2
<1> HIDE DEF first, C, keep
<1>6. ASSUME NEW k \in 0..5, x \in Walked(first, d, opponent, k)
      PROVE  \E j \in 1..6 : x = C(j) /\ \A l \in 1..j : C(l) \in opponent /\ C(l - 1) \in keep
  <2>1. /\ x \in Int /\ x - k * d.by \in first
        /\ \A l \in 0..(k - 1) : x - l * d.by \in opponent \cap Bits /\ x - (l + 1) * d.by \in keep
    BY <1>1, <1>6 DEF Walked
  <2>2. x - k * d.by = C(1) /\ C(1) \in opponent /\ C(0) \in keep
    BY <1>4, <2>1
  <2>3. k * d.by \in Int /\ k \in Int /\ k + 1 \in Int /\ (k + 1) - k = 1
    BY <1>1
  <2>4. C(k + 1) - k * d.by = C(1) /\ C(k + 1) \in Int
    BY <1>5, <2>3
  <2>5. x = C(k + 1)
    BY <2>1, <2>2, <2>3, <2>4
  <2>6. ASSUME NEW l \in 1..(k + 1) PROVE C(l) \in opponent /\ C(l - 1) \in keep
    <3>1. CASE l = 1
      <4>1. l - 1 = 0
        BY <3>1
      <4> QED BY <2>2, <3>1, <4>1
    <3>2. CASE l # 1
      <4> DEFINE i == (k + 1) - l
      <4>1. i \in 0..(k - 1) /\ i \in Int /\ i + 1 \in Int /\ (k + 1) - i = l /\ (k + 1) - (i + 1) = l - 1
        BY <3>2
      <4> HIDE DEF i
      <4>2. x - i * d.by = C(l) /\ x - (i + 1) * d.by = C(l - 1)
        BY <1>5, <2>3, <2>5, <4>1
      <4> QED BY <2>1, <4>1, <4>2
    <3> QED BY <3>1, <3>2
  <2>7. k + 1 \in 1..6
    OBVIOUS
  <2> QED BY <2>5, <2>6, <2>7
<1>7. ASSUME NEW j \in 1..6, x = C(j), \A l \in 1..j : C(l) \in opponent /\ C(l - 1) \in keep
      PROVE  \E k \in 0..5 : x \in Walked(first, d, opponent, k)
  <2> DEFINE k == j - 1
  <2>1. k \in 0..5 /\ k \in Int /\ j \in Int /\ j - k = 1 /\ 1 \in 1..j /\ 1 - 1 = 0
    OBVIOUS
  <2>2. x - k * d.by = C(1) /\ x \in Int
    BY <1>5, <1>7, <2>1
  <2>3. x - k * d.by \in first
    BY <1>4, <1>7, <2>1, <2>2
  <2>4. ASSUME NEW l \in 0..(k - 1) PROVE x - l * d.by \in opponent \cap Bits /\ x - (l + 1) * d.by \in keep
    <3>1. l \in Int /\ l + 1 \in Int /\ j - l \in 1..j /\ j - (l + 1) = (j - l) - 1
      OBVIOUS
    <3>2. x - l * d.by = C(j - l) /\ x - (l + 1) * d.by = C((j - l) - 1)
      BY <1>5, <1>7, <2>1, <3>1
    <3> QED BY <1>7, <3>1, <3>2
  <2> HIDE DEF k
  <2>5. x \in Walked(first, d, opponent, k)
    BY <1>1, <2>2, <2>3, <2>4 DEF Walked
  <2> QED BY <2>1, <2>5
<1>8. x \in FlipRun(m, e, opponent)
        <=> \E k \in 1..6 : x = C(k) /\ \A l \in 1..k : C(l) \in opponent /\ C(l - 1) \in keep
  BY <1>3, <1>6, <1>7
<1> QED BY <1>8 DEF Reached, C, keep

-----------------------------------------------------------------------------
(* The flips are those of the walk.                                         *)

(* A direction that closes turns over the cells up to where it closes; the
   propagation ends there, and only there it finds one's own cell.         *)
LEMMA FlipsOfDirection ==
  ASSUME Sized, NEW b \in Positions, NEW color \in {White, Black}, NEW m \in BoardMask, NEW e \in Dirs8
  PROVE  LET run == FlipRun(m, e, Side(b, 1 - color))
         IN  /\ Shift(run, FlipDir(e)) \cap Side(b, color) # {} <=> moveCheckDir(b, color, m, e)
             /\ moveCheckDir(b, color, m, e) => run = moveDir(b, color, m, e)
             /\ moveCheckDir(b, color, m, e) => moveDir(b, color, m, e) # {}
             /\ moveDir(b, color, m, e) \subseteq Side(b, 1 - color)
<1> DEFINE mine == Side(b, color)
           theirs == Side(b, 1 - color)
           run == FlipRun(m, e, theirs)
           d == FlipDir(e)
           C(k) == Cell(m, e, k)
           keep == FlipKeep(e)
           size == 2..(boardSize - 1)
           closes(n) == ClosesAt(b, color, m, e, n)
<1>1. m \in Bits /\ mine \subseteq BoardMask /\ theirs \subseteq BoardMask /\ mine \cap theirs = {}
        /\ BoardMask \subseteq Bits /\ theirs \in SUBSET Bits
  BY MaskInBits, Sides
<1>2. \A x : x \in run <=> \E k \in 1..6 : x = C(k) /\ \A l \in 1..k : C(l) \in theirs /\ C(l - 1) \in keep
  BY <1>1, FlipRunCells DEF Reached
<1>3. d.by = -Step(e) /\ d.keep = keep
  BY DEF FlipDir
<1>4. \A k \in Int : C(k) \in Int /\ C(k) = C(k - 1) + d.by
  <2>1. ASSUME NEW k \in Int PROVE C(k) \in Int /\ C(k) = C(k - 1) + d.by
    <3>1. C(k) \in Int /\ C(k) = C(k - 1) - Step(e) /\ C(k - 1) \in Int
      BY <1>1, CellOfAt
    <3> HIDE DEF d, C
    <3> QED BY <1>3, <3>1, DirectionParts
  <2> QED BY <2>1
<1>5. ASSUME NEW n \in 2..7
      PROVE  /\ closes(n) <=> /\ Path(m, e, n)
                              /\ \A l \in 1..(n - 1) : C(l) \in theirs
                              /\ C(n) \in mine
             /\ closes(n) => n \in size
  <2>1. n \in Nat /\ n > 0
    OBVIOUS
  <2>2. n < boardSize => n \in size
    BY DEF Sized
  <2> QED BY <2>1, <2>2, ClosesOnBits
<1>6. ASSUME NEW n \in 2..7, closes(n)
      PROVE  \A l \in 1..n : C(l - 1) \in keep
  <2>1. Path(m, e, n)
    BY <1>5, <1>6
  <2> QED BY <2>1, Follow DEF Path
<1>7. ASSUME NEW k \in 1..6, \A l \in 1..k : C(l) \in theirs /\ C(l - 1) \in keep, C(k) \in keep, C(k + 1) \in mine
      PROVE  closes(k + 1)
  <2>1. \A l \in 1..(k + 1) : C(l) \in BoardMask /\ C(l - 1) \in keep
    <3>1. \A l \in 1..(k + 1) : l \in 1..k \/ l = k + 1
      OBVIOUS
    <3>2. (k + 1) - 1 = k
      OBVIOUS
    <3> HIDE DEF C, keep, mine, theirs
    <3> QED BY <1>1, <1>7, <3>1, <3>2
  <2>2. k + 1 \in Nat /\ k + 1 \in 2..7 /\ (k + 1) - 1 = k
    OBVIOUS
  <2>3. Path(m, e, k + 1)
    BY <2>1, <2>2, Follow DEF Path
  <2> QED BY <1>5, <1>7, <2>2, <2>3
<1>8. size \subseteq 2..7
  BY DEF Sized
<1>9. moveCheckDir(b, color, m, e) <=> \E n \in size : closes(n)
  BY DEF moveCheckDir
<1>10. moveDir(b, color, m, e) = UNION {{C(k) : k \in 1..(n - 1)} : n \in {i \in size : closes(i)}}
  <2>1. \A k \in Int : CellBit(At(m, e, k)[1], At(m, e, k)[2]) = C(k)
    BY <1>1, CellOfAt
  <2>2. \A n \in Int : {CellBit(At(m, e, k)[1], At(m, e, k)[2]) : k \in 1..(n - 1)} = {C(k) : k \in 1..(n - 1)}
    BY <2>1
  <2>3. \A n \in {i \in size : closes(i)} : n \in Int
    BY <1>8
  <2> QED BY <2>2, <2>3 DEF moveDir
<1> HIDE DEF C, keep, mine, theirs, d, closes, size, run
<1>11. ASSUME NEW n \in size, closes(n) PROVE run = {C(k) : k \in 1..(n - 1)}
  <2>1. n \in 2..7 /\ C(n) \in mine /\ \A l \in 1..(n - 1) : C(l) \in theirs
    BY <1>5, <1>8, <1>11
  <2>2. ASSUME NEW x \in run PROVE x \in {C(k) : k \in 1..(n - 1)}
    <3>1. PICK k \in 1..6 : x = C(k) /\ \A l \in 1..k : C(l) \in theirs
      BY <1>2, <2>2
    <3>2. ~(n \in 1..k)
      BY <1>1, <2>1, <3>1
    <3>3. k \in 1..(n - 1)
      BY <2>1, <3>2
    <3> QED BY <3>1, <3>3
  <2>3. ASSUME NEW k \in 1..(n - 1) PROVE C(k) \in run
    <3>1. k \in 1..6
      BY <2>1
    <3>2. \A l \in 1..k : l \in 1..(n - 1) /\ l \in 1..n
      BY <2>1
    <3>3. \A l \in 1..k : C(l) \in theirs /\ C(l - 1) \in keep
      BY <1>6, <1>11, <2>1, <3>2
    <3> QED BY <1>2, <3>1, <3>3
  <2> QED BY <2>2, <2>3
<1>12. Shift(run, d) \cap mine # {} => \E n \in size : closes(n)
  <2>1. SUFFICES ASSUME NEW y \in Shift(run, d), y \in mine PROVE \E n \in size : closes(n)
    OBVIOUS
  <2>2. PICK x \in run \cap keep : y = x + d.by
    BY <1>3, <2>1 DEF Shift
  <2>3. PICK k \in 1..6 : x = C(k) /\ \A l \in 1..k : C(l) \in theirs /\ C(l - 1) \in keep
    BY <1>2, <2>2
  <2>4. y = C(k + 1)
    <3>1. k + 1 \in Int /\ (k + 1) - 1 = k
      OBVIOUS
    <3> QED BY <1>4, <2>2, <2>3, <3>1
  <2>5. closes(k + 1)
    BY <1>7, <2>1, <2>2, <2>3, <2>4
  <2>6. k + 1 \in 2..7
    OBVIOUS
  <2> QED BY <1>5, <2>5, <2>6
<1>13. ASSUME NEW n \in size, closes(n) PROVE Shift(run, d) \cap mine # {}
  <2>1. n \in 2..7 /\ C(n) \in mine
    BY <1>5, <1>8, <1>13
  <2>2. n - 1 \in 1..(n - 1) /\ n \in 1..n /\ n \in Int
    BY <2>1
  <2>3. C(n - 1) \in run /\ C(n - 1) \in keep
    BY <1>6, <1>11, <1>13, <2>1, <2>2
  <2>4. C(n) = C(n - 1) + d.by /\ C(n) \in Bits
    BY <1>1, <1>4, <2>1, <2>2
  <2>5. C(n) \in Shift(run, d)
    BY <1>3, <2>3, <2>4 DEF Shift
  <2> QED BY <2>1, <2>5
<1>14. ASSUME NEW n \in size, closes(n) PROVE moveDir(b, color, m, e) = run
  <2>1. \A i \in {j \in size : closes(j)} : {C(k) : k \in 1..(i - 1)} = run
    BY <1>11
  <2>2. UNION {{C(k) : k \in 1..(i - 1)} : i \in {j \in size : closes(j)}} = UNION {run : i \in {j \in size : closes(j)}}
    BY <2>1
  <2> QED BY <1>10, <1>14, <2>2
<1>15. ASSUME NEW n \in size, closes(n) PROVE run # {}
  <2>1. 1 \in 1..(n - 1)
    BY <1>8
  <2> QED BY <1>11, <1>15, <2>1
<1>16. moveDir(b, color, m, e) \subseteq theirs
  <2>1. \A n \in size : closes(n) => \A k \in 1..(n - 1) : C(k) \in theirs
    BY <1>5, <1>8
  <2> QED BY <1>10, <2>1
<1>17. /\ Shift(run, d) \cap mine # {} <=> moveCheckDir(b, color, m, e)
       /\ moveCheckDir(b, color, m, e) => run = moveDir(b, color, m, e)
       /\ moveCheckDir(b, color, m, e) => moveDir(b, color, m, e) # {}
       /\ moveDir(b, color, m, e) \subseteq theirs
  BY <1>9, <1>12, <1>13, <1>14, <1>15, <1>16
<1> QED BY <1>17 DEF run, mine, theirs, d

(* What a move turns over.                                                 *)
Flips(b, color, m) ==
  UNION {moveDir(b, color, m, e) : e \in {f \in Dirs8 : moveCheckDir(b, color, m, f)}}

(* So CPU and GPU turn over what the walk turns over, and something if it is a move. *)
LEMMA FlipsOfCells ==
  ASSUME Sized, NEW b \in Positions, NEW color \in {White, Black}, NEW m \in BoardMask
  PROVE  /\ computeFlips(m, Side(b, color), Side(b, 1 - color)) = Flips(b, color, m)
         /\ dev_computeFlips(m, Side(b, color), Side(b, 1 - color)) = Flips(b, color, m)
         /\ Flips(b, color, m) \subseteq Side(b, 1 - color)
         /\ moveCalcHasPossibleMove(b, color, m) => Flips(b, color, m) # {}
<1> DEFINE mine == Side(b, color)
           theirs == Side(b, 1 - color)
           run(d) == Fill(Shift({m}, d) \cap theirs, d, theirs)
           checks(e) == moveCheckDir(b, color, m, e)
           turns(e) == moveDir(b, color, m, e)
<1>1. computeFlips(m, mine, theirs) = UNION {run(d) : d \in {f \in FlipDirs : Shift(run(f), f) \cap mine # {}}}
  BY DEF computeFlips, FlipsAlong
<1>2. dev_computeFlips(m, mine, theirs) = computeFlips(m, mine, theirs)
  BY FlipTable DEF dev_computeFlips, computeFlips
<1>3. \A e \in Dirs8 : /\ Shift(run(FlipDir(e)), FlipDir(e)) \cap mine # {} <=> checks(e)
                       /\ checks(e) => run(FlipDir(e)) = turns(e) /\ turns(e) # {}
                       /\ turns(e) \subseteq theirs
  BY FlipsOfDirection DEF FlipRun
<1> HIDE DEF mine, theirs, run, turns, checks
<1>4. UNION {run(d) : d \in {f \in FlipDirs : Shift(run(f), f) \cap mine # {}}}
        = UNION {turns(e) : e \in {f \in Dirs8 : checks(f)}}
  <2>1. FlipDirs = {FlipDir(e) : e \in Dirs8}
    BY FlipTable
  <2>2. ASSUME NEW d \in FlipDirs, Shift(run(d), d) \cap mine # {}
        PROVE  \E e \in Dirs8 : checks(e) /\ turns(e) = run(d)
    BY <1>3, <2>1, <2>2
  <2>3. ASSUME NEW e \in Dirs8, checks(e)
        PROVE  \E d \in FlipDirs : Shift(run(d), d) \cap mine # {} /\ turns(e) = run(d)
    BY <1>3, <2>1, <2>3
  <2> QED BY <2>2, <2>3
<1>5. Flips(b, color, m) = UNION {turns(e) : e \in {f \in Dirs8 : checks(f)}}
  BY DEF Flips, turns, checks
<1>6. moveCalcHasPossibleMove(b, color, m) => \E e \in Dirs8 : checks(e)
  BY DEF moveCalcHasPossibleMove, moveCalcCheckDir, moveCheckDir, checks
<1>7. Flips(b, color, m) \subseteq theirs
  BY <1>3, <1>5
<1>8. moveCalcHasPossibleMove(b, color, m) => Flips(b, color, m) # {}
  BY <1>3, <1>5, <1>6
<1> QED BY <1>1, <1>2, <1>4, <1>5, <1>7, <1>8 DEF mine, theirs

-----------------------------------------------------------------------------
(* A move, a pass and whose turn it is.                                     *)

(* A pass changes the player only.                                         *)
LEMMA Passed ==
  ASSUME NEW b \in Positions
  PROVE  /\ PassTo(b) \in Positions
         /\ PassTo(b).used = b.used /\ PassTo(b).colors = b.colors /\ PassTo(b).next = 1 - b.next
         /\ PassTo(PassTo(b)) = b
<1> DEFINE n == 1 - b.next
           p == PassTo(b)
<1>1. b \in [used : SUBSET BoardMask, colors : SUBSET BoardMask, next : {White, Black}] /\ n \in {White, Black}
        /\ 1 - n = b.next
  BY DEF Positions, White, Black
<1>2. p = [b EXCEPT !.next = n]
  BY DEF PassTo
<1> HIDE DEF n, p
<1>3. p.used = b.used /\ p.colors = b.colors /\ p.next = n
  BY <1>1, <1>2
<1>4. p \in Positions
  BY <1>1, <1>2, <1>3, PositionFields, FieldsPosition
<1>5. PassTo(p) = [p EXCEPT !.next = b.next]
  BY <1>1, <1>3 DEF PassTo
<1>6. PassTo(p) = b
  BY <1>1, <1>2, <1>5
<1> QED BY <1>3, <1>4, <1>6 DEF n, p

(* What closes, and what is turned over, does not depend on the player.    *)
LEMMA SameCells ==
  ASSUME NEW b \in Positions, NEW color, NEW m
  PROVE  /\ \A dir, n : ClosesAt(PassTo(b), color, m, dir, n) = ClosesAt(b, color, m, dir, n)
         /\ moveCalcHasPossibleMove(PassTo(b), color, m) = moveCalcHasPossibleMove(b, color, m)
         /\ Flips(PassTo(b), color, m) = Flips(b, color, m)
         /\ Side(PassTo(b), color) = Side(b, color)
<1> DEFINE p == PassTo(b)
<1>1. p.used = b.used /\ p.colors = b.colors
  BY Passed
<1> HIDE DEF p
<1>2. \A cell, k : Holds(p, cell, k) = Holds(b, cell, k)
  BY <1>1 DEF Holds
<1>3. \A dir, n : ClosesAt(p, color, m, dir, n) = ClosesAt(b, color, m, dir, n)
  BY <1>2 DEF ClosesAt
<1>4. \A dir : moveCalcCheckDir(p, color, m, dir) = moveCalcCheckDir(b, color, m, dir)
  BY <1>3 DEF moveCalcCheckDir
<1>5. moveCalcHasPossibleMove(p, color, m) = moveCalcHasPossibleMove(b, color, m)
  BY <1>4 DEF moveCalcHasPossibleMove
<1>6. \A dir : moveCheckDir(p, color, m, dir) = moveCheckDir(b, color, m, dir)
  BY <1>3 DEF moveCheckDir
<1>7. \A dir : moveDir(p, color, m, dir) = moveDir(b, color, m, dir)
  BY <1>3 DEF moveDir
<1>8. Flips(p, color, m) = Flips(b, color, m)
  BY <1>6, <1>7 DEF Flips
<1>9. Side(p, color) = Side(b, color)
  BY <1>1 DEF Side
<1> QED BY <1>3, <1>5, <1>8, <1>9 DEF p

(* The result of a move, by its fields; CPU, GPU and cells agree on it.    *)
LEMMA Played ==
  ASSUME Sized, NEW b \in Positions, NEW m \in CellMoves(b)
  PROVE  LET flips == Flips(b, b.next, m)
             child == dev_playMove(b, m)
         IN  /\ child = CellApplyMove(PassTo(b), b.next, m)
             /\ child = MovePlayAndSetResultBoard(b, m)
             /\ child \in Positions
             /\ child.used = b.used \cup {m}
             /\ child.colors = IF b.next = Black THEN b.colors \cup {m} \cup flips ELSE b.colors \ ({m} \cup flips)
             /\ child.next = 1 - b.next
             /\ m \in BoardMask /\ m \notin b.used
             /\ flips \subseteq Theirs(b) /\ flips # {}
<1> DEFINE flips == Flips(b, b.next, m)
           child == dev_playMove(b, m)
           p == PassTo(b)
           color == b.next
           c == IF color = Black THEN b.colors \cup {m} \cup flips ELSE b.colors \ ({m} \cup flips)
           u == b.used \cup {m}
<1>1. m \in BoardMask /\ m \notin b.used /\ moveCalcHasPossibleMove(b, color, m)
  BY DEF CellMoves
<1>2. color \in {White, Black} /\ p \in Positions /\ p.used = b.used /\ p.colors = b.colors /\ p.next = 1 - b.next
        /\ 1 - color \in {White, Black}
  BY PositionFields, Passed, Sides
<1>3. Flips(p, color, m) = flips /\ Side(p, color) = Side(b, color)
  BY SameCells
<1>4. Side(p, 1 - color) = p.used \ Side(p, color) /\ Side(b, 1 - color) = Theirs(b)
  BY <1>2, Sides
<1>5. /\ computeFlips(m, Side(p, color), p.used \ Side(p, color)) = flips
      /\ dev_computeFlips(m, Side(p, color), p.used \ Side(p, color)) = flips
  BY <1>1, <1>2, <1>3, <1>4, FlipsOfCells
<1>6. flips \subseteq Theirs(b) /\ flips # {}
  BY <1>1, <1>2, <1>4, FlipsOfCells
<1>7. child = [p EXCEPT !.used = @ \cup {m},
                        !.colors = IF color = Black THEN @ \cup {m} \cup flips ELSE @ \ ({m} \cup flips)]
  BY <1>5 DEF dev_playMove, dev_applyMove, Side
<1>8. MovePlayAndSetResultBoard(b, m) = Place(p, color, m, flips)
  BY <1>5 DEF MovePlayAndSetResultBoard, applyMove, Side
<1>9. CellApplyMove(p, color, m) = Place(p, color, m, flips)
  BY <1>3 DEF CellApplyMove, Flips
<1>10. Place(p, color, m, flips) = child
  BY <1>7 DEF Place
<1>11. child = [p EXCEPT !.used = u, !.colors = c]
  BY <1>2, <1>7
<1>12. u \subseteq BoardMask /\ FirstBoard.used \subseteq u
  BY <1>1, PositionFields
<1>13. c \subseteq u
  <2>1. flips \subseteq b.used /\ b.colors \subseteq b.used
    BY <1>6, PositionFields DEF Theirs
  <2> QED BY <2>1
<1> HIDE DEF u, c, child, p
<1>14. p \in [used : SUBSET BoardMask, colors : SUBSET BoardMask, next : {White, Black}]
  BY <1>2 DEF Positions
<1>15. /\ child \in [used : SUBSET BoardMask, colors : SUBSET BoardMask, next : {White, Black}]
       /\ child.used = u /\ child.colors = c /\ child.next = p.next
  BY <1>11, <1>12, <1>13, <1>14
<1>16. child \in Positions
  BY <1>12, <1>13, <1>15, FieldsPosition
<1> QED BY <1>1, <1>2, <1>6, <1>8, <1>9, <1>10, <1>15, <1>16 DEF u, c, child, p

(* A move takes at least one piece from the opponent.                       *)
LEMMA OpponentLoses ==
  ASSUME Sized, NEW b \in Positions, NEW m \in CellMoves(b)
  PROVE  Cardinality(Mine(dev_playMove(b, m))) < Cardinality(Theirs(b))
<1> DEFINE flips == Flips(b, b.next, m)
           child == dev_playMove(b, m)
<1>1. /\ child \in Positions
      /\ child.used = b.used \cup {m}
      /\ child.colors = IF b.next = Black THEN b.colors \cup {m} \cup flips ELSE b.colors \ ({m} \cup flips)
      /\ child.next = 1 - b.next
      /\ m \notin b.used
      /\ flips \subseteq Theirs(b) /\ flips # {}
  BY Played
<1> HIDE DEF flips, child
<1>2. b.next \in {0, 1} /\ b.colors \subseteq b.used /\ b.used \subseteq BoardMask
  BY PositionFields DEF White, Black
<1>3. Theirs(b) = IF b.next = 1 THEN b.used \ b.colors ELSE b.used \cap b.colors
  BY <1>2 DEF Theirs, Mine, Black
<1>4. Mine(child) = Theirs(b) \ flips
  <2>1. CASE b.next = 1
    <3>1. child.next # 1 /\ child.colors = b.colors \cup {m} \cup flips
      BY <1>1, <2>1 DEF Black
    <3>2. Mine(child) = (b.used \cup {m}) \ (b.colors \cup {m} \cup flips)
      BY <1>1, <3>1 DEF Mine, Black
    <3> QED BY <1>1, <1>3, <2>1, <3>2
  <2>2. CASE b.next = 0
    <3>1. child.next = 1 /\ child.colors = b.colors \ ({m} \cup flips)
      BY <1>1, <2>2 DEF Black
    <3>2. Mine(child) = (b.used \cup {m}) \cap (b.colors \ ({m} \cup flips))
      BY <1>1, <3>1 DEF Mine, Black
    <3> QED BY <1>1, <1>2, <1>3, <2>2, <3>2
  <2> QED BY <1>2, <2>1, <2>2
<1>5. IsFiniteSet(Theirs(b))
  <2>1. Theirs(b) \subseteq 0..63
    BY <1>2, MaskInBits DEF Theirs, Bits
  <2>2. IsFiniteSet(0..63)
    <3>1. 0 \in Int /\ 63 \in Int
      OBVIOUS
    <3> QED BY ONLY <3>1, FS_Interval, Zenon
  <2> QED BY <2>1, <2>2, FS_Subset
<1>6. Mine(child) \subseteq Theirs(b) /\ Mine(child) # Theirs(b)
  BY <1>1, <1>4
<1>7. /\ Cardinality(Mine(child)) \in Nat /\ Cardinality(Theirs(b)) \in Nat
      /\ Cardinality(Mine(child)) <= Cardinality(Theirs(b)) /\ Cardinality(Mine(child)) # Cardinality(Theirs(b))
  BY <1>5, <1>6, FS_Subset, FS_CardinalityType
<1>8. Cardinality(Mine(child)) < Cardinality(Theirs(b))
  BY <1>7
<1> QED BY <1>8 DEF child

(* Whose turn it is, and which moves there are.                            *)
LEMMA WhoseTurn ==
  ASSUME Sized, NEW b \in Positions
  PROVE  /\ CellMoves(b) # {} => Turn(b) = [kind |-> "move", src |-> b, moves |-> CellMoves(b)]
         /\ CellMoves(b) = {} /\ CellMoves(PassTo(b)) # {}
              => Turn(b) = [kind |-> "pass", src |-> PassTo(b), moves |-> CellMoves(PassTo(b))]
         /\ CellMoves(b) = {} /\ CellMoves(PassTo(b)) = {}
              => Turn(b) = [kind |-> "terminal", src |-> b, moves |-> {}]
         /\ Turn(b).src \in Positions
         /\ Turn(b).moves \subseteq CellMoves(Turn(b).src)
<1> DEFINE mv == CellMoves(b)
           ov == CellMoves(PassTo(b))
<1>1. PassTo(b) \in Positions
  BY Passed
<1>2. dev_boardKeyGetMoves(b, OBCuda_GetBoardConsts) = mv /\ dev_boardKeyGetMoves(PassTo(b), OBCuda_GetBoardConsts) = ov
  BY <1>1, AllMoves
<1>3. Turn(b) = IF mv # {} THEN [kind |-> "move", src |-> b, moves |-> mv]
                ELSE IF ov # {} THEN [kind |-> "pass", src |-> PassTo(b), moves |-> ov]
                ELSE [kind |-> "terminal", src |-> b, moves |-> {}]
  BY <1>2 DEF Turn
<1>4. mv = CellMoves(b) /\ ov = CellMoves(PassTo(b))
  OBVIOUS
<1> HIDE DEF mv, ov
<1>5. CASE mv # {}
  BY <1>1, <1>3, <1>4, <1>5
<1>6. CASE mv = {} /\ ov # {}
  BY <1>1, <1>3, <1>4, <1>6
<1>7. CASE mv = {} /\ ov = {}
  BY <1>1, <1>3, <1>4, <1>7
<1> QED BY <1>5, <1>6, <1>7

-----------------------------------------------------------------------------
(* The inductive invariant and the first theorems.                          *)

(* The boards of an opening are a function that follows its recursion.     *)
Plays(g, opening, k) ==
  g = [n \in 0..k |-> IF n = 0 THEN FirstBoard ELSE dev_playMove(g[n - 1], opening[n])]

(* The recursion of an opening has a solution: After(opening) is it.        *)
LEMMA OpeningPlayed ==
  ASSUME NEW opening \in Seq(Bits)
  PROVE  Plays(After(opening), opening, Len(opening))
<1> DEFINE len == Len(opening)
           play(b, n) == dev_playMove(b, opening[n])
           Can(k) == \E g : Plays(g, opening, k)
           Bad == {k \in Nat : k \in 0..len /\ ~Can(k)}
<1>1. len \in Nat
  OBVIOUS
<1> HIDE DEF len
<1>2. \E g : Plays(g, opening, 0)
  <2> DEFINE g == [n \in 0..0 |-> FirstBoard]
  <2>1. \A n \in 0..0 : n = 0
    OBVIOUS
  <2>2. g = [n \in 0..0 |-> IF n = 0 THEN FirstBoard ELSE dev_playMove(g[n - 1], opening[n])]
    BY <2>1
  <2> HIDE DEF g
  <2> QED BY <2>2 DEF Plays
<1>3. ASSUME NEW k \in 1..len, NEW h, Plays(h, opening, k - 1) PROVE \E g : Plays(g, opening, k)
  <2> DEFINE last == play(h[k - 1], k)
             g == [n \in 0..k |-> IF n = k THEN last ELSE h[n]]
  <2>1. h = [n \in 0..(k - 1) |-> IF n = 0 THEN FirstBoard ELSE play(h[n - 1], n)]
    BY <1>3 DEF Plays
  <2>2. \A n \in 0..k : n - 1 \in 0..(k - 1) \/ n = 0
    OBVIOUS
  <2>3. \A n \in 0..(k - 1) : n \in 0..k /\ n # k
    OBVIOUS
  <2>4. k \in 0..k /\ k # 0 /\ k - 1 \in 0..(k - 1)
    OBVIOUS
  <2> HIDE DEF play
  <2>5. \A n \in 0..(k - 1) : g[n] = h[n]
    BY <2>3
  <2>6. ASSUME NEW n \in 0..k PROVE g[n] = IF n = 0 THEN FirstBoard ELSE play(g[n - 1], n)
    <3>1. CASE n = k
      BY <2>4, <2>5, <3>1
    <3>2. CASE n # k
      <4>1. n \in 0..(k - 1) /\ (n # 0 => n - 1 \in 0..(k - 1))
        BY <3>2
      <4> QED BY <2>1, <2>5, <4>1
    <3> QED BY <3>1, <3>2
  <2>7. g = [n \in 0..k |-> IF n = 0 THEN FirstBoard ELSE play(g[n - 1], n)]
    BY <2>6
  <2> HIDE DEF g
  <2> QED BY <2>7 DEF Plays, play
<1>6. Can(0) /\ \A k \in 1..len : Can(k - 1) => Can(k)
  BY <1>2, <1>3
<1> HIDE DEF Can
<1>4. Can(len)
  <2>1. SUFFICES ASSUME Bad # {} PROVE FALSE
    BY <1>1 DEF Bad
  <2>2. PICK k \in Bad : \A j \in Bad : k <= j
    BY <2>1, LeastNumber
  <2>3. k \in 1..len
    BY <1>6, <2>2
  <2>4. k - 1 \in 0..len /\ k - 1 \in Nat /\ ~(k <= k - 1)
    BY <1>1, <2>3
  <2>5. Can(k - 1)
    BY <2>2, <2>4
  <2> QED BY <1>6, <2>2, <2>3, <2>5
<1>5. After(opening) = CHOOSE g : Plays(g, opening, len)
  BY DEF After, Plays, len
<1> QED BY <1>4, <1>5 DEF len, Can

(* A legal opening leads through positions.                                *)
LEMMA OpeningPositions ==
  ASSUME Sized, NEW opening \in Seq(Bits),
         \A n \in DOMAIN opening : opening[n] \in BoardKeyGetMoves(After(opening)[n - 1])
  PROVE  \A n \in 0..Len(opening) : After(opening)[n] \in Positions
<1> DEFINE len == Len(opening)
           a == After(opening)
           Bad == {n \in Nat : n \in 0..len /\ a[n] \notin Positions}
<1>1. len \in Nat /\ DOMAIN opening = 1..len
  OBVIOUS
<1>2. a = [n \in 0..len |-> IF n = 0 THEN FirstBoard ELSE dev_playMove(a[n - 1], opening[n])]
  BY OpeningPlayed DEF Plays
<1> HIDE DEF a, len
<1>3. a[0] \in Positions
  <2>1. a[0] = FirstBoard
    BY <1>1, <1>2
  <2>2. FirstBoard \in [used : SUBSET BoardMask, colors : SUBSET BoardMask, next : {White, Black}]
          /\ FirstBoard.colors \subseteq FirstBoard.used
    BY MaskInBits DEF FirstBoard, White, Black
  <2> QED BY <2>1, <2>2, FieldsPosition
<1>4. ASSUME NEW n \in 1..len, a[n - 1] \in Positions PROVE a[n] \in Positions
  <2>1. n \in 0..len /\ n # 0
    BY <1>1
  <2>2. a[n] = dev_playMove(a[n - 1], opening[n])
    BY <1>2, <2>1
  <2>3. opening[n] \in BoardKeyGetMoves(a[n - 1])
    BY <1>1 DEF a
  <2>4. opening[n] \in CellMoves(a[n - 1])
    BY <1>4, <2>3, AllMoves
  <2> DEFINE b == a[n - 1]
             m == opening[n]
  <2>5. b \in Positions /\ m \in CellMoves(b)
    BY <1>4, <2>4
  <2> HIDE DEF b, m
  <2>6. dev_playMove(b, m) \in Positions
    BY <2>5, Played
  <2> QED BY <2>2, <2>6 DEF b, m
<1>5. \A n \in 0..len : a[n] \in Positions
  <2>1. SUFFICES ASSUME Bad # {} PROVE FALSE
    BY <1>1 DEF Bad
  <2>2. PICK k \in Bad : \A j \in Bad : k <= j
    BY <2>1, LeastNumber
  <2>3. k \in 1..len
    BY <1>3, <2>2
  <2>4. k - 1 \in 0..len /\ k - 1 \in Nat /\ ~(k <= k - 1)
    BY <1>1, <2>3
  <2> QED BY <1>4, <2>2, <2>3, <2>4
<1> QED BY <1>5 DEF a, len

(* The inductive invariant: the walk stays on positions of the board.      *)
OnPositions == Sized /\ board \in Positions

(* The walk starts at a position,                                           *)
LEMMA InitPosition == Init => OnPositions
<1>1. SUFFICES ASSUME Init PROVE OnPositions
  OBVIOUS
<1>2. PICK g \in Games :
        /\ boardSize = g.size
        /\ \A n \in DOMAIN g.opening : g.opening[n] \in BoardKeyGetMoves(After(g.opening)[n - 1])
        /\ board = After(g.opening)[Len(g.opening)]
  BY <1>1 DEF Init
<1>3. Sized /\ g.opening \in Seq(Bits)
  BY <1>2, GameAssumption DEF Sized
<1>4. Len(g.opening) \in 0..Len(g.opening)
  BY <1>3
<1>5. board \in Positions
  BY <1>2, <1>3, <1>4, OpeningPositions
<1> QED BY <1>3, <1>5 DEF OnPositions

(* a child is one,                                                          *)
LEMMA ChildPosition ==
  ASSUME Sized, NEW b \in Positions, NEW m \in CellMoves(b), NEW n \in {1, 4, 8, 16}
  PROVE  Child(b, m, n) \in Positions
BY Played, CanonicalIn DEF Child

(* so each step leads to one,                                               *)
LEMMA ExpandPosition ==
  ASSUME OnPositions, NEW kind, Expand(kind)
  PROVE  OnPositions'
<1>1. boardSize' = boardSize
  BY DEF Expand
<1>2. Positions' = Positions /\ Sized'
  BY <1>1 DEF Positions, OnPositions, Sized, BoardMask, Rows, Si, Ei, CellBit, FirstBoard, White, Black
<1>3. PICK m \in Turn(board).moves : board' = Child(Turn(board).src, m, NumRotations)
  BY DEF Expand
<1>4. Turn(board).src \in Positions /\ m \in CellMoves(Turn(board).src)
  BY <1>3, WhoseTurn DEF OnPositions
<1>5. board' \in Positions
  BY <1>3, <1>4, ChildPosition, GameAssumption DEF OnPositions
<1> QED BY <1>2, <1>5 DEF OnPositions

(* and every board of the walk is one.                                      *)
LEMMA PositionInv == Spec => []OnPositions
<1>1. Init => OnPositions
  BY InitPosition
<1>2. OnPositions /\ [Next]_vars => OnPositions'
  <2>1. SUFFICES ASSUME OnPositions, [Next]_vars PROVE OnPositions'
    OBVIOUS
  <2>2. CASE Play
    BY <2>1, <2>2, ExpandPosition DEF Play
  <2>3. CASE Pass
    BY <2>1, <2>3, ExpandPosition DEF Pass
  <2>4. CASE UNCHANGED vars
    <3>1. boardSize' = boardSize /\ board' = board
      BY <2>4 DEF vars
    <3>2. Positions' = Positions
      BY <3>1 DEF Positions, BoardMask, Rows, Si, Ei, CellBit, FirstBoard, White, Black
    <3> QED BY <2>1, <3>1, <3>2 DEF OnPositions, Sized
  <2> QED BY <2>1, <2>2, <2>3, <2>4 DEF Next
<1> QED BY <1>1, <1>2, PTL DEF Spec

(* Every board the solver generates is a position of the board in use: its pieces lie
   on it, the four in the middle never leave, colors are only where pieces are. *)
THEOREM PositionsType == Spec => []TypeOK
<1>1. OnPositions => TypeOK
  BY PositionFields DEF OnPositions, TypeOK, Sized
<1> QED BY <1>1, PositionInv, PTL

(* On every generated board, of any size, the bitboard code of the CPU and of the GPU
   finds the moves and the flips the cell-by-cell rules find; each move flips a piece. *)
THEOREM RulesAgree == Spec => []RulesMatchCells
<1>1. ASSUME OnPositions PROVE RulesMatchCells
  <2>1. Sized /\ board \in Positions /\ PassTo(board) \in Positions
    BY <1>1, Passed DEF OnPositions
  <2>2. \A b \in {board, PassTo(board)} :
          /\ dev_boardKeyGetMoves(b, OBCuda_GetBoardConsts) = CellMoves(b)
          /\ BoardMoveCalculator(b) = CellMoves(b)
          /\ BoardKeyGetMoves(b) = CellMoves(b)
    BY <2>1, AllMoves
  <2> DEFINE t == Turn(board)
  <2>3. t.src \in Positions /\ \A m \in t.moves : m \in CellMoves(t.src)
    BY <2>1, WhoseTurn
  <2> HIDE DEF t
  <2>4. \A m \in t.moves : /\ dev_playMove(t.src, m) = CellApplyMove(PassTo(t.src), t.src.next, m)
                           /\ dev_playMove(t.src, m) = MovePlayAndSetResultBoard(t.src, m)
    BY <2>1, <2>3, Played
  <2>5. \A m \in t.moves : Cardinality(Mine(dev_playMove(t.src, m))) < Cardinality(Theirs(t.src))
    BY <2>1, <2>3, OpponentLoses
  <2> QED BY <2>2, <2>4, <2>5 DEF RulesMatchCells, t
<1> QED BY <1>1, PositionInv, PTL

(* On every generated board the word tricks are the geometric symmetries, and CPU and
   GPU choose the same representative, for each number of symmetries. *)
THEOREM CanonicalFormsSame == Spec => []CanonicalFormsAgree
<1>1. ASSUME OnPositions PROVE CanonicalFormsAgree
  <2>1. Sized /\ board \in Positions
    BY <1>1 DEF OnPositions
  <2>2. dev_rotate90Right(board) = R(board) /\ dev_mirrorVerticalAxis(board) = M(board) /\ dev_boardFlip(board) = F(board)
    BY DEF R, M, F
  <2>3. CellRotate(board) = R(board) /\ CellMirror(board) = M(board)
    BY <2>1, CellSymmetries, TurnsAreMoves
  <2>4. BoardRotate90DegreesRight(board) = R(board) /\ BoardMirrorVerticalAxis(board) = M(board) /\ BoardFlip(board) = F(board)
    BY <2>1, LibrarySymmetries, LibraryFlip
  <2>5. dev_canonicalize(board, NumRotations) = BoardCreateUniqueBoard(board, NumRotations)
    BY <2>1, SameRepresentative, GameAssumption
  <2> QED BY <2>2, <2>3, <2>4, <2>5 DEF CanonicalFormsAgree
<1> QED BY <1>1, PositionInv, PTL

-----------------------------------------------------------------------------
(* A turn of the grid takes moves to moves and children to children.        *)

(* The cell l steps from the image of m, in the image of the direction, is
   the image of the cell l steps from m.                                   *)
WalkTurns(perm, dirs, m, e, l) ==
  LET a == At(m, e, l)
      b == At(perm[m], dirs[e], l)
  IN  /\ OnBoard(b[1], b[2]) <=> OnBoard(a[1], a[2])
      /\ OnBoard(a[1], a[2]) => CellBit(b[1], b[2]) = perm[CellBit(a[1], a[2])] /\ CellBit(a[1], a[2]) \in Bits

(* A permutation of the bits that moves the cells of the board, and the
   walks over them, like a turn of the grid.                               *)
Symmetric(perm, dirs) ==
  /\ Keeps(perm)
  /\ \A x \in BoardMask : \E y \in BoardMask : perm[y] = x
  /\ \A e \in Dirs8 : dirs[e] \in Dirs8
  /\ \A f \in Dirs8 : \E e \in Dirs8 : dirs[e] = f
  /\ \A m \in BoardMask, e \in Dirs8, l \in Nat :
       WalkTurns(perm, dirs, m, e, l)

(* A turned board holds a color where the board holds it before the turn.   *)
LEMMA MovedHolds ==
  ASSUME Sized, NEW b \in Positions, NEW perm, NEW dirs, Symmetric(perm, dirs),
         NEW m \in BoardMask, NEW e \in Dirs8, NEW l \in Nat, NEW color
  PROVE  Holds(Moved(b, perm), At(perm[m], dirs[e], l), color) <=> Holds(b, At(m, e, l), color)
<1> DEFINE x == At(m, e, l)
           y == At(perm[m], dirs[e], l)
           c == Moved(b, perm)
<1>1. /\ OnBoard(y[1], y[2]) <=> OnBoard(x[1], x[2])
      /\ OnBoard(x[1], x[2]) => CellBit(y[1], y[2]) = perm[CellBit(x[1], x[2])] /\ CellBit(x[1], x[2]) \in Bits
  BY DEF Symmetric, WalkTurns
<1>2. Keeps(perm)
  BY DEF Symmetric
<1>3. c.used = Permute(b.used, perm) /\ c.colors = Permute(b.colors, perm)
  BY MovedFields
<1>4. b.used \in SUBSET BoardMask /\ b.colors \in SUBSET BoardMask
  BY PositionFields
<1> HIDE DEF x, y, c
<1>5. \A k \in Bits : (perm[k] \in c.used <=> k \in b.used) /\ (perm[k] \in c.colors <=> k \in b.colors)
  BY <1>2, <1>3, <1>4, PermuteIn
<1>6. Holds(c, y, color) <=> Holds(b, x, color)
  BY <1>1, <1>5 DEF Holds
<1> QED BY <1>6 DEF x, y, c

(* What closes in one direction closes, after the turn, in its image, and
   what a move turns over moves along.                                     *)
LEMMA MovedCloses ==
  ASSUME Sized, NEW b \in Positions, NEW perm, NEW dirs, Symmetric(perm, dirs), NEW m \in BoardMask, NEW color
  PROVE  /\ \A e \in Dirs8, n \in Nat \ {0} :
              ClosesAt(Moved(b, perm), color, perm[m], dirs[e], n) <=> ClosesAt(b, color, m, e, n)
         /\ moveCalcHasPossibleMove(Moved(b, perm), color, perm[m]) <=> moveCalcHasPossibleMove(b, color, m)
<1> DEFINE c == Moved(b, perm)
           size == 2..(boardSize - 1)
<1>1. \A e \in Dirs8, l \in Nat : \A k : Holds(c, At(perm[m], dirs[e], l), k) <=> Holds(b, At(m, e, l), k)
  BY MovedHolds
<1> HIDE DEF c
<1>2. ASSUME NEW e \in Dirs8, NEW n \in Nat \ {0}
      PROVE  ClosesAt(c, color, perm[m], dirs[e], n) <=> ClosesAt(b, color, m, e, n)
  <2>1. \A k \in 1..(n - 1) : k \in Nat
    OBVIOUS
  <2>2. (\A k \in 1..(n - 1) : Holds(c, At(perm[m], dirs[e], k), 1 - color))
          <=> (\A k \in 1..(n - 1) : Holds(b, At(m, e, k), 1 - color))
    BY <1>1, <2>1
  <2>3. Holds(c, At(perm[m], dirs[e], n), color) <=> Holds(b, At(m, e, n), color)
    BY <1>1
  <2> QED BY <2>2, <2>3 DEF ClosesAt
<1>3. size \subseteq Nat \ {0}
  BY DEF Sized
<1> HIDE DEF size
<1>4. \A e \in Dirs8 : moveCalcCheckDir(c, color, perm[m], dirs[e]) <=> moveCalcCheckDir(b, color, m, e)
  BY <1>2, <1>3 DEF moveCalcCheckDir, size
<1>5. (\A e \in Dirs8 : dirs[e] \in Dirs8) /\ (\A f \in Dirs8 : \E e \in Dirs8 : dirs[e] = f)
  BY DEF Symmetric
<1>6. moveCalcHasPossibleMove(c, color, perm[m]) <=> moveCalcHasPossibleMove(b, color, m)
  BY <1>4, <1>5 DEF moveCalcHasPossibleMove
<1> QED BY <1>2, <1>6 DEF c

(* What a move turns over is turned with the board.                         *)
LEMMA MovedFlips ==
  ASSUME Sized, NEW b \in Positions, NEW perm, NEW dirs, Symmetric(perm, dirs), NEW m \in BoardMask,
         NEW color \in {White, Black}
  PROVE  Flips(Moved(b, perm), color, perm[m]) = Permute(Flips(b, color, m), perm)
<1> DEFINE c == Moved(b, perm)
           size == 2..(boardSize - 1)
           From(x, f, n) == {CellBit(At(x, f, k)[1], At(x, f, k)[2]) : k \in 1..(n - 1)}
           Good(p, x, f) == {n \in size : ClosesAt(p, color, x, f, n)}
<1>1. size \subseteq Nat \ {0}
  BY DEF Sized
<1>2. \A e \in Dirs8, n \in Nat \ {0} : ClosesAt(c, color, perm[m], dirs[e], n) <=> ClosesAt(b, color, m, e, n)
  BY MovedCloses
<1>3. \A p, x, f : moveDir(p, color, x, f) = UNION {From(x, f, n) : n \in Good(p, x, f)}
  BY DEF moveDir
<1>4. \A p, x, f : moveCheckDir(p, color, x, f) <=> Good(p, x, f) # {}
  BY DEF moveCheckDir
<1>5. ASSUME NEW e \in Dirs8, NEW n \in Nat \ {0}, ClosesAt(b, color, m, e, n)
      PROVE  From(perm[m], dirs[e], n) = Permute(From(m, e, n), perm)
  <2>1. Path(m, e, n)
    BY <1>5, ClosesOnBits
  <2>2. ASSUME NEW k \in 1..(n - 1)
        PROVE  CellBit(At(perm[m], dirs[e], k)[1], At(perm[m], dirs[e], k)[2]) = perm[CellBit(At(m, e, k)[1], At(m, e, k)[2])]
    <3>1. k \in Nat /\ k \in 1..n
      OBVIOUS
    <3>2. OnBoard(At(m, e, k)[1], At(m, e, k)[2])
      BY <2>1, <3>1 DEF Path
    <3> QED BY <3>1, <3>2 DEF Symmetric, WalkTurns
  <2>3. Permute(From(m, e, n), perm) = {perm[CellBit(At(m, e, k)[1], At(m, e, k)[2])] : k \in 1..(n - 1)}
    BY DEF Permute
  <2> QED BY <2>2, <2>3
<1> HIDE DEF c, From
<1>6. \A e \in Dirs8 : Good(c, perm[m], dirs[e]) = Good(b, m, e)
  BY <1>1, <1>2
<1>7. \A e \in Dirs8 : moveDir(c, color, perm[m], dirs[e]) = Permute(moveDir(b, color, m, e), perm)
  <2> TAKE e \in Dirs8
  <2>1. \A n \in Good(b, m, e) : From(perm[m], dirs[e], n) = Permute(From(m, e, n), perm)
    BY <1>1, <1>5
  <2> DEFINE G == Good(b, m, e)
  <2>2. moveDir(c, color, perm[m], dirs[e]) = UNION {From(perm[m], dirs[e], n) : n \in G}
    BY <1>3, <1>6
  <2>3. moveDir(b, color, m, e) = UNION {From(m, e, n) : n \in G}
    BY <1>3
  <2> HIDE DEF G, Good
  <2>4. UNION {From(perm[m], dirs[e], n) : n \in G} = UNION {Permute(From(m, e, n), perm) : n \in G}
    BY <2>1 DEF G
  <2>5. Permute(UNION {From(m, e, n) : n \in G}, perm) = UNION {Permute(From(m, e, n), perm) : n \in G}
    BY DEF Permute
  <2> QED BY <2>2, <2>3, <2>4, <2>5
<1>8. \A e \in Dirs8 : moveCheckDir(c, color, perm[m], dirs[e]) <=> moveCheckDir(b, color, m, e)
  BY <1>4, <1>6
<1> HIDE DEF Good
<1>9. (\A e \in Dirs8 : dirs[e] \in Dirs8) /\ (\A f \in Dirs8 : \E e \in Dirs8 : dirs[e] = f)
  BY DEF Symmetric
<1> DEFINE D == {f \in Dirs8 : moveCheckDir(b, color, m, f)}
           E == {f \in Dirs8 : moveCheckDir(c, color, perm[m], f)}
<1>10. (\A e \in D : dirs[e] \in E) /\ (\A f \in E : \E e \in D : dirs[e] = f)
  BY <1>8, <1>9
<1>11. Flips(c, color, perm[m]) = UNION {moveDir(c, color, perm[m], f) : f \in E}
  BY DEF Flips
<1>12. Flips(b, color, m) = UNION {moveDir(b, color, m, f) : f \in D}
  BY DEF Flips
<1>13. \A e \in D : moveDir(c, color, perm[m], dirs[e]) = Permute(moveDir(b, color, m, e), perm)
  BY <1>7
<1> HIDE DEF D, E
<1>14. UNION {moveDir(c, color, perm[m], f) : f \in E} = UNION {Permute(moveDir(b, color, m, e), perm) : e \in D}
  BY <1>10, <1>13
<1>15. Permute(UNION {moveDir(b, color, m, f) : f \in D}, perm) = UNION {Permute(moveDir(b, color, m, e), perm) : e \in D}
  BY DEF Permute
<1> QED BY <1>11, <1>12, <1>14, <1>15 DEF c

(* A turned board has the turned moves, and they lead to turned boards.    *)
LEMMA MovedMoves ==
  ASSUME Sized, NEW b \in Positions, NEW perm, NEW dirs, Symmetric(perm, dirs)
  PROVE  /\ CellMoves(Moved(b, perm)) = {perm[m] : m \in CellMoves(b)}
         /\ \A m \in CellMoves(b) : dev_playMove(Moved(b, perm), perm[m]) = Moved(dev_playMove(b, m), perm)
<1> DEFINE c == Moved(b, perm)
<1>1. Keeps(perm) /\ \A x \in BoardMask : \E y \in BoardMask : perm[y] = x
  BY DEF Symmetric
<1>2. c \in Positions /\ c.used = Permute(b.used, perm) /\ c.colors = Permute(b.colors, perm) /\ c.next = b.next
  BY <1>1, MovedPosition, MovedFields
<1>3. \A m \in BoardMask : moveCalcHasPossibleMove(c, b.next, perm[m]) <=> moveCalcHasPossibleMove(b, b.next, m)
  BY MovedCloses
<1> HIDE DEF c
<1>4. b.used \in SUBSET BoardMask /\ b.colors \in SUBSET BoardMask /\ BoardMask \subseteq Bits /\ b.next \in {White, Black}
  BY PositionFields, MaskInBits
<1>5. \A k \in Bits : perm[k] \in c.used <=> k \in b.used
  BY <1>1, <1>2, <1>4, PermuteIn
<1>6. \A m \in BoardMask : perm[m] \in BoardMask
  BY <1>1, <1>4 DEF Keeps
<1>7. \A m \in BoardMask : perm[m] \in CellMoves(c) <=> m \in CellMoves(b)
  BY <1>2, <1>3, <1>4, <1>5, <1>6 DEF CellMoves
<1>8. CellMoves(c) \subseteq BoardMask /\ CellMoves(b) \subseteq BoardMask
  BY DEF CellMoves
<1>9. CellMoves(c) = {perm[m] : m \in CellMoves(b)}
  BY <1>1, <1>7, <1>8
<1>10. ASSUME NEW m \in CellMoves(b) PROVE dev_playMove(c, perm[m]) = Moved(dev_playMove(b, m), perm)
  <2> DEFINE f == Flips(b, b.next, m)
             g == Flips(c, c.next, perm[m])
             x == dev_playMove(b, m)
             y == dev_playMove(c, perm[m])
             z == Moved(x, perm)
  <2>1. perm[m] \in CellMoves(c)
    BY <1>9
  <2>2. /\ x \in Positions
        /\ x.used = b.used \cup {m}
        /\ x.colors = IF b.next = Black THEN b.colors \cup {m} \cup f ELSE b.colors \ ({m} \cup f)
        /\ x.next = 1 - b.next
        /\ m \in BoardMask /\ f \subseteq Theirs(b)
    BY Played
  <2>3. /\ y \in Positions
        /\ y.used = c.used \cup {perm[m]}
        /\ y.colors = IF c.next = Black THEN c.colors \cup {perm[m]} \cup g ELSE c.colors \ ({perm[m]} \cup g)
        /\ y.next = 1 - c.next
    BY <1>2, <2>1, Played
  <2>4. g = Permute(f, perm)
    BY <1>2, <1>4, <2>2, MovedFlips DEF c
  <2>5. z \in Positions /\ z.used = Permute(x.used, perm) /\ z.colors = Permute(x.colors, perm) /\ z.next = x.next
    BY <1>1, <2>2, MovedPosition, MovedFields
  <2>6. f \subseteq Bits /\ m \in Bits /\ b.colors \subseteq Bits
    BY <1>4, <2>2 DEF Theirs
  <2> HIDE DEF f, g, x, y, z
  <2>7. y.used = z.used
    BY <1>2, <2>2, <2>3, <2>5 DEF Permute
  <2>8. y.colors = z.colors
    <3>1. CASE b.next = Black
      <4>1. y.colors = Permute(b.colors, perm) \cup {perm[m]} \cup Permute(f, perm)
        BY <1>2, <2>3, <2>4, <3>1
      <4>2. z.colors = Permute(b.colors \cup {m} \cup f, perm)
        BY <2>2, <2>5, <3>1
      <4> QED BY <4>1, <4>2 DEF Permute
    <3>2. CASE b.next # Black
      <4>1. y.colors = Permute(b.colors, perm) \ ({perm[m]} \cup Permute(f, perm))
        BY <1>2, <2>3, <2>4, <3>2
      <4>2. z.colors = Permute(b.colors \ ({m} \cup f), perm)
        BY <2>2, <2>5, <3>2
      <4>3. \A k, j \in Bits : perm[k] = perm[j] => k = j
        BY <1>1 DEF Keeps
      <4>4. Permute(b.colors \ ({m} \cup f), perm) = Permute(b.colors, perm) \ Permute({m} \cup f, perm)
        <5> DEFINE A == b.colors
                   B == {m} \cup f
        <5>1. A \subseteq Bits /\ B \subseteq Bits
          BY <2>6
        <5> HIDE DEF A, B
        <5>2. Permute(A \ B, perm) = Permute(A, perm) \ Permute(B, perm)
          BY <4>3, <5>1 DEF Permute
        <5> QED BY <5>2 DEF A, B
      <4>5. Permute({m} \cup f, perm) = {perm[m]} \cup Permute(f, perm)
        BY DEF Permute
      <4> QED BY <4>1, <4>2, <4>4, <4>5
    <3> QED BY <3>1, <3>2
  <2>9. y.next = z.next
    BY <1>2, <2>2, <2>3, <2>5
  <2>10. y = z
    BY <2>3, <2>5, <2>7, <2>8, <2>9, SamePosition
  <2> QED BY <2>10 DEF x, y, z
<1> QED BY <1>9, <1>10 DEF c

-----------------------------------------------------------------------------
(* The quarter turn, the mirror and the color swap do so.                   *)

QuarterOf == [e \in Dirs8 |-> <<e[2], -e[1]>>]
MirrorOf == [e \in Dirs8 |-> <<e[1], -e[2]>>]

(* The images of the directions are the directions.                         *)
LEMMA DirectionImages ==
  /\ \A e \in Dirs8 : /\ QuarterOf[e] \in Dirs8 /\ QuarterOf[e][1] = e[2] /\ QuarterOf[e][2] = -e[1]
                      /\ MirrorOf[e] \in Dirs8 /\ MirrorOf[e][1] = e[1] /\ MirrorOf[e][2] = -e[2]
  /\ \A f \in Dirs8 : (\E e \in Dirs8 : QuarterOf[e] = f) /\ (\E e \in Dirs8 : MirrorOf[e] = f)
<1>1. \A x, y \in {-1, 0, 1} : (x # 0 \/ y # 0) => <<x, y>> \in Dirs8
  BY EightDirections
<1>2. \A e \in Dirs8 : e[1] \in {-1, 0, 1} /\ e[2] \in {-1, 0, 1} /\ (e[1] # 0 \/ e[2] # 0) /\ e = <<e[1], e[2]>>
  BY EightDirections
<1>3. \A x \in {-1, 0, 1} : -x \in {-1, 0, 1} /\ (x # 0 <=> -x # 0) /\ -(-x) = x
  OBVIOUS
<1>4. ASSUME NEW e \in Dirs8
      PROVE  /\ QuarterOf[e] \in Dirs8 /\ QuarterOf[e][1] = e[2] /\ QuarterOf[e][2] = -e[1]
             /\ MirrorOf[e] \in Dirs8 /\ MirrorOf[e][1] = e[1] /\ MirrorOf[e][2] = -e[2]
  <2>1. QuarterOf[e] = <<e[2], -e[1]>> /\ MirrorOf[e] = <<e[1], -e[2]>>
    BY DEF QuarterOf, MirrorOf
  <2>2. <<e[2], -e[1]>> \in Dirs8 /\ <<e[1], -e[2]>> \in Dirs8
    BY <1>1, <1>2, <1>3
  <2> QED BY <2>1, <2>2
<1>5. ASSUME NEW f \in Dirs8 PROVE (\E e \in Dirs8 : QuarterOf[e] = f) /\ (\E e \in Dirs8 : MirrorOf[e] = f)
  <2> DEFINE p == <<-f[2], f[1]>>
             q == <<f[1], -f[2]>>
  <2>1. p \in Dirs8 /\ q \in Dirs8 /\ p[1] = -f[2] /\ p[2] = f[1] /\ q[1] = f[1] /\ q[2] = -f[2]
    BY <1>1, <1>2, <1>3
  <2> HIDE DEF p, q
  <2>2. QuarterOf[p] = <<p[2], -p[1]>> /\ MirrorOf[q] = <<q[1], -q[2]>>
    BY <2>1 DEF QuarterOf, MirrorOf
  <2>3. QuarterOf[p] = f /\ MirrorOf[q] = f
    BY <1>2, <1>3, <2>1, <2>2
  <2> QED BY <2>1, <2>3
<1> QED BY <1>4, <1>5

(* The bits of a cell and of its images.                                   *)
LEMMA ImageCells ==
  ASSUME Sized
  PROVE  /\ \A m \in Bits : /\ RowOf(rotate90[m]) = ColOf(m) /\ ColOf(rotate90[m]) = 7 - RowOf(m)
                            /\ RowOf(mirrorBytewise[m]) = RowOf(m) /\ ColOf(mirrorBytewise[m]) = 7 - ColOf(m)
         /\ \A x, y \in Int : OnBoard(x, y) => /\ CellBit(y, 7 - x) = rotate90[CellBit(x, y)]
                                               /\ CellBit(x, 7 - y) = mirrorBytewise[CellBit(x, y)]
                                               /\ CellBit(x, y) \in Bits
         /\ \A x \in Int : x \in Rows <=> 7 - x \in Rows
<1>1. ASSUME NEW m \in Bits
      PROVE  /\ RowOf(rotate90[m]) = ColOf(m) /\ ColOf(rotate90[m]) = 7 - RowOf(m)
             /\ RowOf(mirrorBytewise[m]) = RowOf(m) /\ ColOf(mirrorBytewise[m]) = 7 - ColOf(m)
  <2>1. PICK i, j \in 0..7 : m = 8 * i + j
    BY CellOfBit
  <2>2. \A k, l \in 0..7 : RowOf(8 * k + l) = 7 - k /\ ColOf(8 * k + l) = 7 - l
    BY DEF RowOf, ColOf
  <2>3. 7 - i \in 0..7 /\ 7 - j \in 0..7 /\ 7 - (7 - i) = i /\ 7 - (7 - j) = j
    OBVIOUS
  <2>4. rotate90[m] = 8 * j + (7 - i) /\ mirrorBytewise[m] = 8 * i + (7 - j)
    BY <2>1, QuarterTurn, ByteMirror
  <2> QED BY <2>1, <2>2, <2>3, <2>4
<1>2. ASSUME NEW x \in Int, NEW y \in Int, OnBoard(x, y)
      PROVE  /\ CellBit(y, 7 - x) = rotate90[CellBit(x, y)]
             /\ CellBit(x, 7 - y) = mirrorBytewise[CellBit(x, y)]
             /\ CellBit(x, y) \in Bits
  <2>1. x \in 0..7 /\ y \in 0..7
    BY <1>2, Coordinates DEF OnBoard
  <2> DEFINE i == 7 - x
             j == 7 - y
  <2>2. i \in 0..7 /\ j \in 0..7 /\ CellBit(x, y) = 8 * i + j /\ 8 * i + j \in Bits
    BY <2>1 DEF CellBit, Bits
  <2>3. CellBit(y, 7 - x) = 8 * j + (7 - i) /\ CellBit(x, 7 - y) = 8 * i + (7 - j)
    BY <2>1 DEF CellBit
  <2> HIDE DEF i, j
  <2>4. rotate90[8 * i + j] = 8 * j + (7 - i) /\ mirrorBytewise[8 * i + j] = 8 * i + (7 - j)
    BY <2>2, QuarterTurn, ByteMirror
  <2> QED BY <2>2, <2>3, <2>4
<1>3. \A x \in Int : x \in Rows <=> 7 - x \in Rows
  BY DEF Sized, Rows, Si, Ei
<1> QED BY <1>1, <1>2, <1>3

(* The quarter turn and the mirror turn the walks.                          *)
LEMMA TurnSymmetric ==
  ASSUME Sized
  PROVE  Symmetric(rotate90, QuarterOf) /\ Symmetric(mirrorBytewise, MirrorOf)
<1>1. Keeps(rotate90) /\ Keeps(mirrorBytewise)
  BY TurnKeeps
<1>2. BoardMask \subseteq Bits
  BY MaskInBits
<1>3. ASSUME NEW x \in BoardMask PROVE \E y \in BoardMask : rotate90[y] = x
  <2> DEFINE x1 == rotate90[x]
             x2 == rotate90[x1]
             y == rotate90[x2]
  <2>1. x \in Bits /\ rotate90[y] = x
    BY <1>2, GroupLaws
  <2>2. x1 \in BoardMask /\ x1 \in Bits
    BY <1>1, <1>2 DEF Keeps
  <2> HIDE DEF x1
  <2>3. x2 \in BoardMask /\ x2 \in Bits
    BY <1>1, <1>2, <2>2 DEF Keeps
  <2> HIDE DEF x2
  <2>4. y \in BoardMask
    BY <1>1, <2>3 DEF Keeps
  <2> QED BY <2>1, <2>4
<1>4. ASSUME NEW x \in BoardMask PROVE \E y \in BoardMask : mirrorBytewise[y] = x
  <2>1. x \in Bits /\ mirrorBytewise[mirrorBytewise[x]] = x
    BY <1>2, GroupLaws
  <2>2. mirrorBytewise[x] \in BoardMask
    BY <1>1, <2>1 DEF Keeps
  <2> QED BY <2>1, <2>2
<1>5. ASSUME NEW m \in BoardMask, NEW e \in Dirs8, NEW l \in Nat
      PROVE  LET a == At(m, e, l)
                 b == At(rotate90[m], QuarterOf[e], l)
                 c == At(mirrorBytewise[m], MirrorOf[e], l)
             IN  /\ a[1] \in Int /\ a[2] \in Int
                 /\ b[1] = a[2] /\ b[2] = 7 - a[1]
                 /\ c[1] = a[1] /\ c[2] = 7 - a[2]
  <2> DEFINE r == RowOf(m)
             k == ColOf(m)
             dr == e[1]
             dc == e[2]
  <2>1. m \in Bits /\ r \in 0..7 /\ k \in 0..7
    BY <1>2, Coordinates
  <2>2. dr \in Int /\ dc \in Int /\ l * dr \in Int /\ l * dc \in Int
    BY DirectionParts
  <2>3. RowOf(rotate90[m]) = k /\ ColOf(rotate90[m]) = 7 - r /\ RowOf(mirrorBytewise[m]) = r /\ ColOf(mirrorBytewise[m]) = 7 - k
    BY <2>1, ImageCells
  <2>4. QuarterOf[e][1] = dc /\ QuarterOf[e][2] = -dr /\ MirrorOf[e][1] = dr /\ MirrorOf[e][2] = -dc
    BY DirectionImages
  <2>5. /\ At(m, e, l)[1] = r + l * dr /\ At(m, e, l)[2] = k + l * dc
        /\ At(rotate90[m], QuarterOf[e], l)[1] = k + l * dc /\ At(rotate90[m], QuarterOf[e], l)[2] = (7 - r) + l * (-dr)
        /\ At(mirrorBytewise[m], MirrorOf[e], l)[1] = r + l * dr /\ At(mirrorBytewise[m], MirrorOf[e], l)[2] = (7 - k) + l * (-dc)
    BY <2>3, <2>4 DEF At
  <2> HIDE DEF r, k, dr, dc
  <2>6. l * (-dr) = -(l * dr) /\ l * (-dc) = -(l * dc)
    BY <2>2
  <2>7. (7 - r) + l * (-dr) = 7 - (r + l * dr) /\ (7 - k) + l * (-dc) = 7 - (k + l * dc)
    BY <2>1, <2>2, <2>6
  <2>8. r + l * dr \in Int /\ k + l * dc \in Int
    BY <2>1, <2>2
  <2> QED BY <2>5, <2>7, <2>8
<1>6. ASSUME NEW m \in BoardMask, NEW e \in Dirs8, NEW l \in Nat
      PROVE  WalkTurns(rotate90, QuarterOf, m, e, l) /\ WalkTurns(mirrorBytewise, MirrorOf, m, e, l)
  <2> DEFINE a == At(m, e, l)
             b == At(rotate90[m], QuarterOf[e], l)
             c == At(mirrorBytewise[m], MirrorOf[e], l)
  <2>1. /\ a[1] \in Int /\ a[2] \in Int
        /\ b[1] = a[2] /\ b[2] = 7 - a[1]
        /\ c[1] = a[1] /\ c[2] = 7 - a[2]
    BY <1>5
  <2> HIDE DEF a, b, c
  <2>2. (OnBoard(b[1], b[2]) <=> OnBoard(a[1], a[2])) /\ (OnBoard(c[1], c[2]) <=> OnBoard(a[1], a[2]))
    BY <2>1, ImageCells DEF OnBoard
  <2>3. OnBoard(a[1], a[2]) => /\ CellBit(b[1], b[2]) = rotate90[CellBit(a[1], a[2])]
                               /\ CellBit(c[1], c[2]) = mirrorBytewise[CellBit(a[1], a[2])]
                               /\ CellBit(a[1], a[2]) \in Bits
    BY <2>1, ImageCells
  <2> QED BY <2>2, <2>3 DEF a, b, c, WalkTurns
<1>7. (\A e \in Dirs8 : QuarterOf[e] \in Dirs8 /\ MirrorOf[e] \in Dirs8)
        /\ \A f \in Dirs8 : (\E e \in Dirs8 : QuarterOf[e] = f) /\ (\E e \in Dirs8 : MirrorOf[e] = f)
  BY DirectionImages
<1>8. Symmetric(rotate90, QuarterOf)
  BY <1>1, <1>3, <1>6, <1>7 DEF Symmetric
<1>9. Symmetric(mirrorBytewise, MirrorOf)
  BY <1>1, <1>4, <1>6, <1>7 DEF Symmetric
<1> QED BY <1>8, <1>9

(* With the colors and the player swapped the moves are the same, and they
   lead to boards with the colors and the player swapped.                  *)
LEMMA FlippedMoves ==
  ASSUME Sized, NEW b \in Positions
  PROVE  /\ CellMoves(F(b)) = CellMoves(b)
         /\ \A m \in CellMoves(b) : dev_playMove(F(b), m) = F(dev_playMove(b, m))
<1> DEFINE c == F(b)
<1>1. c \in Positions /\ c.used = b.used /\ c.colors = b.used \ b.colors /\ c.next = 1 - b.next
  BY Closed, FlippedFields DEF F
<1>2. b.used \in SUBSET BoardMask /\ b.colors \subseteq b.used /\ b.next \in {White, Black} /\ White = 0 /\ Black = 1
  BY PositionFields DEF White, Black
<1>3. \A k \in {0, 1} : 1 - k \in {0, 1} /\ 1 - (1 - k) = k /\ (1 - k = 1 <=> k = 0) /\ (k = 1 <=> k # 0)
  OBVIOUS
<1> HIDE DEF c
<1>4. \A cell : \A k \in {0, 1} : Holds(c, cell, 1 - k) <=> Holds(b, cell, k)
  BY <1>1, <1>2, <1>3 DEF Holds
<1>5. ASSUME NEW m, NEW e, NEW n, NEW k \in {0, 1} PROVE ClosesAt(c, 1 - k, m, e, n) <=> ClosesAt(b, k, m, e, n)
  <2>1. \A j : Holds(c, At(m, e, j), 1 - k) <=> Holds(b, At(m, e, j), k)
    BY <1>4
  <2>2. \A j : Holds(c, At(m, e, j), 1 - (1 - k)) <=> Holds(b, At(m, e, j), 1 - k)
    BY <1>3, <1>4
  <2> QED BY <2>1, <2>2 DEF ClosesAt
<1> DEFINE k == b.next
<1>6. k \in {0, 1} /\ 1 - k = c.next
  BY <1>1, <1>2
<1>7. \A m, e : moveCalcCheckDir(c, 1 - k, m, e) <=> moveCalcCheckDir(b, k, m, e)
  BY <1>5, <1>6 DEF moveCalcCheckDir
<1>8. \A m, e : moveCheckDir(c, 1 - k, m, e) <=> moveCheckDir(b, k, m, e)
  BY <1>5, <1>6 DEF moveCheckDir
<1>9. \A m, e : moveDir(c, 1 - k, m, e) = moveDir(b, k, m, e)
  <2> TAKE m, e
  <2>1. \A n : ClosesAt(c, 1 - k, m, e, n) <=> ClosesAt(b, k, m, e, n)
    BY <1>5, <1>6
  <2>2. {n \in 2..(boardSize - 1) : ClosesAt(c, 1 - k, m, e, n)} = {n \in 2..(boardSize - 1) : ClosesAt(b, k, m, e, n)}
    BY <2>1
  <2> QED BY <2>2 DEF moveDir
<1>10. \A m : moveCalcHasPossibleMove(c, c.next, m) <=> moveCalcHasPossibleMove(b, b.next, m)
  BY <1>6, <1>7 DEF moveCalcHasPossibleMove
<1>11. CellMoves(c) = CellMoves(b)
  BY <1>1, <1>10 DEF CellMoves
<1>12. \A m : Flips(c, c.next, m) = Flips(b, b.next, m)
  <2> TAKE m
  <2>1. {f \in Dirs8 : moveCheckDir(c, 1 - k, m, f)} = {f \in Dirs8 : moveCheckDir(b, k, m, f)}
    BY <1>8
  <2>2. Flips(c, 1 - k, m) = Flips(b, k, m)
    BY <1>9, <2>1 DEF Flips
  <2> QED BY <1>6, <2>2
<1>13. ASSUME NEW m \in CellMoves(b) PROVE dev_playMove(c, m) = F(dev_playMove(b, m))
  <2> DEFINE f == Flips(b, b.next, m)
             x == dev_playMove(b, m)
             y == dev_playMove(c, m)
             z == F(x)
  <2>1. /\ x \in Positions
        /\ x.used = b.used \cup {m}
        /\ x.colors = IF b.next = Black THEN b.colors \cup {m} \cup f ELSE b.colors \ ({m} \cup f)
        /\ x.next = 1 - b.next
        /\ m \notin b.used /\ f \subseteq Theirs(b)
    BY Played
  <2>2. m \in CellMoves(c) /\ Flips(c, c.next, m) = f
    BY <1>11, <1>12
  <2>3. /\ y \in Positions
        /\ y.used = c.used \cup {m}
        /\ y.colors = IF c.next = Black THEN c.colors \cup {m} \cup f ELSE c.colors \ ({m} \cup f)
        /\ y.next = 1 - c.next
    <3> HIDE DEF f
    <3> DEFINE g == Flips(c, c.next, m)
    <3>1. /\ y \in Positions
          /\ y.used = c.used \cup {m}
          /\ y.colors = IF c.next = Black THEN c.colors \cup {m} \cup g ELSE c.colors \ ({m} \cup g)
          /\ y.next = 1 - c.next
      BY <1>1, <2>2, Played
    <3>2. g = f
      BY <2>2
    <3> QED BY <3>1, <3>2
  <2>4. z \in Positions /\ z.used = x.used /\ z.colors = x.used \ x.colors /\ z.next = 1 - x.next
    BY <2>1, Closed, FlippedFields DEF F
  <2>5. f \subseteq b.used /\ (b.next = 1 => f \subseteq b.used \ b.colors) /\ (b.next = 0 => f \subseteq b.colors)
    BY <1>2, <2>1 DEF Theirs, Mine
  <2> HIDE DEF f, x, y, z
  <2>6. y.used = z.used /\ y.next = z.next
    BY <1>1, <2>1, <2>3, <2>4
  <2>7. y.colors = z.colors
    <3>1. CASE b.next = 1
      <4>1. z.colors = (b.used \cup {m}) \ (b.colors \cup {m} \cup f)
        BY <1>2, <2>1, <2>4, <3>1
      <4>2. y.colors = (b.used \ b.colors) \ ({m} \cup f)
        BY <1>1, <1>2, <2>3, <3>1
      <4> QED BY <4>1, <4>2
    <3>2. CASE b.next = 0
      <4>1. z.colors = (b.used \cup {m}) \ (b.colors \ ({m} \cup f))
        BY <1>2, <2>1, <2>4, <3>2
      <4>2. y.colors = (b.used \ b.colors) \cup {m} \cup f
        BY <1>1, <1>2, <2>3, <3>2
      <4> QED BY <2>5, <4>1, <4>2
    <3> QED BY <1>2, <3>1, <3>2
  <2>8. y = z
    BY <2>3, <2>4, <2>6, <2>7, SamePosition
  <2> QED BY <2>8 DEF x, y, z
<1> QED BY <1>11, <1>13 DEF c

-----------------------------------------------------------------------------
(* Expanding the representative is enough.                                  *)

(* A pass commutes with the symmetries.                                     *)
LEMMA PassCommutes ==
  ASSUME Sized, NEW b \in Positions
  PROVE  PassTo(R(b)) = R(PassTo(b)) /\ PassTo(M(b)) = M(PassTo(b)) /\ PassTo(F(b)) = F(PassTo(b))
<1> DEFINE p == PassTo(b)
<1>1. p \in Positions /\ p.used = b.used /\ p.colors = b.colors /\ p.next = 1 - b.next
  BY Passed
<1> HIDE DEF p
<1>2. R(b) \in Positions /\ M(b) \in Positions /\ F(b) \in Positions /\ R(p) \in Positions /\ M(p) \in Positions /\ F(p) \in Positions
  BY <1>1, Closed
<1>3. PassTo(R(b)) \in Positions /\ PassTo(M(b)) \in Positions /\ PassTo(F(b)) \in Positions
  BY <1>2, Passed
<1>4. ASSUME NEW perm PROVE LET x == Moved(b, perm)
                                y == Moved(p, perm)
                            IN  x.used = y.used /\ x.colors = y.colors /\ y.next = 1 - x.next
  <2>1. /\ Moved(b, perm).used = Permute(b.used, perm) /\ Moved(b, perm).colors = Permute(b.colors, perm)
        /\ Moved(b, perm).next = b.next
    BY MovedFields
  <2>2. /\ Moved(p, perm).used = Permute(p.used, perm) /\ Moved(p, perm).colors = Permute(p.colors, perm)
        /\ Moved(p, perm).next = p.next
    BY <1>1, MovedFields
  <2> QED BY <1>1, <2>1, <2>2
<1>5. R(b).used = R(p).used /\ R(b).colors = R(p).colors /\ R(p).next = 1 - R(b).next
  BY <1>4, TurnsAreMoves
<1>6. M(b).used = M(p).used /\ M(b).colors = M(p).colors /\ M(p).next = 1 - M(b).next
  BY <1>4, TurnsAreMoves
<1>7. F(b).used = F(p).used /\ F(b).colors = F(p).colors /\ F(p).next = 1 - F(b).next
  <2>1. F(b).used = b.used /\ F(b).colors = b.used \ b.colors /\ F(b).next = 1 - b.next
    BY FlippedFields DEF F
  <2>2. F(p).used = p.used /\ F(p).colors = p.used \ p.colors /\ F(p).next = 1 - p.next
    BY <1>1, FlippedFields DEF F
  <2> QED BY <1>1, <2>1, <2>2
<1>8. PassTo(R(b)) = R(p)
  <2>1. PassTo(R(b)).used = R(b).used /\ PassTo(R(b)).colors = R(b).colors /\ PassTo(R(b)).next = 1 - R(b).next
    BY <1>2, Passed
  <2> QED BY <1>2, <1>3, <1>5, <2>1, SamePosition
<1>9. PassTo(M(b)) = M(p)
  <2>1. PassTo(M(b)).used = M(b).used /\ PassTo(M(b)).colors = M(b).colors /\ PassTo(M(b)).next = 1 - M(b).next
    BY <1>2, Passed
  <2> QED BY <1>2, <1>3, <1>6, <2>1, SamePosition
<1>10. PassTo(F(b)) = F(p)
  <2>1. PassTo(F(b)).used = F(b).used /\ PassTo(F(b)).colors = F(b).colors /\ PassTo(F(b)).next = 1 - F(b).next
    BY <1>2, Passed
  <2> QED BY <1>2, <1>3, <1>7, <2>1, SamePosition
<1> QED BY <1>8, <1>9, <1>10 DEF p

(* Boards whose moves correspond, and lead to the same classes.            *)
Alike(b, c, perm) ==
  /\ CellMoves(c) = {perm[m] : m \in CellMoves(b)}
  /\ \A m \in CellMoves(b) :
       dev_canonicalize(dev_playMove(c, perm[m]), 16) = dev_canonicalize(dev_playMove(b, m), 16)

(* Boards that are images of each other have moves to images of each other. *)
LEMMA ImagesAlike ==
  ASSUME Sized, NEW b \in Positions
  PROVE  Alike(b, R(b), rotate90) /\ Alike(b, M(b), mirrorBytewise) /\ Alike(b, F(b), [x \in Bits |-> x])
<1>1. ASSUME NEW m \in CellMoves(b)
      PROVE  LET x == dev_playMove(b, m)
             IN  /\ x \in Positions
                 /\ dev_canonicalize(R(x), 16) = dev_canonicalize(x, 16)
                 /\ dev_canonicalize(M(x), 16) = dev_canonicalize(x, 16)
                 /\ dev_canonicalize(F(x), 16) = dev_canonicalize(x, 16)
  <2> DEFINE x == dev_playMove(b, m)
  <2>1. x \in Positions
    BY Played
  <2> HIDE DEF x
  <2>2. R(x) \in Positions /\ M(x) \in Positions /\ F(x) \in Positions
    BY <2>1, Closed
  <2>3. R(x) \in Images(x) /\ M(x) \in Images(x) /\ F(x) \in Images(x)
    BY <2>1, <2>2, ImagesOf
  <2> QED BY <2>1, <2>3, CanonicalOfClass DEF x
<1>2. Alike(b, R(b), rotate90)
  <2>1. /\ CellMoves(R(b)) = {rotate90[m] : m \in CellMoves(b)}
        /\ \A m \in CellMoves(b) : dev_playMove(R(b), rotate90[m]) = Moved(dev_playMove(b, m), rotate90)
    BY TurnsAreMoves, TurnSymmetric, MovedMoves
  <2>2. \A m \in CellMoves(b) : dev_playMove(R(b), rotate90[m]) = R(dev_playMove(b, m))
    BY <2>1, TurnsAreMoves
  <2> QED BY <1>1, <2>1, <2>2 DEF Alike
<1>3. Alike(b, M(b), mirrorBytewise)
  <2>1. /\ CellMoves(M(b)) = {mirrorBytewise[m] : m \in CellMoves(b)}
        /\ \A m \in CellMoves(b) : dev_playMove(M(b), mirrorBytewise[m]) = Moved(dev_playMove(b, m), mirrorBytewise)
    BY TurnsAreMoves, TurnSymmetric, MovedMoves
  <2>2. \A m \in CellMoves(b) : dev_playMove(M(b), mirrorBytewise[m]) = M(dev_playMove(b, m))
    BY <2>1, TurnsAreMoves
  <2> QED BY <1>1, <2>1, <2>2 DEF Alike
<1>4. Alike(b, F(b), [x \in Bits |-> x])
  <2> DEFINE id == [x \in Bits |-> x]
  <2>1. \A m \in CellMoves(b) : id[m] = m
    BY MaskInBits DEF CellMoves
  <2> HIDE DEF id
  <2>2. CellMoves(F(b)) = {id[m] : m \in CellMoves(b)}
    BY <2>1, FlippedMoves
  <2>3. \A m \in CellMoves(b) : dev_playMove(F(b), id[m]) = F(dev_playMove(b, m))
    BY <2>1, FlippedMoves
  <2> QED BY <1>1, <2>2, <2>3 DEF Alike, id
<1> QED BY <1>2, <1>3, <1>4

(* The classes of the children: the number of symmetries the kernel tries
   does not change them.                                                   *)
Classes(b, n) == {dev_canonicalize(c, 16) : c \in ExpandKernel(b, n)}

(* The classes of the children are those of the boards after each move.     *)
LEMMA GrownOf ==
  ASSUME Sized, NEW b \in Positions, NEW n \in {1, 4, 8, 16}
  PROVE  Classes(b, n) = {dev_canonicalize(dev_playMove(Turn(b).src, m), 16) : m \in Turn(b).moves}
<1> DEFINE t == Turn(b)
<1>1. t.src \in Positions /\ \A m \in t.moves : m \in CellMoves(t.src)
  BY WhoseTurn
<1> HIDE DEF t
<1>2. ASSUME NEW m \in t.moves
      PROVE  dev_canonicalize(Child(t.src, m, n), 16) = dev_canonicalize(dev_playMove(t.src, m), 16)
  <2> DEFINE x == dev_playMove(t.src, m)
  <2>1. x \in Positions
    BY <1>1, Played
  <2> HIDE DEF x
  <2>2. dev_canonicalize(x, n) \in Images(x)
    BY <2>1, CanonicalIn
  <2>3. dev_canonicalize(dev_canonicalize(x, n), 16) = dev_canonicalize(x, 16)
    BY <2>1, <2>2, CanonicalOfClass
  <2> QED BY <2>3 DEF x, Child
<1>3. ExpandKernel(b, n) = {Child(t.src, m, n) : m \in t.moves}
  BY DEF ExpandKernel, t
<1>4. {dev_canonicalize(c, 16) : c \in ExpandKernel(b, n)} = {dev_canonicalize(dev_playMove(t.src, m), 16) : m \in t.moves}
  BY <1>2, <1>3
<1> QED BY <1>4 DEF t, Classes

(* Boards with corresponding moves have children of the same classes, and pass alike. *)
LEMMA AlikeGrow ==
  ASSUME Sized, NEW b \in Positions, NEW c \in Positions, NEW perm, NEW n \in {1, 4, 8, 16},
         Alike(b, c, perm), Alike(PassTo(b), PassTo(c), perm)
  PROVE  /\ Turn(c).kind = Turn(b).kind
         /\ Classes(c, n) = Classes(b, n)
<1> DEFINE t == Turn(b)
           s == Turn(c)
           pb == PassTo(b)
           pc == PassTo(c)
           Grown(u) == {dev_canonicalize(dev_playMove(u.src, m), 16) : m \in u.moves}
<1>1. /\ CellMoves(b) = {} <=> CellMoves(c) = {}
      /\ CellMoves(pb) = {} <=> CellMoves(pc) = {}
  BY DEF Alike
<1>2. {dev_canonicalize(dev_playMove(c, m), 16) : m \in CellMoves(c)}
        = {dev_canonicalize(dev_playMove(b, m), 16) : m \in CellMoves(b)}
  BY DEF Alike
<1>3. {dev_canonicalize(dev_playMove(pc, m), 16) : m \in CellMoves(pc)}
        = {dev_canonicalize(dev_playMove(pb, m), 16) : m \in CellMoves(pb)}
  BY DEF Alike
<1>4. /\ CellMoves(b) # {} => t = [kind |-> "move", src |-> b, moves |-> CellMoves(b)]
      /\ CellMoves(b) = {} /\ CellMoves(pb) # {} => t = [kind |-> "pass", src |-> pb, moves |-> CellMoves(pb)]
      /\ CellMoves(b) = {} /\ CellMoves(pb) = {} => t = [kind |-> "terminal", src |-> b, moves |-> {}]
  BY WhoseTurn
<1>5. /\ CellMoves(c) # {} => s = [kind |-> "move", src |-> c, moves |-> CellMoves(c)]
      /\ CellMoves(c) = {} /\ CellMoves(pc) # {} => s = [kind |-> "pass", src |-> pc, moves |-> CellMoves(pc)]
      /\ CellMoves(c) = {} /\ CellMoves(pc) = {} => s = [kind |-> "terminal", src |-> c, moves |-> {}]
  BY WhoseTurn
<1> HIDE DEF t, s, pb, pc
<1>6. s.kind = t.kind /\ Grown(s) = Grown(t)
  <2>1. CASE CellMoves(b) # {}
    <3>1. s = [kind |-> "move", src |-> c, moves |-> CellMoves(c)] /\ t = [kind |-> "move", src |-> b, moves |-> CellMoves(b)]
      BY <1>1, <1>4, <1>5, <2>1
    <3>2. s.kind = "move" /\ s.src = c /\ s.moves = CellMoves(c) /\ t.kind = "move" /\ t.src = b /\ t.moves = CellMoves(b)
      BY <3>1
    <3> QED BY <1>2, <3>2
  <2>2. CASE CellMoves(b) = {} /\ CellMoves(pb) # {}
    <3>1. s = [kind |-> "pass", src |-> pc, moves |-> CellMoves(pc)] /\ t = [kind |-> "pass", src |-> pb, moves |-> CellMoves(pb)]
      BY <1>1, <1>4, <1>5, <2>2
    <3>2. s.kind = "pass" /\ s.src = pc /\ s.moves = CellMoves(pc) /\ t.kind = "pass" /\ t.src = pb /\ t.moves = CellMoves(pb)
      BY <3>1
    <3> QED BY <1>3, <3>2
  <2>3. CASE CellMoves(b) = {} /\ CellMoves(pb) = {}
    <3>1. s = [kind |-> "terminal", src |-> c, moves |-> {}] /\ t = [kind |-> "terminal", src |-> b, moves |-> {}]
      BY <1>1, <1>4, <1>5, <2>3
    <3>2. s.kind = "terminal" /\ s.moves = {} /\ t.kind = "terminal" /\ t.moves = {}
      BY <3>1
    <3> QED BY <3>2
  <2> QED BY <2>1, <2>2, <2>3
<1>7. Classes(b, n) = Grown(t) /\ Classes(c, n) = Grown(s)
  BY GrownOf DEF t, s
<1> HIDE DEF Grown
<1> QED BY <1>6, <1>7 DEF t, s

(* Expanding one board of a symmetry class generates the classes every other board
   of it would generate, and counts the same passes and ends of the game. *)
THEOREM RepresentativesSuffice == Spec => []RepresentativeSuffices
<1>1. ASSUME OnPositions PROVE RepresentativeSuffices
  <2>1. Sized /\ board \in Positions /\ PassTo(board) \in Positions /\ NumRotations \in {1, 4, 8, 16}
    BY <1>1, Passed, GameAssumption DEF OnPositions
  <2>2. dev_rotate90Right(board) = R(board) /\ dev_mirrorVerticalAxis(board) = M(board) /\ dev_boardFlip(board) = F(board)
    BY DEF R, M, F
  <2>3. R(board) \in Positions /\ M(board) \in Positions /\ F(board) \in Positions
    BY <2>1, Closed
  <2>4. R(board) \in Images(board) /\ M(board) \in Images(board) /\ F(board) \in Images(board)
    BY <2>1, <2>3, ImagesOf
  <2>5. PassTo(R(board)) = R(PassTo(board)) /\ PassTo(M(board)) = M(PassTo(board)) /\ PassTo(F(board)) = F(PassTo(board))
    BY <2>1, PassCommutes
  <2>6. ASSUME NEW b \in {R(board), M(board), F(board)}
        PROVE  \E perm : Alike(board, b, perm) /\ Alike(PassTo(board), PassTo(b), perm)
    BY <2>1, <2>5, ImagesAlike
  <2>7. ASSUME NEW b \in {R(board), M(board), F(board)}
        PROVE  /\ dev_canonicalize(b, 16) = dev_canonicalize(board, 16)
               /\ Classes(b, NumRotations) = Classes(board, NumRotations)
               /\ Turn(b).kind = Turn(board).kind
    <3>1. dev_canonicalize(b, 16) = dev_canonicalize(board, 16)
      BY <2>1, <2>4, CanonicalOfClass
    <3>2. PICK perm : Alike(board, b, perm) /\ Alike(PassTo(board), PassTo(b), perm)
      BY <2>6
    <3>3. b \in Positions
      BY <2>3
    <3>4. /\ Turn(b).kind = Turn(board).kind
          /\ Classes(b, NumRotations) = Classes(board, NumRotations)
      BY <2>1, <3>2, <3>3, AlikeGrow
    <3> QED BY <3>1, <3>4
  <2> QED BY <2>2, <2>7 DEF RepresentativeSuffices, Classes
<1> QED BY <1>1, PositionInv, PTL
=============================================================================
