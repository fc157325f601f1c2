---------------------------- MODULE OthelloBasics ----------------------------
(***************************************************************************)
(* The rules of the game as the CPU library has them: bitboards, the legal *)
(* moves, the result of a move, the symmetries and the order of keys.      *)
(* Where the library keeps a cell-by-cell version beside the bitboard one  *)
(* (the #else branches), both are here: the former says what the latter    *)
(* must compute.                                                           *)
(*                                                                         *)
(* A 64-bit word is the set of its one bits; bit 63 is the upper left cell *)
(* of the 8x8 grid, in whose middle a smaller board lies.                  *)
(***************************************************************************)
EXTENDS Integers, Sequences, FiniteSets, FiniteSetsExt

VARIABLE boardSize      \* g_boardSize, cells per side: set once for a run

Bits == 0..63
White == 0
Black == 1

\* FIRSTBIT >> GETINDEX(row, col), and the way back.
CellBit(row, col) == 63 - (row * 8 + col)
RowOf(bit) == (63 - bit) \div 8
ColOf(bit) == (63 - bit) % 8

\* What SetBoardSizeForRun precomputes.
Si == (8 - boardSize) \div 2
Ei == 8 - Si
Rows == Si..(Ei - 1)
BoardMask == {CellBit(r, c) : r \in Rows, c \in Rows}
LeftEdge  == {CellBit(r, Si) : r \in Rows}
RightEdge == {CellBit(r, Ei - 1) : r \in Rows}

\* Words are compared as unsigned integers.
WordLess(x, y) == x # y /\ Max(SymDiff(x, y)) \in y

-----------------------------------------------------------------------------
(* A key: occupied cells, black cells, next player. *)

Mine(b)   == IF b.next = Black THEN b.used \cap b.colors ELSE b.used \ b.colors
Theirs(b) == b.used \ Mine(b)

PassTo(b) == [b EXCEPT !.next = 1 - b.next]

FirstBoard == [used   |-> {CellBit(3, 3), CellBit(4, 4), CellBit(3, 4), CellBit(4, 3)},
               colors |-> {CellBit(3, 4), CellBit(4, 3)},
               next   |-> Black]

-----------------------------------------------------------------------------
(* Shifts. A direction shifts by `by' bits (left if positive) what `keep'  *)
(* leaves, so that no bit wraps into a neighbouring row.                   *)

Shift(x, d) == {b + d.by : b \in x \cap d.keep} \cap Bits

\* Five more propagation steps after the first: six cells, the longest run
\* between two cells of a row of eight.
Fill(first, d, through) ==
  LET Grow(x) == x \cup (Shift(x, d) \cap through)
  IN  Grow(Grow(Grow(Grow(Grow(first)))))

MovesAlongOneStep(b, dirs, mask) ==
  LET Run(d) == Shift(Mine(b), d) \cap Theirs(b) \cap d.keep
  IN  (UNION {Shift(Run(d), d) : d \in dirs}) \cap (mask \ b.used)
MovesAlongOnPieces(b, dirs, mask) ==
  LET Through(d) == Theirs(b) \cap d.keep
      Run(d) == Fill(Shift(Mine(b), d) \cap Through(d), d, Through(d))
  IN  (UNION {Shift(Run(d), d) : d \in dirs}) \cap mask
MovesAlong(b, dirs, mask) ==
  LET Through(d) == Theirs(b) \cap d.keep
      Run(d) == Fill(Shift(Mine(b), d) \cap Through(d), d, Through(d))
  IN  (UNION {Shift(Run(d), d) : d \in dirs}) \cap (mask \ b.used)

FlipsAlong(move, player, opponent, dirs) ==
  LET Run(d) == Fill(Shift({move}, d) \cap opponent, d, opponent)
  IN  UNION {Run(d) : d \in {e \in dirs : Shift(Run(e), e) \cap player # {}}}

MoveDirsUnmasked == {[by |-> n, keep |-> Bits] : n \in {-1, 1, -8, 8, -9, -7, 7, 9}}
MoveDirs ==
  LET notRight == Bits \ RightEdge
      notLeft  == Bits \ LeftEdge
  IN  {[by |-> -1, keep |-> notRight], [by |-> 1, keep |-> notLeft],
       [by |-> -8, keep |-> Bits],     [by |-> 8, keep |-> Bits],
       [by |-> -9, keep |-> notRight], [by |-> -7, keep |-> notLeft],
       [by |-> 7,  keep |-> notRight], [by |-> 9, keep |-> notLeft]}

\* The masks of the flips are those of the full grid.
FlipDirs ==
  LET notRightCol == {b \in Bits : ColOf(b) # 7}
      notLeftCol  == {b \in Bits : ColOf(b) # 0}
  IN  {[by |-> 8, keep |-> Bits],         [by |-> -8, keep |-> Bits],
       [by |-> -1, keep |-> notRightCol], [by |-> 1, keep |-> notLeftCol],
       [by |-> -9, keep |-> notRightCol], [by |-> -7, keep |-> notLeftCol],
       [by |-> 7, keep |-> notRightCol],  [by |-> 9, keep |-> notLeftCol]}

BoardMoveCalculator(b) == MovesAlong(b, MoveDirs, BoardMask)

BoardKeyGetMoves(b) == MovesAlong(b, MoveDirs, BoardMask)

computeFlips(move, player, opponent) == FlipsAlong(move, player, opponent, FlipDirs)

\* What both versions of applyMove do with the flips.
Place(b, color, move, flips) ==
  [b EXCEPT !.used = @ \cup {move},
            !.colors = IF color = Black THEN @ \cup {move} \cup flips
                                        ELSE @ \ ({move} \cup flips)]

applyMove(b, color, move) ==
  LET player == IF color = Black THEN b.used \cap b.colors ELSE b.used \ b.colors
  IN  Place(b, color, move, computeFlips(move, player, b.used \ player))

MovePlayAndSetResultBoard(b, move) == applyMove(PassTo(b), b.next, move)

-----------------------------------------------------------------------------
(* The cell-by-cell versions. *)

Dirs8 == ((-1..1) \X (-1..1)) \ {<<0, 0>>}

OnBoard(row, col) == row \in Rows /\ col \in Rows

\* The cell n steps from a move; whether it is on the board with that color.
At(move, dir, n) == <<RowOf(move) + n * dir[1], ColOf(move) + n * dir[2]>>

Holds(b, cell, color) ==
  LET bit == CellBit(cell[1], cell[2])
  IN  OnBoard(cell[1], cell[2]) /\ bit \in b.used /\ (bit \in b.colors <=> color = Black)

\* The walk meets n - 1 >= 1 cells of the other color, then one of this color;
\* an empty cell or the border ends it before.
ClosesAt(b, color, move, dir, n) ==
  /\ \A k \in 1..(n - 1) : Holds(b, At(move, dir, k), 1 - color)
  /\ Holds(b, At(move, dir, n), color)

moveCalcCheckDir(b, color, move, dir) ==
  \E n \in 2..(boardSize - 1) : ClosesAt(b, color, move, dir, n)

moveCalcHasPossibleMove(b, color, move) ==
  \E dir \in Dirs8 : moveCalcCheckDir(b, color, move, dir)

CellMoves(b) ==
  {m \in BoardMask \ b.used : moveCalcHasPossibleMove(b, b.next, m)}

moveCheckDir(b, color, move, dir) ==
  \E n \in 2..(boardSize - 1) : ClosesAt(b, color, move, dir, n)

moveDir(b, color, move, dir) ==
  UNION {{CellBit(At(move, dir, k)[1], At(move, dir, k)[2]) : k \in 1..(n - 1)} :
           n \in {m \in 2..(boardSize - 1) : ClosesAt(b, color, move, dir, m)}}

CellApplyMove(b, color, move) ==
  LET dirs == {dir \in Dirs8 : moveCheckDir(b, color, move, dir)}
  IN  Place(b, color, move, UNION {moveDir(b, color, move, dir) : dir \in dirs})

-----------------------------------------------------------------------------
(* Symmetries. A sequence of masked exchanges permutes the bits of a word; *)
(* a permutation is a function on bit numbers, applied to each one bit.    *)

Permute(x, perm) == {perm[b] : b \in x}

\* t = mask & (x ^ (x << n)); x ^= t ^ (t >> n): each bit of the mask changes
\* places with the one n below it.
Exchange(mask, n) ==
  [b \in Bits |-> IF b \in mask THEN b - n ELSE IF b + n \in mask THEN b + n ELSE b]

\* Bits of the bytes in `bytes' whose number within the byte is in `inByte'.
ByteMask(bytes, inByte) == {8 * i + j : i \in bytes, j \in inByte}

byteswap == [b \in Bits |-> 8 * (7 - b \div 8) + (b % 8)]

flipDiagA1H8 ==
  LET k4 == ByteMask(4..7, 0..3)
      k2 == ByteMask({2, 3, 6, 7}, {0, 1, 4, 5})
      k1 == ByteMask({1, 3, 5, 7}, {0, 2, 4, 6})
  IN  [b \in Bits |-> Exchange(k1, 7)[Exchange(k2, 14)[Exchange(k4, 28)[b]]]]

mirrorBytewise ==
  LET Swap(high, n) == [b \in Bits |-> IF b \in high THEN b - n ELSE b + n]
  IN  [b \in Bits |->
         Swap(ByteMask(0..7, {1, 3, 5, 7}), 1)[
         Swap(ByteMask(0..7, {2, 3, 6, 7}), 2)[
         Swap(ByteMask(0..7, 4..7), 4)[b]]]]

rotate90 == [b \in Bits |-> flipDiagA1H8[byteswap[b]]]

BoardRotate90DegreesRight(b) ==
  [b EXCEPT !.used = Permute(@, rotate90), !.colors = Permute(@, rotate90)]

BoardMirrorVerticalAxis(b) ==
  [b EXCEPT !.used = Permute(@, mirrorBytewise), !.colors = Permute(@, mirrorBytewise)]

\* The other color for every piece on the board, and the other player to move.
BoardFlip(b) ==
  [used   |-> b.used \cap BoardMask,
   colors |-> (b.used \cap BoardMask) \ b.colors,
   next   |-> 1 - b.next]

\* The cell-by-cell rotation and mirror.
CellRotate(b) ==
  LET Turn(x) == {CellBit(ColOf(c), 7 - RowOf(c)) : c \in x \cap BoardMask}
  IN  [b EXCEPT !.used = Turn(@), !.colors = Turn(b.used \cap b.colors)]

CellMirror(b) ==
  LET Turn(x) == {CellBit(RowOf(c), Ei - 1 - (ColOf(c) - Si)) : c \in x \cap BoardMask}
  IN  [b EXCEPT !.used = Turn(@), !.colors = Turn(b.used \cap b.colors)]

-----------------------------------------------------------------------------
(* The order of boards and the representative of a symmetry class. *)

\* BoardCompare < 0: 'B' is less than 'W'.
BoardLess(a, b) ==
  \/ WordLess(a.used, b.used)
  \/ a.used = b.used /\ WordLess(a.colors, b.colors)
  \/ a.used = b.used /\ a.colors = b.colors /\ a.next > b.next

FourTurns(b) ==
  LET b1 == BoardRotate90DegreesRight(b)
      b2 == BoardRotate90DegreesRight(b1)
  IN  <<b, b1, b2, BoardRotate90DegreesRight(b2)>>

\* The sorted array's first element.
BoardCreateUniqueBoard(b, numRotations) ==
  LET eight(x) == FourTurns(x) \o FourTurns(BoardMirrorVerticalAxis(x))
      boards == CASE numRotations = 16 -> eight(b) \o eight(BoardFlip(b))
                  [] numRotations = 8  -> eight(b)
                  [] numRotations = 4  -> FourTurns(b)
                  [] OTHER             -> <<b>>
  IN  CHOOSE x \in {boards[i] : i \in DOMAIN boards} :
         \A i \in DOMAIN boards : ~BoardLess(boards[i], x)

GetMaxMovesForBoardSize == CASE boardSize = 4 -> 6
                             [] boardSize = 6 -> 19
                             [] boardSize = 8 -> 28
=============================================================================
