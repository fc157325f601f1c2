----------------------------- MODULE OthelloCuda -----------------------------
(***************************************************************************)
(* The device copies of the rules, and what the expansion kernel makes of  *)
(* one board: the GPU uses only these. They are written out a second time  *)
(* in the source (masks, shifts, order, symmetries), so they are here too. *)
(***************************************************************************)
EXTENDS OthelloBasics

\* DevBoardConsts: the board size globals, copied for the device.
OBCuda_GetBoardConsts ==
  [boardMask |-> BoardMask, boardRightEdge |-> RightEdge, boardLeftEdge |-> LeftEdge]

-----------------------------------------------------------------------------
(* Symmetries, again permutations of the bits of a word. *)

dev_bswap64 == [b \in Bits |-> b + 56 - 16 * (b \div 8)]

dev_flipDiagA1H8 ==
  LET k4 == {b \in Bits : b >= 32 /\ b % 8 < 4}
      k2 == {b \in Bits : b % 32 >= 16 /\ b % 4 < 2}
      k1 == {b \in Bits : b % 16 >= 8 /\ b % 2 = 0}
  IN  [b \in Bits |-> Exchange(k1, 7)[Exchange(k2, 14)[Exchange(k4, 28)[b]]]]

dev_mirrorTwoPasses ==
  LET Halves(b, n) == IF (b \div n) % 2 = 1 THEN b - n ELSE b + n
  IN  [b \in Bits |-> Halves(Halves(b, 4), 2)]
dev_mirrorBytewise ==
  LET Halves(b, n) == IF (b \div n) % 2 = 1 THEN b - n ELSE b + n
  IN  [b \in Bits |-> Halves(Halves(Halves(b, 4), 2), 1)]

dev_turn == [b \in Bits |-> dev_flipDiagA1H8[dev_bswap64[b]]]

dev_rotate90Right(b) ==
  [b EXCEPT !.used = Permute(@, dev_turn), !.colors = Permute(@, dev_turn)]

dev_mirrorVerticalAxis(b) ==
  [b EXCEPT !.used = Permute(@, dev_mirrorBytewise),
            !.colors = Permute(@, dev_mirrorBytewise)]

dev_boardFlipAllBits(b) ==
  [b EXCEPT !.colors = BoardMask \ @, !.next = 1 - @]
dev_boardFlipKeepsPlayer(b) ==
  [b EXCEPT !.colors = b.used \ @]
dev_boardFlip(b) ==
  [b EXCEPT !.colors = b.used \ @, !.next = 1 - @]

-----------------------------------------------------------------------------
(* Moves. *)

dev_computeFlips(move, player, opponent) ==
  LET nlc == Bits \ ByteMask(0..7, {7})
      nrc == Bits \ ByteMask(0..7, {0})
  IN  FlipsAlong(move, player, opponent,
        {[by |-> 8, keep |-> Bits], [by |-> -8, keep |-> Bits]}
          \cup {[by |-> n, keep |-> nrc] : n \in {-1, -9, 7}}
          \cup {[by |-> n, keep |-> nlc] : n \in {1, -7, 9}})

dev_applyMove(b, color, move) ==
  LET player == IF color = Black THEN b.used \cap b.colors ELSE b.used \ b.colors
      flips  == dev_computeFlips(move, player, b.used \ player)
  IN  [b EXCEPT !.used = @ \cup {move},
                !.colors = IF color = Black THEN @ \cup {move} \cup flips
                                            ELSE @ \ ({move} \cup flips)]

dev_playMove(b, move) == dev_applyMove(PassTo(b), b.next, move)

dev_boardKeyGetMoves(b, c) ==
  LET notRight == Bits \ c.boardRightEdge
      notLeft  == Bits \ c.boardLeftEdge
  IN  MovesAlong(b,
        {[by |-> n, keep |-> notRight] : n \in {-1, -9, 7}}
          \cup {[by |-> n, keep |-> notLeft] : n \in {1, -7, 9}}
          \cup {[by |-> n, keep |-> Bits] : n \in {-8, 8}},
        c.boardMask)

-----------------------------------------------------------------------------
(* The canonical key: the least of the symmetric keys, found by one scan. *)

dev_boardLT(a, b) ==
  IF a.used # b.used THEN WordLess(a.used, b.used)
  ELSE IF a.colors # b.colors THEN WordLess(a.colors, b.colors)
  ELSE a.next > b.next

\* The turns of one board, of its mirror image, and of both with the colors
\* swapped, as far as the number of symmetries asks for them.
Symmetries(b, numRotations) ==
  LET turns(x) ==
        LET x1 == dev_rotate90Right(x)
            x2 == dev_rotate90Right(x1)
        IN  {x, x1, x2, dev_rotate90Right(x2)}
      boards(x) == turns(x) \cup turns(dev_mirrorVerticalAxis(x))
  IN  CASE numRotations >= 16 -> boards(b) \cup boards(dev_boardFlip(b))
        [] numRotations \in 8..15 -> boards(b)
        [] numRotations \in 4..7  -> turns(b)
        [] OTHER -> {b}

dev_canonicalize(b, numRotations) ==
  LET images == Symmetries(b, numRotations)
  IN  CHOOSE x \in images : \A y \in images : ~dev_boardLT(y, x)

-----------------------------------------------------------------------------
(* One thread of ExpandKernel: a player without a move passes in the same  *)
(* level; a board on which nobody can move is terminal. The children are   *)
(* canonical; their player bit decides the stack they go to.               *)

Turn(b) ==
  LET moves == dev_boardKeyGetMoves(b, OBCuda_GetBoardConsts)
      oppMoves == dev_boardKeyGetMoves(PassTo(b), OBCuda_GetBoardConsts)
  IN  IF moves # {} THEN [kind |-> "move", src |-> b, moves |-> moves]
      ELSE IF oppMoves # {} THEN [kind |-> "pass", src |-> PassTo(b), moves |-> oppMoves]
      ELSE [kind |-> "terminal", src |-> b, moves |-> {}]

Child(src, move, numRotations) == dev_canonicalize(dev_playMove(src, move), numRotations)

ExpandKernel(b, numRotations) ==
  LET t == Turn(b) IN {Child(t.src, m, numRotations) : m \in t.moves}
=============================================================================
