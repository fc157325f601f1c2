------------------------------- MODULE GameTree -------------------------------
(***************************************************************************)
(* The boards the solver generates: from the first board, one canonical    *)
(* child at a time. A state is one record of a level file together with    *)
(* the player of that file.                                                *)
(***************************************************************************)
EXTENDS OthelloCuda

CONSTANTS NumRotations,   \* symmetries tried by the kernel
          Games           \* [size, opening]: a board size and the moves played before
                          \* the walk begins

ASSUME GameAssumption ==
  /\ NumRotations \in {1, 4, 8, 16}
  /\ \A g \in Games : g.size \in {4, 6, 8} /\ g.opening \in Seq(Bits)

VARIABLE board

vars == <<boardSize, board>>

\* The board after each move of an opening.
After(opening) ==
  LET after[n \in 0..Len(opening)] ==
        IF n = 0 THEN FirstBoard ELSE dev_playMove(after[n - 1], opening[n])
  IN  after

\* The walk starts from the first board, or from one that legal moves lead to.
Init ==
  \E g \in Games :
    /\ boardSize = g.size
    /\ \A n \in DOMAIN g.opening : g.opening[n] \in BoardKeyGetMoves(After(g.opening)[n - 1])
    /\ board = After(g.opening)[Len(g.opening)]

Expand(kind) ==
  /\ Turn(board).kind = kind
  /\ \E m \in Turn(board).moves : board' = Child(Turn(board).src, m, NumRotations)
  /\ UNCHANGED boardSize

Play == Expand("move")
Pass == Expand("pass")

Next == Play \/ Pass

Spec == Init /\ [][Next]_vars

-----------------------------------------------------------------------------
(* Invariants. *)

\* A key describes a position: pieces on the board, the four in the middle
\* never leave it, colors only where a piece is.
TypeOK ==
  /\ boardSize \in {4, 6, 8}
  /\ board.used \subseteq BoardMask
  /\ FirstBoard.used \subseteq board.used
  /\ board.colors \subseteq board.used
  /\ board.next \in {White, Black}

\* The shifted words, with the edge masks of the board size, find for either
\* player exactly the moves a walk over the cells finds, on the CPU and on the
\* GPU (BoardMoveCalculator.cpp, dev_boardKeyGetMoves); and a move turns over
\* what the walk turns over, at least one piece, although the flips use the
\* masks of the full grid and the moves those of the board
\* (MovePlayAndSetResultBoard.cpp, dev_computeFlips).
RulesMatchCells ==
  /\ \A b \in {board, PassTo(board)} :
       /\ dev_boardKeyGetMoves(b, OBCuda_GetBoardConsts) = CellMoves(b)
       /\ BoardMoveCalculator(b) = CellMoves(b)
       /\ BoardKeyGetMoves(b) = CellMoves(b)
  /\ LET t == Turn(board)
     IN  \A m \in t.moves :
           LET child == dev_playMove(t.src, m)
           IN  /\ child = CellApplyMove(PassTo(t.src), t.src.next, m)
               /\ child = MovePlayAndSetResultBoard(t.src, m)
               /\ Cardinality(Mine(child)) < Cardinality(Theirs(t.src))

\* The word tricks are the geometric turns, and CPU and GPU choose the same
\* representative (BoardCreateUniqueBoard.cpp, dev_canonicalize_key).
CanonicalFormsAgree ==
  /\ dev_rotate90Right(board) = CellRotate(board)
  /\ BoardRotate90DegreesRight(board) = CellRotate(board)
  /\ dev_mirrorVerticalAxis(board) = CellMirror(board)
  /\ BoardMirrorVerticalAxis(board) = CellMirror(board)
  /\ dev_boardFlip(board) = BoardFlip(board)
  /\ dev_canonicalize(board, NumRotations) = BoardCreateUniqueBoard(board, NumRotations)

\* Expanding only the representative loses nothing: a turned, mirrored or
\* color-swapped board has the same canonical form and the same canonical
\* children, through passes too (GpuKernels.cu ExpandKernel).
RepresentativeSuffices ==
  \A b \in {dev_rotate90Right(board), dev_mirrorVerticalAxis(board), dev_boardFlip(board)} :
    /\ dev_canonicalize(b, 16) = dev_canonicalize(board, 16)
    /\ {dev_canonicalize(c, 16) : c \in ExpandKernel(b, NumRotations)}
         = {dev_canonicalize(c, 16) : c \in ExpandKernel(board, NumRotations)}
    /\ Turn(b).kind = Turn(board).kind

\* The accumulator reserves room for so many children of each board
\* (GetMaxMovesForBoardSize, GpuAccumulatorHasRoom).
FitsReservation == Cardinality(Turn(board).moves) <= GetMaxMovesForBoardSize

\* No board has more moves than that, on the sizes below 8; on 8x8, where the
\* code has 28, there are positions with more (MCGameTree, BusyOpening).
MovesWithinMax == boardSize # 8 => FitsReservation
=============================================================================
