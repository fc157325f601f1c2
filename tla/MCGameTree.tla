----------------------------- MODULE MCGameTree -----------------------------
(* Two games. The 4x4 game in full, from its start position: its board has *)
(* empty cells around it. And the end of one 8x8 game, where runs reach    *)
(* both borders of the word and only the edge masks keep them in a row.    *)
EXTENDS GameTree

\* An 8x8 game played until six cells are empty.
EndgameOpening ==
  <<37, 43, 18, 38, 42, 20, 45, 53, 44, 26, 19, 12, 25, 17, 39, 33, 29, 47,
    46, 21, 4, 54, 10, 2, 62, 11, 40, 41, 16, 34, 30, 5, 51, 31, 22, 24, 49,
    60, 55, 13, 23, 57, 61, 9, 52, 63, 50, 3, 8, 0, 32, 14, 1, 48>>

\* A legal 8x8 opening that leaves the player to move 31 moves, more than the
\* 28 GetMaxMovesForBoardSize has: FitsReservation fails after it.
BusyOpening ==
  <<19, 34, 43, 18, 37, 38, 44, 53, 45, 51, 52, 21, 20, 11, 41, 33, 10, 49,
    42, 54, 29, 13, 25, 9>>

BusyGames == {[size |-> 8, opening |-> BusyOpening]}

MCGames == {[size |-> 4, opening |-> <<>>], [size |-> 8, opening |-> EndgameOpening]}
=============================================================================
