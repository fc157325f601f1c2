-------------------------- MODULE MCLevelPipeline --------------------------
(***************************************************************************)
(* Small instances of LevelPipeline for TLC.                               *)
(***************************************************************************)
EXTENDS LevelPipeline

CONSTANTS b1, b2

Kids(w, b) == [p \in Players |-> IF p = White THEN w ELSE b]

\* Children for both players, and for white only.
MCTwoBatches == {Kids({b1}, {b2}), Kids({b2}, {})}
=============================================================================
